-------------------------- MODULE LocalStateProofs --------------------------
(* Proofs about the counters and their cache, for any number of requests,
   paths, restarts and flushes: no counter exceeds what requests have added,
   what a flush has persisted no later flush takes back, and no total is
   broken down into more than itself. *)
EXTENDS LocalState, FiniteSetTheorems, WellFoundedInduction, TLAPS

(* What a sum over a finite set is, for any choice of the order in which its
   elements are added up. *)

\* Every non-empty set of naturals has a least element.
LEMMA LeastNatural ==
    ASSUME NEW R \in SUBSET Nat, R # {}
    PROVE  \E n \in R : \A m \in R : n <= m
    <1> DEFINE Less == OpToRel(<, Nat)
    <1>1. IsWellFoundedOn(Less, Nat)
        BY NatLessThanWellFounded
    <1> HIDE DEF Less
    <1>2. PICK n \in R : \A m \in R : <<m, n>> \notin Less
        BY <1>1, WFMin
    <1>3. \A m \in R : ~(m < n)
        BY <1>2 DEF Less, OpToRel
    <1> QED
        BY <1>3

\* A subset of the bad ones that has the fewest elements.
LEMMA SmallestSubset ==
    ASSUME NEW S, IsFiniteSet(S), NEW bad \in SUBSET (SUBSET S), bad # {}
    PROVE  \E s \in bad : \A x \in s : s \ {x} \notin bad
    <1> DEFINE sizes == {Cardinality(s) : s \in bad}
    <1>1. \A s \in bad : IsFiniteSet(s) /\ Cardinality(s) \in Nat
        BY FS_Subset, FS_CardinalityType
    <1>2. sizes \in SUBSET Nat /\ sizes # {}
        BY <1>1
    <1>3. PICK n \in sizes : \A m \in sizes : n <= m
        BY <1>2, LeastNatural
    <1>4. PICK s \in bad : n = Cardinality(s)
        BY <1>3
    <1>5. SUFFICES ASSUME NEW x \in s, s \ {x} \in bad
                   PROVE  FALSE
        BY <1>4
    <1>6. Cardinality(s \ {x}) = Cardinality(s) - 1
        BY <1>1, FS_RemoveElement
    <1>7. n <= Cardinality(s \ {x})
        BY <1>3, <1>5
    <1> QED
        BY <1>1, <1>4, <1>6, <1>7

\* A sum over a set takes out one element after the other.
Pick(s) == CHOOSE x \in s : TRUE
SumsUp(f, S, h) == h = [s \in SUBSET S |-> IF s = {} THEN 0 ELSE f[Pick(s)] + h[s \ {Pick(s)}]]
SumOver(f, S) == (CHOOSE h : SumsUp(f, S, h))[S]

\* The sum of the community modules is that one.
LEMMA SumIsSumOver ==
    ASSUME NEW f, NEW S
    PROVE  MapThenSumSet(LAMBDA p : f[p], S) = SumOver(f, S)
    BY Zenon DEF MapThenSumSet, MapThenFoldSet, SumOver, SumsUp, Pick

\* There is such a table of sums for any finite set.
LEMMA SumsExist ==
    ASSUME NEW S, IsFiniteSet(S), NEW f, \A x \in S : f[x] \in Nat
    PROVE  \E h \in [SUBSET S -> Nat] : SumsUp(f, S, h)
    <1> DEFINE Small(n) == {s \in SUBSET S : Cardinality(s) <= n}
    <1> DEFINE Entry(h, s) == IF s = {} THEN 0 ELSE f[Pick(s)] + h[s \ {Pick(s)}]
    <1> DEFINE Good(n) == \E h \in [Small(n) -> Nat] : \A s \in Small(n) : h[s] = Entry(h, s)
    <1> DEFINE bad == {n \in Nat : ~Good(n)}
    <1>1. \A s \in SUBSET S : IsFiniteSet(s) /\ Cardinality(s) \in Nat
        BY FS_Subset, FS_CardinalityType
    <1>2. \A s \in SUBSET S : s # {} => Pick(s) \in s
        BY DEF Pick
    <1>3. Good(0)
        <2>1. \A s \in Small(0) : s = {}
            BY <1>1, FS_EmptySet
        <2>2. [s \in Small(0) |-> 0] \in [Small(0) -> Nat]
            OBVIOUS
        <2> HIDE DEF Small
        <2> QED
            BY <2>1, <2>2
    <1>4. ASSUME NEW n \in Nat, Good(n)
          PROVE  Good(n + 1)
        <2>1. PICK h \in [Small(n) -> Nat] : \A s \in Small(n) : h[s] = Entry(h, s)
            BY <1>4
        <2> DEFINE g == [s \in Small(n + 1) |-> Entry(h, s)]
        <2>2. ASSUME NEW s \in Small(n + 1), s # {}
              PROVE  s \ {Pick(s)} \in Small(n) /\ Pick(s) \in S
            <3>1. Cardinality(s \ {Pick(s)}) = Cardinality(s) - 1
                BY <1>1, <1>2, <2>2, FS_RemoveElement
            <3> QED
                BY <1>1, <1>2, <2>2, <3>1
        <2>3. Small(n) \subseteq Small(n + 1)
            BY <1>1
        <2> HIDE DEF Small
        <2>4. \A s \in Small(n + 1) : Entry(h, s) \in Nat
            BY <2>2
        <2>5. g \in [Small(n + 1) -> Nat]
            BY <2>4
        <2>6. \A s \in Small(n) : g[s] = h[s]
            BY <2>1, <2>3
        <2>7. \A s \in Small(n + 1) : g[s] = Entry(g, s)
            BY <2>2, <2>6
        <2> QED
            BY <2>5, <2>7
    <1> HIDE DEF Good
    <1>5. bad = {}
        <2> SUFFICES ASSUME bad # {} PROVE FALSE
            OBVIOUS
        <2>1. PICK n \in bad : \A m \in bad : n <= m
            BY LeastNatural
        <2>2. n \in Nat /\ n # 0 /\ n - 1 \in Nat
            BY <1>3, <2>1
        <2>3. Good(n - 1)
            BY <2>1, <2>2
        <2> QED
            BY <1>4, <2>1, <2>2, <2>3
    <1>6. Good(Cardinality(S))
        BY <1>1, <1>5
    <1>7. Small(Cardinality(S)) = SUBSET S
        BY FS_Subset
    <1>8. PICK h \in [SUBSET S -> Nat] : \A s \in SUBSET S : h[s] = Entry(h, s)
        BY <1>6, <1>7 DEF Good
    <1> QED
        BY <1>8 DEF SumsUp

\* What such a table holds.
IsTable(f, S, h) ==
    /\ h \in [SUBSET S -> Nat]
    /\ SumOver(f, S) = h[S] /\ h[{}] = 0
    /\ \A s \in SUBSET S : s # {} =>
          /\ Pick(s) \in s /\ s \ {Pick(s)} \in SUBSET S
          /\ h[s] = f[Pick(s)] + h[s \ {Pick(s)}]

LEMMA SumTable ==
    ASSUME NEW S, IsFiniteSet(S), NEW f, \A x \in S : f[x] \in Nat
    PROVE  \E h : IsTable(f, S, h)
    <1> DEFINE h == CHOOSE h : SumsUp(f, S, h)
    <1>1. SumsUp(f, S, h)
        BY SumsExist
    <1>2. /\ h = [s \in SUBSET S |-> h[s]] /\ h[{}] = 0
          /\ \A s \in SUBSET S : s # {} => h[s] = f[Pick(s)] + h[s \ {Pick(s)}]
        BY <1>1 DEF SumsUp
    <1>3. SumOver(f, S) = h[S]
        BY DEF SumOver
    <1> HIDE DEF h
    <1>4. \A s \in SUBSET S : s # {} => Pick(s) \in s /\ s \ {Pick(s)} \in SUBSET S
        BY DEF Pick
    <1>5. \A s \in SUBSET S : h[s] \in Nat
        <2> DEFINE bad == {s \in SUBSET S : h[s] \notin Nat}
        <2> SUFFICES ASSUME bad # {} PROVE FALSE
            OBVIOUS
        <2>1. PICK s \in bad : \A x \in s : s \ {x} \notin bad
            BY SmallestSubset
        <2>2. s # {} /\ s \in SUBSET S /\ h[s] \notin Nat
            BY <1>2, <2>1
        <2>3. f[Pick(s)] \in Nat /\ h[s \ {Pick(s)}] \in Nat
            BY <1>4, <2>1, <2>2
        <2>4. h[s] = f[Pick(s)] + h[s \ {Pick(s)}]
            BY <1>2, <2>2
        <2> QED
            BY <2>2, <2>3, <2>4
    <1>6. h \in [SUBSET S -> Nat]
        BY <1>2, <1>5
    <1> QED
        BY <1>2, <1>3, <1>4, <1>6 DEF IsTable

\* Sums grow with what they add up.
LEMMA SumMonotone ==
    ASSUME NEW S, IsFiniteSet(S), NEW f, NEW g,
           \A x \in S : f[x] \in Nat /\ g[x] \in Nat /\ f[x] <= g[x]
    PROVE  /\ SumOver(f, S) \in Nat /\ SumOver(g, S) \in Nat
           /\ SumOver(f, S) <= SumOver(g, S)
    <1>1. PICK h : IsTable(f, S, h)
        BY SumTable
    <1>2. PICK k : IsTable(g, S, k)
        BY SumTable
    <1> DEFINE bad == {s \in SUBSET S : ~(h[s] <= k[s])}
    <1>3. bad = {}
        <2> SUFFICES ASSUME bad # {} PROVE FALSE
            OBVIOUS
        <2>1. PICK s \in bad : \A x \in s : s \ {x} \notin bad
            BY SmallestSubset
        <2> DEFINE x == Pick(s)
        <2> DEFINE t == s \ {x}
        <2>2. s # {}
            <3>1. h[{}] = 0 /\ k[{}] = 0 /\ ~(h[s] <= k[s])
                BY <1>1, <1>2, <2>1 DEF IsTable
            <3> QED
                BY <3>1
        <2>3. /\ x \in S /\ t \in SUBSET S /\ h[t] <= k[t]
              /\ h[s] = f[x] + h[t] /\ k[s] = g[x] + k[t]
            BY <1>1, <1>2, <2>1, <2>2 DEF IsTable
        <2>4. ~(h[s] <= k[s])
            BY <2>1
        <2>5. f[x] \in Nat /\ g[x] \in Nat /\ f[x] <= g[x] /\ h[t] \in Nat /\ k[t] \in Nat
            BY <1>1, <1>2, <2>3 DEF IsTable
        <2> QED
            BY <2>3, <2>4, <2>5
    <1> QED
        BY <1>1, <1>2, <1>3 DEF IsTable

\* Equal entries have equal sums.
LEMMA SumSame ==
    ASSUME NEW S, IsFiniteSet(S), NEW f, NEW g, \A x \in S : f[x] \in Nat /\ g[x] = f[x]
    PROVE  SumOver(g, S) = SumOver(f, S)
    <1>1. SumOver(f, S) \in Nat /\ SumOver(g, S) \in Nat
        BY SumMonotone
    <1>2. SumOver(f, S) <= SumOver(g, S) /\ SumOver(g, S) <= SumOver(f, S)
        BY SumMonotone
    <1> QED
        BY <1>1, <1>2 DEF IsTable

\* One more in one entry is one more in the sum.
LEMMA SumPlusOne ==
    ASSUME NEW S, IsFiniteSet(S), NEW f, NEW g, NEW a \in S,
           \A x \in S : f[x] \in Nat /\ g[x] = IF x = a THEN f[x] + 1 ELSE f[x]
    PROVE  SumOver(g, S) = SumOver(f, S) + 1
    <1>1. PICK h : IsTable(f, S, h)
        BY SumTable
    <1>2. PICK k : IsTable(g, S, k)
        <2>1. \A x \in S : g[x] \in Nat
            OBVIOUS
        <2> QED
            BY <2>1, SumTable
    <1> DEFINE bad == {s \in SUBSET S : k[s] # IF a \in s THEN h[s] + 1 ELSE h[s]}
    <1>3. bad = {}
        <2> SUFFICES ASSUME bad # {} PROVE FALSE
            OBVIOUS
        <2>1. PICK s \in bad : \A x \in s : s \ {x} \notin bad
            BY SmallestSubset
        <2> DEFINE x == Pick(s)
        <2> DEFINE t == s \ {x}
        <2>2. s # {}
            BY <1>1, <1>2, <2>1 DEF IsTable
        <2>3. /\ x \in s /\ t \in SUBSET S /\ k[t] = IF a \in t THEN h[t] + 1 ELSE h[t]
              /\ h[s] = f[x] + h[t] /\ k[s] = g[x] + k[t]
            BY <1>1, <1>2, <2>1, <2>2 DEF IsTable
        <2>4. k[s] # IF a \in s THEN h[s] + 1 ELSE h[s]
            BY <2>1
        <2>5. f[x] \in Nat /\ g[x] = (IF x = a THEN f[x] + 1 ELSE f[x]) /\ h[t] \in Nat
            BY <1>1, <2>1, <2>3 DEF IsTable
        <2>6. a \in t <=> a \in s /\ a # x
            BY <2>3
        <2> HIDE DEF t, x
        <2> QED
            BY <2>3, <2>4, <2>5, <2>6
    <1> QED
        BY <1>1, <1>2, <1>3 DEF IsTable

\* A sum of nothing but zeros is zero, and only that is.
LEMMA SumZero ==
    ASSUME NEW S, IsFiniteSet(S), NEW f, \A x \in S : f[x] \in Nat
    PROVE  SumOver(f, S) = 0 <=> \A x \in S : f[x] = 0
    <1>1. PICK h : IsTable(f, S, h)
        BY SumTable
    <1> DEFINE bad == {s \in SUBSET S : ~(h[s] = 0 <=> \A x \in s : f[x] = 0)}
    <1>2. bad = {}
        <2> SUFFICES ASSUME bad # {} PROVE FALSE
            OBVIOUS
        <2>1. PICK s \in bad : \A x \in s : s \ {x} \notin bad
            BY SmallestSubset
        <2> DEFINE x == Pick(s)
        <2> DEFINE t == s \ {x}
        <2>2. s # {}
            BY <1>1, <2>1 DEF IsTable
        <2>3. /\ x \in s /\ t \in SUBSET S /\ (h[t] = 0 <=> \A y \in t : f[y] = 0)
              /\ h[s] = f[x] + h[t]
            BY <1>1, <2>1, <2>2 DEF IsTable
        <2>4. f[x] \in Nat /\ h[t] \in Nat
            BY <1>1, <2>3 DEF IsTable
        <2>5. h[s] = 0 <=> f[x] = 0 /\ h[t] = 0
            BY <2>3, <2>4
        <2>6. (\A y \in s : f[y] = 0) <=> f[x] = 0 /\ \A y \in t : f[y] = 0
            BY <2>3
        <2> QED
            BY <2>1, <2>3, <2>5, <2>6
    <1> QED
        BY <1>1, <1>2 DEF IsTable
-----------------------------------------------------------------------------
\* Every counter belongs to a level that a snapshot reads.
LEMMA CellLevels ==
    ASSUME NEW k, NEW c \in Cells(k)
    PROVE  \E i \in 1..Len(ReadOrder(k)) : ReadOrder(k)[i] = c[1]
    BY DEF Cells, Cell, Levels

\* The two orders are sequences of at least two steps.
LEMMA OrderLengths ==
    ASSUME NEW k \in Kinds
    PROVE  /\ Len(AddOrder(k)) \in Nat /\ Len(AddOrder(k)) >= 2
           /\ Len(ReadOrder(k)) \in Nat /\ Len(ReadOrder(k)) >= 2
    BY DEF Kinds, AddOrder, ReadOrder, TokenAdds, CompressAdds, WardenAdds,
              TokenReads, CompressReads, WardenReads

\* A key is read immediately before the pools, and nothing else is.
LEMMA PoolAfterKey ==
    ASSUME NEW k \in Kinds, NEW i \in 1..Len(ReadOrder(k)), ReadOrder(k)[i] = "pool"
    PROVE  /\ i - 1 \in 1..Len(ReadOrder(k)) /\ ReadOrder(k)[i - 1] = "key"
           /\ \A j \in 1..Len(ReadOrder(k)) : ReadOrder(k)[j] = "key" => j = i - 1
    BY DEF Kinds, ReadOrder, TokenReads, CompressReads, WardenReads

\* Adding to some counters gives counters again, none of them smaller.
LEMMA PlusTypes ==
    ASSUME NEW counts \in [Cells(kind) -> Nat], NEW target
    PROVE  /\ Plus(counts, target) \in [Cells(kind) -> Nat]
           /\ \A c \in Cells(kind) : Plus(counts, target)[c] >= counts[c]
    BY DEF Plus
-----------------------------------------------------------------------------
\* Type correctness.
LEMMA TypeStep ==
    ASSUME TypeOK, [Next]_vars
    PROVE  TypeOK'
    <1>1. kind \in Kinds /\ Zero \in [Cells(kind) -> Nat]
        BY DEF TypeOK, Zero
    <1>2. Len(AddOrder(kind)) \in Nat /\ Len(ReadOrder(kind)) \in Nat
        BY <1>1, OrderLengths
    <1>3. NoSnapshot \in [level : 0..Len(ReadOrder(kind)), todo : SUBSET Cells(kind),
                          pools : SUBSET Cells(kind), vals : [Cells(kind) -> Nat]]
        BY <1>1, <1>2 DEF NoSnapshot
    <1>4. CASE UNCHANGED vars
        BY <1>4 DEF TypeOK, vars, Cells, Idle
    <1>5. ASSUME NEW readable \in BOOLEAN, Boot(readable)
          PROVE  TypeOK'
        <2>1. disk' \in [Cells(kind) -> Nat] /\ store' \in {"file", "memory", "closed"}
            BY <1>1, <1>5 DEF TypeOK, Boot, Opened
        <2>2. live' \in [Cells(kind) -> Nat]
            BY <1>1, <1>5 DEF TypeOK, Boot, Loaded, Restored
        <2>3. boots' \in 0..MaxBoots
            BY <1>5, BoundsAssumption DEF TypeOK, Boot
        <2> QED
            BY <1>5, <2>1, <2>2, <2>3 DEF TypeOK, Boot
    <1>6. ASSUME NEW r \in Recorders, NEW u \in Uses[kind], NEW step \in 1..Len(AddOrder(kind)),
                 AddStep(r, u, step), records' \in 0..MaxRecords
          PROVE  TypeOK'
        <2>1. live' \in [Cells(kind) -> Nat] /\ added' \in [Cells(kind) -> Nat]
            BY <1>6, PlusTypes DEF TypeOK, AddStep
        <2>2. rec' \in [Recorders -> {Idle} \cup [use : Uses[kind], step : 2..Len(AddOrder(kind))]]
            <3>1. CASE step = Len(AddOrder(kind))
                BY <1>6, <3>1 DEF TypeOK, AddStep
            <3>2. CASE step # Len(AddOrder(kind))
                <4>1. [use |-> u, step |-> step + 1] \in
                          [use : Uses[kind], step : 2..Len(AddOrder(kind))]
                    BY <1>2, <3>2
                <4> QED
                    BY <1>6, <3>2, <4>1 DEF TypeOK, AddStep
            <3> QED
                BY <3>1, <3>2
        <2> QED
            BY <1>6, <2>1, <2>2 DEF TypeOK, AddStep
    <1>7. ASSUME NEW r \in Recorders, ContinueRecord(r)
          PROVE  TypeOK'
        <2>1. rec[r] \in [use : Uses[kind], step : 2..Len(AddOrder(kind))]
            BY <1>7 DEF TypeOK, ContinueRecord
        <2>2. rec[r].use \in Uses[kind] /\ rec[r].step \in 1..Len(AddOrder(kind))
            BY <1>2, <2>1
        <2>3. AddStep(r, rec[r].use, rec[r].step) /\ records' \in 0..MaxRecords
            BY <1>7 DEF TypeOK, ContinueRecord
        <2> QED
            BY <1>6, <2>2, <2>3
    <1>8. ASSUME NEW r \in Recorders, NEW u \in Uses[kind], StartRecord(r, u)
          PROVE  TypeOK'
        <2>1. 1 \in 1..Len(AddOrder(kind))
            BY <1>1, OrderLengths
        <2>2. AddStep(r, u, 1) /\ records' \in 0..MaxRecords
            BY <1>8, BoundsAssumption DEF TypeOK, StartRecord
        <2> QED
            BY <1>6, <2>1, <2>2
    <1>9. ASSUME NEW last \in BOOLEAN, BeginFlush(last)
          PROVE  TypeOK'
        BY <1>3, <1>9 DEF TypeOK, BeginFlush, Cells, Idle
    <1>10. CASE NextLevel
        <2> DEFINE level == ReadOrder(kind)[snap.level + 1]
        <2> DEFINE todo == IF level = "pool" THEN snap.pools ELSE Existing(level)
        <2> DEFINE pools == IF level = "key" THEN Existing("pool") ELSE snap.pools
        <2>1. /\ snap' = [snap EXCEPT !.level = @ + 1, !.todo = todo, !.pools = pools]
              /\ snap.level + 1 \in 0..Len(ReadOrder(kind))
            BY <1>2, <1>10 DEF TypeOK, NextLevel
        <2>2. todo \in SUBSET Cells(kind) /\ pools \in SUBSET Cells(kind)
            BY DEF TypeOK, Existing
        <2> HIDE DEF level, todo, pools
        <2>3. snap' \in [level : 0..Len(ReadOrder(kind)), todo : SUBSET Cells(kind),
                         pools : SUBSET Cells(kind), vals : [Cells(kind) -> Nat]]
            BY <2>1, <2>2 DEF TypeOK
        <2> QED
            BY <1>10, <2>3 DEF TypeOK, NextLevel
    <1>11. ASSUME NEW c \in snap.todo, ReadCell(c)
           PROVE  TypeOK'
        <2>1. snap' \in [level : 0..Len(ReadOrder(kind)), todo : SUBSET Cells(kind),
                         pools : SUBSET Cells(kind), vals : [Cells(kind) -> Nat]]
            BY <1>11 DEF TypeOK, ReadCell
        <2> QED
            BY <1>11, <2>1 DEF TypeOK, ReadCell
    <1>12. CASE Save \/ SaveLost
        BY <1>3, <1>12 DEF TypeOK, Save, SaveLost, AfterFlush, CopyDone
    <1>13. CASE Close \/ CloseStore
        BY <1>13 DEF TypeOK, Close, CloseStore
    <1>14. CASE Die
        BY <1>1, <1>3, <1>14 DEF TypeOK, Die
    <1> QED
        BY <1>4, <1>5, <1>7, <1>8, <1>9, <1>10, <1>11, <1>12, <1>13, <1>14 DEF Next, Flushing

\* The state before the first start has the right types.
LEMMA TypeInit == Init => TypeOK
    <1> SUFFICES ASSUME Init PROVE TypeOK
        OBVIOUS
    <1>1. kind \in Kinds /\ Zero \in [Cells(kind) -> Nat]
        BY DEF Init, Zero
    <1>2. Len(ReadOrder(kind)) \in Nat
        BY <1>1, OrderLengths
    <1>3. snap \in [level : 0..Len(ReadOrder(kind)), todo : SUBSET Cells(kind),
                    pools : SUBSET Cells(kind), vals : [Cells(kind) -> Nat]]
        BY <1>1, <1>2 DEF Init, NoSnapshot
    <1>4. 0 \in 0..MaxRecords /\ 0 \in 0..MaxBoots
        BY BoundsAssumption
    <1>5. rec \in [Recorders -> {Idle} \cup [use : Uses[kind], step : 2..Len(AddOrder(kind))]]
        BY DEF Init
    <1> QED
        BY <1>1, <1>3, <1>4, <1>5 DEF Init, TypeOK
-----------------------------------------------------------------------------
(* The inductive invariant.  What is added bounds every count, also the counts
   of a snapshot under way.  While the store is a file, memory is never behind
   it, and a snapshot is behind it only in the counters it still has to read. *)

Below(f, g) == \A c \in Cells(kind) : f[c] <= g[c]

\* The snapshot has not read c yet, but will.
ToRead(c) ==
    \/ c \in snap.todo
    \/ \E i \in 1..Len(ReadOrder(kind)) :
          /\ i > snap.level /\ ReadOrder(kind)[i] = c[1]
          /\ (c[1] = "pool" /\ snap.level = i - 1) => c \in snap.pools

SnapshotAhead ==
    \A c \in Cells(kind) : disk[c] <= snap.vals[c] \/ ToRead(c)

LocalInv ==
    /\ Below(disk, added) /\ Below(live, added) /\ Below(snap.vals, added)
    /\ up /\ store = "file" => Below(disk, live)
    /\ loop # "ended" => up
    /\ loop \in {"copying", "last"} => Below(snap.vals, live)
    /\ loop \in {"copying", "last"} /\ store = "file" => SnapshotAhead

\* The order of counts, step by step.
LEMMA BelowFacts ==
    ASSUME NEW f \in [Cells(kind) -> Nat], NEW g \in [Cells(kind) -> Nat], NEW target
    PROVE  /\ Below(Zero, f) /\ Below(f, f)
           /\ Below(f, g) => Below(f, Plus(g, target))
           /\ Below(f, g) => Below(Plus(f, target), Plus(g, target))
    BY DEF Below, Zero, Plus

\* Where nothing was read yet, everything is still to be read.
LEMMA FreshSnapshot == TypeOK /\ snap = NoSnapshot => SnapshotAhead
    <1> SUFFICES ASSUME TypeOK, snap = NoSnapshot, NEW c \in Cells(kind)
                 PROVE  ToRead(c)
        BY DEF SnapshotAhead
    <1>1. PICK i \in 1..Len(ReadOrder(kind)) : ReadOrder(kind)[i] = c[1]
        BY CellLevels
    <1>2. snap.level = 0
        BY DEF NoSnapshot
    <1>3. ~(c[1] = "pool" /\ snap.level = i - 1)
        <2> SUFFICES ASSUME c[1] = "pool" PROVE 0 # i - 1
            BY <1>2
        <2>1. kind \in Kinds
            BY DEF TypeOK
        <2>2. i - 1 \in 1..Len(ReadOrder(kind)) /\ Len(ReadOrder(kind)) \in Nat
            BY <1>1, <2>1, PoolAfterKey, OrderLengths
        <2> QED
            BY <2>2
    <1> QED
        BY <1>1, <1>2, <1>3 DEF ToRead

\* Going on to the next level leaves nothing out that the file counts.
LEMMA AheadNextLevel ==
    ASSUME TypeOK, SnapshotAhead, NextLevel, Below(disk, live)
    PROVE  SnapshotAhead'
    <1> DEFINE n == snap.level + 1
    <1>1. /\ n \in 1..Len(ReadOrder(kind)) /\ snap.todo = {} /\ snap.level \in Nat
          /\ Len(ReadOrder(kind)) \in Nat /\ kind \in Kinds
        BY OrderLengths DEF TypeOK, NextLevel
    <1>2. /\ snap'.level = n /\ snap'.vals = snap.vals
          /\ snap'.todo = IF ReadOrder(kind)[n] = "pool" THEN snap.pools
                          ELSE Existing(ReadOrder(kind)[n])
          /\ snap'.pools = IF ReadOrder(kind)[n] = "key" THEN Existing("pool") ELSE snap.pools
          /\ kind' = kind /\ disk' = disk
        BY DEF NextLevel, TypeOK
    <1> HIDE DEF n
    <1> SUFFICES ASSUME NEW c \in Cells(kind), ~(disk[c] <= snap.vals[c])
                 PROVE  ToRead(c)'
        BY <1>2 DEF SnapshotAhead, Cells
    <1>3. disk[c] \in Nat /\ live[c] \in Nat /\ snap.vals[c] \in Nat
        BY DEF TypeOK
    <1>4. live[c] > 0
        BY <1>3 DEF Below
    <1>5. ToRead(c)
        BY DEF SnapshotAhead
    <1>6. PICK i \in 1..Len(ReadOrder(kind)) :
              /\ i > snap.level /\ ReadOrder(kind)[i] = c[1]
              /\ (c[1] = "pool" /\ snap.level = i - 1) => c \in snap.pools
        BY <1>1, <1>5 DEF ToRead
    <1>7. CASE i = n
        <2>1. c[1] = "pool" => c \in snap.pools
            BY <1>1, <1>6, <1>7 DEF n
        <2>2. c[1] # "pool" => c \in Existing(ReadOrder(kind)[n])
            BY <1>4, <1>6, <1>7 DEF Existing
        <2>3. c \in snap'.todo
            BY <1>2, <1>6, <1>7, <2>1, <2>2
        <2> QED
            BY <2>3 DEF ToRead
    <1>8. CASE i # n
        <2>1. i > n
            BY <1>1, <1>6, <1>8 DEF n
        <2>2. (c[1] = "pool" /\ n = i - 1) => c \in snap'.pools
            <3> SUFFICES ASSUME c[1] = "pool", n = i - 1 PROVE c \in snap'.pools
                OBVIOUS
            <3>1. ReadOrder(kind)[n] = "key"
                BY <1>1, <1>6, PoolAfterKey
            <3> QED
                BY <1>2, <1>4, <3>1 DEF Existing
        <2> QED
            BY <1>2, <1>6, <2>1, <2>2 DEF ToRead
    <1> QED
        BY <1>7, <1>8

\* Reading a counter brings the copy up to memory.
LEMMA AheadReadCell ==
    ASSUME TypeOK, SnapshotAhead, NEW d \in snap.todo, ReadCell(d), Below(disk, live)
    PROVE  SnapshotAhead'
    <1>1. /\ snap'.level = snap.level /\ snap'.todo = snap.todo \ {d} /\ snap'.pools = snap.pools
          /\ snap'.vals = [snap.vals EXCEPT ![d] = live[d]]
          /\ kind' = kind /\ disk' = disk /\ snap.vals \in [Cells(kind) -> Nat]
        BY DEF ReadCell, TypeOK
    <1> SUFFICES ASSUME NEW c \in Cells(kind), ~(disk[c] <= snap'.vals[c])
                 PROVE  ToRead(c)'
        BY <1>1 DEF SnapshotAhead, Cells
    <1>2. c # d
        BY <1>1 DEF Below
    <1>3. ToRead(c)
        BY <1>1, <1>2 DEF SnapshotAhead
    <1> QED
        BY <1>1, <1>2, <1>3 DEF ToRead

\* A copy that is complete is nowhere behind the file.
LEMMA CompleteCopy ==
    ASSUME TypeOK, SnapshotAhead, CopyDone
    PROVE  Below(disk, snap.vals)
    <1>1. snap.todo = {} /\ snap.level = Len(ReadOrder(kind)) /\ Len(ReadOrder(kind)) \in Nat
        BY OrderLengths DEF CopyDone, TypeOK
    <1>2. \A c \in Cells(kind) : ~ToRead(c)
        BY <1>1 DEF ToRead
    <1> QED
        BY <1>2 DEF SnapshotAhead, Below

\* The invariant depends on the kind, the counts, the store and the loop alone.
LEMMA InvFrame ==
    ASSUME LocalInv, UNCHANGED <<kind, up, disk, live, added, snap>>,
           loop' = loop, store' = store \/ store' # "file"
    PROVE  LocalInv'
    BY DEF LocalInv, Below, SnapshotAhead, ToRead, Cells

LEMMA InvStep ==
    ASSUME TypeOK, LocalInv, [Next]_vars
    PROVE  LocalInv'
    <1>1. /\ disk \in [Cells(kind) -> Nat] /\ live \in [Cells(kind) -> Nat]
          /\ added \in [Cells(kind) -> Nat] /\ snap.vals \in [Cells(kind) -> Nat]
          /\ Zero \in [Cells(kind) -> Nat]
        BY DEF TypeOK, Zero
    <1>2. NoSnapshot.vals = Zero
        BY DEF NoSnapshot
    <1>3. /\ Below(Zero, added) /\ Below(disk, disk) /\ Below(Zero, Zero)
        BY <1>1, BelowFacts
    <1>4. kind' = kind => Cells(kind') = Cells(kind)
        OBVIOUS
    <1>5. CASE UNCHANGED vars
        BY <1>5, InvFrame DEF vars
    <1>6. ASSUME NEW readable \in BOOLEAN, Boot(readable)
          PROVE  LocalInv'
        <2>1. /\ kind' = kind /\ added' = added /\ snap' = snap /\ loop' = "idle" /\ up' = TRUE
              /\ disk' \in {disk, Zero} /\ (store' = "file" /\ ~readable => disk' = Zero)
              /\ (readable => disk' = disk)
              /\ live' = IF readable THEN [c \in Cells(kind) |-> Restored(c)] ELSE Zero
            BY <1>6 DEF Boot, Opened, Loaded
        <2>2. [c \in Cells(kind) |-> Restored(c)] = disk
            BY <1>1 DEF Restored
        <2>3. /\ disk' \in {disk, Zero} /\ live' \in {disk, Zero}
              /\ store' = "file" => disk' = live'
            BY <2>1, <2>2
        <2>4. Below(disk, added) /\ Below(snap.vals, added)
            BY DEF LocalInv
        <2>5. /\ Below(disk', added) /\ Below(live', added)
              /\ store' = "file" => Below(disk', live')
            BY <1>3, <2>3, <2>4
        <2>6. /\ Below(disk, added)' /\ Below(live, added)' /\ Below(snap.vals, added)'
              /\ store' = "file" => Below(disk, live)'
            BY <2>1, <2>4, <2>5 DEF Below
        <2> QED
            BY <2>1, <2>6 DEF LocalInv
    <1>7. ASSUME NEW r \in Recorders, NEW u, NEW step, AddStep(r, u, step)
          PROVE  LocalInv'
        <2> DEFINE target == {Cell(l, u) : l \in AddOrder(kind)[step]}
        <2>1. /\ live' = Plus(live, target) /\ added' = Plus(added, target)
              /\ UNCHANGED <<kind, up, store, disk, snap, loop>>
            BY <1>7 DEF AddStep
        <2> HIDE DEF target
        <2>2. /\ Below(disk, Plus(added, target))
              /\ Below(Plus(live, target), Plus(added, target))
              /\ Below(snap.vals, Plus(added, target))
            BY <1>1, BelowFacts DEF LocalInv
        <2>3. /\ Below(disk, live) => Below(disk, Plus(live, target))
              /\ Below(snap.vals, live) => Below(snap.vals, Plus(live, target))
            BY <1>1, BelowFacts
        <2>4. SnapshotAhead => SnapshotAhead'
            BY <2>1 DEF SnapshotAhead, ToRead, Cells
        <2>5. Below(disk, added)' /\ Below(live, added)' /\ Below(snap.vals, added)'
            BY <2>1, <2>2 DEF Below
        <2>6. /\ Below(disk, live) => Below(disk, live)'
              /\ Below(snap.vals, live) => Below(snap.vals, live)'
            BY <2>1, <2>3 DEF Below
        <2> QED
            BY <2>1, <2>4, <2>5, <2>6 DEF LocalInv
    <1>8. ASSUME NEW r \in Recorders,
                 ContinueRecord(r) \/ \E u \in Uses[kind] : StartRecord(r, u)
          PROVE  LocalInv'
        BY <1>7, <1>8 DEF ContinueRecord, StartRecord
    <1>9. ASSUME NEW last \in BOOLEAN, BeginFlush(last)
          PROVE  LocalInv'
        <2>1. UNCHANGED <<kind, up, store, disk, live, added>> /\ snap' = NoSnapshot
                /\ loop = "idle"
            BY <1>9 DEF BeginFlush
        <2>2. TypeOK' /\ (snap = NoSnapshot)'
            <3>1. Next
                BY <1>9 DEF Next, Flushing
            <3> QED
                BY <2>1, <3>1, TypeStep DEF NoSnapshot, Zero, Cells
        <2>3. SnapshotAhead'
            BY <2>2, FreshSnapshot, PTL
        <2>4. Below(disk, added)' /\ Below(live, added)'
            BY <2>1 DEF LocalInv, Below, Cells
        <2>5. Below(snap.vals, added)' /\ Below(snap.vals, live)'
            <3>1. Below(Zero, live)
                BY <1>1, BelowFacts
            <3> QED
                BY <1>2, <1>3, <2>1, <3>1 DEF Below, Cells
        <2>6. (up /\ store = "file" => Below(disk, live))'
            BY <2>1 DEF LocalInv, Below, Cells
        <2>7. (loop # "ended" => up)'
            BY <1>9 DEF BeginFlush, LocalInv
        <2> QED
            BY <2>3, <2>4, <2>5, <2>6, <2>7 DEF LocalInv
    <1>10. CASE NextLevel
        <2>1. UNCHANGED <<kind, up, store, disk, live, added, loop>> /\ snap'.vals = snap.vals
                /\ loop \in {"copying", "last"}
            BY <1>10 DEF NextLevel, TypeOK
        <2>2. store = "file" => SnapshotAhead'
            BY <1>10, <2>1, AheadNextLevel DEF LocalInv
        <2> QED
            BY <2>1, <2>2 DEF LocalInv, Below, Cells
    <1>11. ASSUME NEW c \in snap.todo, ReadCell(c)
           PROVE  LocalInv'
        <2>1. UNCHANGED <<kind, up, store, disk, live, added, loop>>
                /\ snap'.vals = [snap.vals EXCEPT ![c] = live[c]]
                /\ loop \in {"copying", "last"}
            BY <1>11 DEF ReadCell, TypeOK
        <2>2. store = "file" => SnapshotAhead'
            BY <1>11, <2>1, AheadReadCell DEF LocalInv
        <2>3. Below(snap.vals, added)'
            BY <1>1, <2>1 DEF LocalInv, Below, Cells
        <2>4. Below(snap.vals, live)'
            BY <1>1, <1>11, <2>1 DEF LocalInv, Below, Cells
        <2> QED
            BY <2>1, <2>2, <2>3, <2>4 DEF LocalInv, Below, Cells
    <1>12. CASE Save
        <2>1. /\ UNCHANGED <<kind, up, store, live, added>> /\ disk' = snap.vals
              /\ snap' = NoSnapshot /\ loop' \in {"idle", "ended"} /\ store = "file"
              /\ loop \in {"copying", "last"}
            BY <1>12 DEF Save, AfterFlush, CopyDone
        <2>2. Below(snap.vals, live)
            BY <2>1 DEF LocalInv
        <2>3. Below(disk, added)' /\ Below(live, added)' /\ Below(disk, live)'
            BY <2>1, <2>2 DEF LocalInv, Below, Cells
        <2>4. Below(snap.vals, added)'
            BY <1>2, <1>3, <2>1 DEF Below, Cells
        <2> QED
            BY <2>1, <2>3, <2>4 DEF LocalInv
    <1>13. CASE SaveLost
        <2>1. /\ UNCHANGED <<kind, up, store, live, added, disk>>
              /\ snap' = NoSnapshot /\ loop' \in {"idle", "ended"}
              /\ loop \in {"copying", "last"}
            BY <1>13 DEF SaveLost, AfterFlush, CopyDone
        <2>2. Below(snap.vals, added)'
            BY <1>2, <1>3, <2>1 DEF Below, Cells
        <2> QED
            BY <2>1, <2>2 DEF LocalInv, Below, Cells
    <1>14. CASE Close \/ CloseStore
        BY <1>14, InvFrame DEF Close, CloseStore
    <1>15. CASE Die
        <2>1. /\ UNCHANGED <<kind, disk, added>> /\ up' = FALSE /\ live' = Zero
              /\ snap' = NoSnapshot /\ loop' = "ended"
            BY <1>15 DEF Die
        <2>2. Below(snap.vals, added)' /\ Below(live, added)'
            BY <1>2, <1>3, <2>1 DEF Below, Cells
        <2> QED
            BY <2>1, <2>2 DEF LocalInv, Below, Cells
    <1> QED
        BY <1>5, <1>6, <1>8, <1>9, <1>10, <1>11, <1>12, <1>13, <1>14, <1>15
        DEF Next, Flushing
-----------------------------------------------------------------------------
\* The inductive invariant of the counters and the file: what is added bounds
\* all of them, and memory is never behind the file it is saved to.
THEOREM LocalInvariant == Spec => [](TypeOK /\ LocalInv)
    <1>1. Init => TypeOK /\ LocalInv
        <2> SUFFICES ASSUME Init PROVE TypeOK /\ LocalInv
            OBVIOUS
        <2>1. TypeOK
            BY TypeInit
        <2>2. disk = Zero /\ live = Zero /\ added = Zero /\ snap.vals = Zero
            BY DEF Init, NoSnapshot
        <2>3. Below(Zero, Zero)
            BY DEF Below, Zero
        <2> QED
            BY <2>1, <2>2, <2>3 DEF Init, LocalInv
    <1>2. TypeOK /\ LocalInv /\ [Next]_vars => (TypeOK /\ LocalInv)'
        BY TypeStep, InvStep
    <1> QED
        BY <1>1, <1>2, PTL DEF Spec

\* Every variable keeps its type.
THEOREM LocalTypeCorrect == Spec => []TypeOK
    BY LocalInvariant, PTL

\* No restart and no flush makes a counter exceed what requests have added to it
\* (server.go New and the flush loops, with the trackers' Restore and Snapshot).
THEOREM NothingCountedTwice == Spec => []CountedOnce
    <1>1. TypeOK /\ LocalInv => CountedOnce
        BY DEF LocalInv, Below, CountedOnce
    <1> QED
        BY <1>1, LocalInvariant, PTL

\* While the process runs, no flush takes back what one has persisted.
THEOREM FileOnlyGrows == Spec => PersistedOnlyGrows
    <1>1. ASSUME TypeOK, LocalInv, [Next]_vars
          PROVE  [up => \A c \in Cells(kind) : disk'[c] >= disk[c]]_vars
        <2> SUFFICES ASSUME up, NEW c \in Cells(kind)
                     PROVE  disk'[c] >= disk[c]
            OBVIOUS
        <2>1. disk[c] \in Nat /\ snap.vals[c] \in Nat
            BY <1>1 DEF TypeOK
        <2>2. CASE Save
            <3>1. Below(disk, snap.vals) /\ disk' = snap.vals
                BY <1>1, <2>2, CompleteCopy DEF LocalInv, Save, CopyDone
            <3> QED
                BY <2>1, <3>1 DEF Below
        <2>3. CASE disk' = disk
            BY <2>1, <2>3
        <2>4. \A readable \in BOOLEAN : ~Boot(readable)
            BY DEF Boot
        <2>5. Save \/ disk' = disk
            BY <1>1, <2>4 DEF Next, vars, ContinueRecord, StartRecord, AddStep, Flushing,
               BeginFlush, NextLevel, ReadCell, SaveLost, Close, CloseStore, Die
        <2> QED
            BY <2>2, <2>3, <2>5
    <1> QED
        BY <1>1, LocalInvariant, PTL DEF Spec, PersistedOnlyGrows

-----------------------------------------------------------------------------
(* A total and its parts.  In every tracker one level is broken down by another
   one; the whole is the last level a snapshot reads. *)

Whole == ReadOrder(kind)[Len(ReadOrder(kind))]

Part ==
    CASE kind = "token" -> "key" [] kind = "compress" -> "model" [] kind = "warden" -> "type"

\* The step of a record that adds to a part whose whole an earlier one added to;
\* the warden adds to both under one lock.
PartStep == CASE kind = "token" -> 4 [] kind = "compress" -> 2 [] kind = "warden" -> 3

\* The requests that have added to the whole c, and not yet to its part.
Between(c) == {r \in Recorders : rec[r].step = PartStep /\ Cell(Whole, rec[r].use) = c}

Wholes == {c \in Cells(kind) : c[1] = Whole}

\* The levels of the three trackers.
LEMMA LevelFacts ==
    ASSUME kind \in Kinds
    PROVE  /\ kind = "token" => /\ Whole = "pool" /\ Part = "key" /\ PartStep = 4
                                /\ Len(ReadOrder(kind)) = 4 /\ ReadOrder(kind)[3] = "key"
                                /\ Len(AddOrder(kind)) = 4
           /\ kind = "compress" => /\ Whole = "total" /\ Part = "model" /\ PartStep = 2
                                   /\ Len(ReadOrder(kind)) = 2 /\ Len(AddOrder(kind)) = 2
           /\ kind = "warden" => /\ Whole = "found" /\ Part = "type" /\ PartStep = 3
                                 /\ Len(ReadOrder(kind)) = 3 /\ Len(AddOrder(kind)) = 2
    BY DEF Kinds, Whole, Part, PartStep, AddOrder, ReadOrder, TokenAdds, CompressAdds,
           WardenAdds, TokenReads, CompressReads, WardenReads

\* The step of a record that adds to the whole, and the one that adds to a part.
LEMMA StepLevels ==
    ASSUME kind \in Kinds, NEW step \in 1..Len(AddOrder(kind))
    PROVE  /\ Whole \in AddOrder(kind)[step] <=> step = PartStep - 1
           /\ Part \in AddOrder(kind)[step] <=>
                 step = IF kind = "warden" THEN PartStep - 1 ELSE PartStep
    <1>1. CASE kind = "token"
        <2>1. step \in 1..4 /\ Whole = "pool" /\ Part = "key" /\ PartStep = 4
            BY <1>1, LevelFacts
        <2> QED
            BY <1>1, <2>1 DEF AddOrder, TokenAdds
    <1>2. CASE kind = "compress"
        <2>1. step \in 1..2 /\ Whole = "total" /\ Part = "model" /\ PartStep = 2
            BY <1>2, LevelFacts
        <2> QED
            BY <1>2, <2>1 DEF AddOrder, CompressAdds
    <1>3. CASE kind = "warden"
        <2>1. step \in 1..2 /\ Whole = "found" /\ Part = "type" /\ PartStep = 3
            BY <1>3, LevelFacts
        <2> QED
            BY <1>3, <2>1 DEF AddOrder, WardenAdds
    <1> QED
        BY <1>1, <1>2, <1>3 DEF Kinds

\* The prefixes of a path.
LEMMA Prefixes ==
    ASSUME NEW u \in Seq(STRING)
    PROVE  /\ SubSeq(u, 1, 0) = <<>>
           /\ Len(u) = 3 => SubSeq(SubSeq(u, 1, 3), 1, 2) = SubSeq(u, 1, 2)
    <1>1. SubSeq(u, 1, 0) = <<>>
        OBVIOUS
    <1>2. ASSUME Len(u) = 3
          PROVE  SubSeq(u, 1, 3) = u
        BY <1>2
    <1> QED
        BY <1>1, <1>2

\* A part is a counter of the level below the whole, and there are finitely many.
LEMMA PartsFacts ==
    ASSUME kind \in Kinds, NEW c \in Cells(kind)
    PROVE  /\ Parts(c) \subseteq Cells(kind) /\ IsFiniteSet(Parts(c))
           /\ \A p \in Parts(c) : p[1] = Part /\ p[1] # Whole
           /\ c[1] # Whole => Parts(c) = {}
    <1> DEFINE parts == {Cell(Part, u) : u \in Uses[kind]}
    <1> DEFINE levels == {ReadOrder(kind)[i] : i \in 1..Len(ReadOrder(kind))}
    <1>1. IsFiniteSet(parts)
        <2> DEFINE f == [u \in Uses[kind] |-> Cell(Part, u)]
        <2>1. f \in Surjection(Uses[kind], parts)
            BY DEF Surjection
        <2> QED
            BY <2>1, FS_Surjection, UsesAssumption
    <1>2. Part # Whole
        BY LevelFacts DEF Kinds
    <1>3. c[1] \in levels
        BY DEF Cells, Cell, Levels
    <1>4. \A p \in Parts(c) : p \in Cells(kind) /\ p[1] = Part
        <2>1. CASE kind = "token"
            <3>1. c[1] \in {"total", "model", "key", "pool"} /\ Part = "key"
                BY <1>3, <2>1, LevelFacts DEF ReadOrder, TokenReads
            <3> QED
                BY <2>1, <3>1 DEF Parts
        <2>2. CASE kind = "compress"
            <3>1. c[1] \in {"total", "model"} /\ Part = "model"
                BY <1>3, <2>2, LevelFacts DEF ReadOrder, CompressReads
            <3> QED
                BY <2>2, <3>1 DEF Parts
        <2>3. CASE kind = "warden"
            <3>1. c[1] \in {"type", "inspected", "found"} /\ Part = "type"
                BY <1>3, <2>3, LevelFacts DEF ReadOrder, WardenReads
            <3> QED
                BY <2>3, <3>1 DEF Parts
        <2> QED
            BY <2>1, <2>2, <2>3 DEF Kinds
    <1>5. \A p \in Parts(c) : p \in parts
        BY <1>4 DEF Cells, Cell
    <1>6. c[1] # Whole => Parts(c) = {}
        <2>1. CASE kind = "token"
            BY <1>3, <2>1, LevelFacts DEF Parts, ReadOrder, TokenReads
        <2>2. CASE kind = "compress"
            BY <1>3, <2>2, LevelFacts DEF Parts, ReadOrder, CompressReads
        <2>3. CASE kind = "warden"
            BY <1>3, <2>3, LevelFacts DEF Parts, ReadOrder, WardenReads
        <2> QED
            BY <2>1, <2>2, <2>3 DEF Kinds
    <1> QED
        BY <1>1, <1>2, <1>4, <1>5, <1>6, FS_Subset

\* The counter of a part belongs to the whole counted for the same path.
LEMMA PartOfWhole ==
    ASSUME kind \in Kinds, NEW u \in Uses[kind], NEW c \in Wholes
    PROVE  Cell(Part, u) \in Parts(c) <=> c = Cell(Whole, u)
    <1>1. PICK v \in Uses[kind] : c = Cell(Whole, v)
        BY DEF Wholes, Cells, Cell
    <1>2. u \in Seq(STRING) /\ v \in Seq(STRING)
        BY UsesAssumption
    <1>3. Cell(Part, u) \in Cells(kind)
        <2>1. Part \in Levels(kind)
            <3>1. CASE kind = "token"
                BY <3>1, LevelFacts DEF Levels, ReadOrder, TokenReads
            <3>2. CASE kind = "compress"
                BY <3>2, LevelFacts DEF Levels, ReadOrder, CompressReads
            <3>3. CASE kind = "warden"
                BY <3>3, LevelFacts DEF Levels, ReadOrder, WardenReads
            <3> QED
                BY <3>1, <3>2, <3>3 DEF Kinds
        <2> QED
            BY <2>1 DEF Cells
    <1>4. CASE kind = "token"
        <2>1. Len(u) = 3
            BY <1>4, UsesAssumption DEF Kinds
        <2>2. /\ Cell(Part, u) = <<"key", SubSeq(u, 1, 3)>>
              /\ Cell(Whole, u) = <<"pool", SubSeq(u, 1, 2)>>
              /\ c = <<"pool", SubSeq(v, 1, 2)>>
            BY <1>1, <1>4, LevelFacts DEF Cell, Depth
        <2>3. Parts(c) = {k \in Cells(kind) : k[1] = "key" /\ SubSeq(k[2], 1, 2) = c[2]}
            BY <2>2 DEF Parts
        <2>4. SubSeq(SubSeq(u, 1, 3), 1, 2) = SubSeq(u, 1, 2)
            BY <1>2, <2>1, Prefixes
        <2> QED
            BY <1>3, <2>2, <2>3, <2>4
    <1>5. CASE kind = "compress"
        <2>1. /\ Cell(Part, u)[1] = "model"
              /\ Cell(Whole, u) = <<"total", SubSeq(u, 1, 0)>>
              /\ c = <<"total", SubSeq(v, 1, 0)>>
            BY <1>1, <1>5, LevelFacts DEF Cell, Depth
        <2>2. Parts(c) = {m \in Cells(kind) : m[1] = "model"}
            BY <1>5, <2>1 DEF Parts
        <2>3. SubSeq(u, 1, 0) = SubSeq(v, 1, 0)
            BY <1>2, Prefixes
        <2> QED
            BY <1>3, <2>1, <2>2, <2>3
    <1>6. CASE kind = "warden"
        <2>1. /\ Cell(Part, u)[1] = "type"
              /\ Cell(Whole, u) = <<"found", SubSeq(u, 1, 0)>>
              /\ c = <<"found", SubSeq(v, 1, 0)>>
            BY <1>1, <1>6, LevelFacts DEF Cell, Depth
        <2>2. Parts(c) = {t \in Cells(kind) : t[1] = "type"}
            BY <1>6, <2>1 DEF Parts
        <2>3. SubSeq(u, 1, 0) = SubSeq(v, 1, 0)
            BY <1>2, Prefixes
        <2> QED
            BY <1>3, <2>1, <2>2, <2>3
    <1> QED
        BY <1>4, <1>5, <1>6 DEF Kinds

-----------------------------------------------------------------------------
(* The invariant of the parts.  In memory a whole counts its parts and the
   requests that are between the two; a copy has read all parts before a whole,
   and a whole that the listing left out had no parts either. *)

LiveCovered ==
    \A c \in Wholes : SumOver(live, Parts(c)) + Cardinality(Between(c)) <= live[c]

DiskCovered == \A c \in Wholes : SumOver(disk, Parts(c)) <= disk[c]

ReadingInOrder ==
    /\ \A c \in snap.todo : snap.level > 0 /\ c[1] = ReadOrder(kind)[snap.level]
    /\ \A c \in snap.pools : c[1] = "pool"
    /\ \A c \in Cells(kind) : c[1] = "key" /\ snap.level < 3 => snap.vals[c] = 0

CopyCovered ==
    /\ \A c \in Wholes : Whole = "pool" /\ snap.level = 3 /\ c \notin snap.pools =>
          \A p \in Parts(c) : snap.vals[p] = 0 /\ p \notin snap.todo
    /\ \A c \in Wholes : snap.level = Len(ReadOrder(kind)) =>
          c \in snap.todo \/ SumOver(snap.vals, Parts(c)) <= snap.vals[c]

CoverInv ==
    /\ ~up => \A r \in Recorders : rec[r] = Idle
    /\ LiveCovered /\ DiskCovered /\ ReadingInOrder /\ CopyCovered

\* A sum of counts is a count.
LEMMA PartsSum ==
    ASSUME kind \in Kinds, NEW c \in Cells(kind), NEW f \in [Cells(kind) -> Nat]
    PROVE  SumOver(f, Parts(c)) \in Nat
    <1>1. IsFiniteSet(Parts(c)) /\ \A p \in Parts(c) : f[p] \in Nat
        BY PartsFacts
    <1> QED
        BY <1>1, SumMonotone

\* Sums of the parts grow with the counts.
LEMMA PartsSumBelow ==
    ASSUME kind \in Kinds, NEW c \in Cells(kind),
           NEW f \in [Cells(kind) -> Nat], NEW g \in [Cells(kind) -> Nat], Below(f, g)
    PROVE  SumOver(f, Parts(c)) <= SumOver(g, Parts(c))
    <1>1. /\ IsFiniteSet(Parts(c))
          /\ \A p \in Parts(c) : f[p] \in Nat /\ g[p] \in Nat /\ f[p] <= g[p]
        BY PartsFacts DEF Below
    <1> QED
        BY <1>1, SumMonotone

\* Where nothing is counted, the parts sum to nothing.
LEMMA ZeroCovers ==
    ASSUME kind \in Kinds, NEW c \in Cells(kind)
    PROVE  SumOver(Zero, Parts(c)) = 0 /\ Zero[c] = 0
    <1>1. IsFiniteSet(Parts(c)) /\ \A p \in Parts(c) : Zero[p] = 0
        BY PartsFacts DEF Zero
    <1>2. Zero[c] = 0
        BY DEF Zero
    <1> QED
        BY <1>1, <1>2, SumZero

\* The finitely many requests between a whole and its part.
LEMMA BetweenFinite ==
    ASSUME NEW c
    PROVE  IsFiniteSet(Between(c)) /\ Cardinality(Between(c)) \in Nat
    BY RecordersAssumption, FS_Subset, FS_CardinalityType DEF Between

\* A step of a record adds to the parts of its own whole at most, and by one.
LEMMA PlusParts ==
    ASSUME kind \in Kinds, NEW u \in Uses[kind], NEW step \in 1..Len(AddOrder(kind)),
           NEW f \in [Cells(kind) -> Nat], NEW c \in Wholes
    PROVE  LET target == {Cell(l, u) : l \in AddOrder(kind)[step]}
               mine   == c = Cell(Whole, u)
           IN  /\ Plus(f, target)[c] = IF mine /\ step = PartStep - 1 THEN f[c] + 1 ELSE f[c]
               /\ SumOver(Plus(f, target), Parts(c)) =
                     IF mine /\ step = (IF kind = "warden" THEN PartStep - 1 ELSE PartStep)
                     THEN SumOver(f, Parts(c)) + 1 ELSE SumOver(f, Parts(c))
    <1> DEFINE target == {Cell(l, u) : l \in AddOrder(kind)[step]}
    <1> DEFINE mine == c = Cell(Whole, u)
    <1> DEFINE g == Plus(f, target)
    <1> DEFINE a == Cell(Part, u)
    <1> DEFINE adds == step = (IF kind = "warden" THEN PartStep - 1 ELSE PartStep)
    <1>1. c \in Cells(kind) /\ c[1] = Whole
        BY DEF Wholes
    <1>2. c \in target <=> mine /\ step = PartStep - 1
        BY <1>1, StepLevels DEF Cell
    <1>3. g[c] = IF mine /\ step = PartStep - 1 THEN f[c] + 1 ELSE f[c]
        BY <1>1, <1>2 DEF Plus
    <1>4. /\ Parts(c) \subseteq Cells(kind) /\ IsFiniteSet(Parts(c))
          /\ \A p \in Parts(c) : p[1] = Part
        BY <1>1, PartsFacts
    <1>5. \A p \in Parts(c) : p \in target <=> p = a /\ adds
        BY <1>4, StepLevels DEF Cell
    <1>6. a \in Parts(c) <=> mine
        BY PartOfWhole
    <1>7. \A p \in Parts(c) : f[p] \in Nat /\ g[p] = IF p = a /\ adds THEN f[p] + 1 ELSE f[p]
        BY <1>4, <1>5 DEF Plus
    <1> HIDE DEF g, a, adds, mine
    <1>8. CASE mine /\ adds
        BY <1>3, <1>4, <1>6, <1>7, <1>8, SumPlusOne DEF g, adds, mine
    <1>9. CASE ~(mine /\ adds)
        <2>1. \A p \in Parts(c) : f[p] \in Nat /\ g[p] = f[p]
            BY <1>6, <1>7, <1>9
        <2>2. SumOver(g, Parts(c)) = SumOver(f, Parts(c))
            BY <1>4, <2>1, SumSame
        <2> QED
            BY <1>3, <1>9, <2>2 DEF g, adds, mine
    <1> QED
        BY <1>8, <1>9

\* Only the warden has no separate step for the part.
LEMMA PartStepBounds ==
    ASSUME kind \in Kinds
    PROVE  PartStep \in 2..4 /\ (kind # "warden" <=> PartStep <= Len(AddOrder(kind)))
    <1>1. CASE kind = "token"
        <2>1. PartStep = 4 /\ Len(AddOrder(kind)) = 4
            BY <1>1, LevelFacts
        <2>2. PartStep \in 2..4 /\ PartStep <= Len(AddOrder(kind))
            BY <2>1
        <2> QED
            BY <1>1, <2>2
    <1>2. CASE kind = "compress"
        <2>1. PartStep = 2 /\ Len(AddOrder(kind)) = 2
            BY <1>2, LevelFacts
        <2>2. PartStep \in 2..4 /\ PartStep <= Len(AddOrder(kind))
            BY <2>1
        <2> QED
            BY <1>2, <2>2
    <1>3. CASE kind = "warden"
        <2>1. PartStep = 3 /\ Len(AddOrder(kind)) = 2
            BY <1>3, LevelFacts
        <2>2. PartStep \in 2..4 /\ ~(PartStep <= Len(AddOrder(kind)))
            BY <2>1
        <2> QED
            BY <1>3, <2>2
    <1> QED
        BY <1>1, <1>2, <1>3 DEF Kinds

\* A request adds to a whole before, or together with, the part.
LEMMA LiveAddStep ==
    ASSUME TypeOK, LiveCovered, NEW r \in Recorders, NEW u \in Uses[kind],
           NEW step \in 1..Len(AddOrder(kind)), AddStep(r, u, step),
           \/ rec[r] = Idle /\ step = 1
           \/ rec[r].use = u /\ rec[r].step = step
    PROVE  LiveCovered'
    <1> DEFINE target == {Cell(l, u) : l \in AddOrder(kind)[step]}
    <1>1. /\ kind \in Kinds /\ kind' = kind /\ live \in [Cells(kind) -> Nat]
          /\ live' = Plus(live, target) /\ rec \in [Recorders -> {rec[q] : q \in Recorders}]
        BY DEF TypeOK, AddStep
    <1>2. rec' = [rec EXCEPT ![r] = IF step = Len(AddOrder(kind)) THEN Idle
                                     ELSE [use |-> u, step |-> step + 1]]
        BY DEF AddStep
    <1>3. Len(AddOrder(kind)) \in Nat /\ step \in Nat
        BY <1>1, OrderLengths
    <1>4. PartStep \in 2..4 /\ (kind # "warden" <=> PartStep <= Len(AddOrder(kind)))
        BY <1>1, PartStepBounds
    <1>5. rec[r].step = PartStep => step = PartStep /\ rec[r].use = u
        BY <1>4 DEF Idle
    <1>6. step = PartStep => rec[r].step = PartStep /\ rec[r].use = u
        BY <1>4
    <1>7. /\ rec'[r].step = PartStep <=> step = PartStep - 1 /\ kind # "warden"
          /\ rec'[r].step = PartStep => rec'[r].use = u
          /\ \A q \in Recorders \ {r} : rec'[q] = rec[q]
        <2>1. \A q \in Recorders \ {r} : rec'[q] = rec[q]
            BY <1>1, <1>2
        <2>2. CASE step = Len(AddOrder(kind))
            <3>1. rec'[r] = Idle
                BY <1>1, <1>2, <2>2
            <3> QED
                BY <1>3, <1>4, <2>1, <2>2, <3>1 DEF Idle
        <2>3. CASE step # Len(AddOrder(kind))
            <3>1. rec'[r] = [use |-> u, step |-> step + 1]
                BY <1>1, <1>2, <2>3
            <3>2. rec'[r].step = step + 1 /\ rec'[r].use = u
                BY <3>1
            <3>3. kind = "warden" => PartStep = 3 /\ Len(AddOrder(kind)) = 2
                BY <1>1, LevelFacts
            <3> QED
                BY <1>3, <1>4, <2>1, <2>3, <3>2, <3>3
        <2> QED
            BY <2>2, <2>3
    <1>8. Whole' = Whole /\ PartStep' = PartStep /\ Wholes' = Wholes
        BY <1>1 DEF Whole, PartStep, Wholes
    <1> SUFFICES ASSUME NEW c \in Wholes
                 PROVE  SumOver(live', Parts(c)) + Cardinality(Between(c)') <= live'[c]
        <2>1. \A c \in Wholes : Parts(c)' = Parts(c)
            BY <1>1 DEF Parts
        <2> QED
            BY <1>8, <2>1 DEF LiveCovered
    <1> DEFINE mine == c = Cell(Whole, u)
    <1>9. IsFiniteSet(Between(c)) /\ Cardinality(Between(c)) \in Nat
        BY BetweenFinite
    <1>10. Cardinality(Between(c)') =
              IF mine /\ step = PartStep THEN Cardinality(Between(c)) - 1
              ELSE IF mine /\ step = PartStep - 1 /\ kind # "warden"
                   THEN Cardinality(Between(c)) + 1
                   ELSE Cardinality(Between(c))
        <2>1. r \in Between(c) <=> mine /\ step = PartStep
            BY <1>5, <1>6 DEF Between
        <2>2. r \in Between(c)' <=> mine /\ step = PartStep - 1 /\ kind # "warden"
            BY <1>7, <1>8 DEF Between, Cell
        <2>3. \A q \in Recorders \ {r} : q \in Between(c)' <=> q \in Between(c)
            BY <1>7, <1>8 DEF Between, Cell
        <2>4. Between(c) \subseteq Recorders /\ Between(c)' \subseteq Recorders
            BY DEF Between
        <2> HIDE DEF mine
        <2>5. CASE mine /\ step = PartStep
            <3>1. Between(c)' = Between(c) \ {r} /\ r \in Between(c)
                BY <1>4, <2>1, <2>2, <2>3, <2>4, <2>5
            <3> QED
                BY <1>9, <2>5, <3>1, FS_RemoveElement
        <2>6. CASE mine /\ step = PartStep - 1 /\ kind # "warden"
            <3>1. Between(c)' = Between(c) \cup {r} /\ r \notin Between(c)
                BY <1>4, <2>1, <2>2, <2>3, <2>4, <2>6
            <3>2. Cardinality(Between(c)') = Cardinality(Between(c)) + 1
                BY <1>9, <3>1, FS_AddElement
            <3>3. step # PartStep
                BY <1>3, <1>4, <2>6
            <3> QED
                BY <2>6, <3>2, <3>3
        <2>7. CASE /\ ~(mine /\ step = PartStep)
                   /\ ~(mine /\ step = PartStep - 1 /\ kind # "warden")
            <3>1. r \notin Between(c) /\ r \notin Between(c)'
                BY <2>1, <2>2, <2>7
            <3>2. \A q \in Recorders : q \in Between(c)' <=> q \in Between(c)
                BY <2>3, <3>1
            <3>3. Between(c)' \subseteq Between(c) /\ Between(c) \subseteq Between(c)'
                BY <2>4, <3>2
            <3>4. Between(c)' = Between(c)
                BY <3>3
            <3> QED
                BY <2>7, <3>4
        <2> QED
            BY <2>5, <2>6, <2>7
    <1>11. /\ live'[c] = IF mine /\ step = PartStep - 1 THEN live[c] + 1 ELSE live[c]
           /\ SumOver(live', Parts(c)) =
                 IF mine /\ step = (IF kind = "warden" THEN PartStep - 1 ELSE PartStep)
                 THEN SumOver(live, Parts(c)) + 1 ELSE SumOver(live, Parts(c))
        BY <1>1, PlusParts
    <1>12. SumOver(live, Parts(c)) + Cardinality(Between(c)) <= live[c]
        BY DEF LiveCovered
    <1>13. SumOver(live, Parts(c)) \in Nat /\ live[c] \in Nat
        BY <1>1, PartsSum DEF Wholes
    <1>14. kind = "warden" => step # PartStep
        BY <1>3, <1>4
    <1> HIDE DEF mine
    <1> QED
        BY <1>3, <1>4, <1>9, <1>10, <1>11, <1>12, <1>13, <1>14

\* The parts are the same as long as the tracker is.
LEMMA SameParts ==
    ASSUME kind' = kind
    PROVE  /\ Wholes' = Wholes /\ Whole' = Whole /\ PartStep' = PartStep /\ Zero' = Zero
           /\ \A c : Parts(c)' = Parts(c)
    BY DEF Wholes, Whole, PartStep, Parts, Zero

\* Between nothing and nothing there is no request.
LEMMA NobodyBetween ==
    ASSUME kind \in Kinds, \A r \in Recorders : rec[r] = Idle, NEW c
    PROVE  Cardinality(Between(c)) = 0
    <1>1. \A r \in Recorders : rec[r].step # PartStep
        BY PartStepBounds DEF Idle
    <1>2. Between(c) = {}
        BY <1>1 DEF Between
    <1> QED
        BY <1>2, FS_EmptySet

\* What no step but the reading of the snapshot disturbs.
LEMMA SnapFrame ==
    ASSUME UNCHANGED <<kind, snap>>, ReadingInOrder, CopyCovered
    PROVE  ReadingInOrder' /\ CopyCovered'
    <1>1. ReadingInOrder'
        BY DEF ReadingInOrder
    <1>2. CopyCovered'
        BY SameParts DEF CopyCovered
    <1> QED
        BY <1>1, <1>2

\* A snapshot that has not begun.
LEMMA FreshCover ==
    ASSUME kind \in Kinds, snap = NoSnapshot
    PROVE  ReadingInOrder /\ CopyCovered
    <1>1. snap.level = 0 /\ snap.todo = {} /\ snap.pools = {} /\ snap.vals = Zero
        BY DEF NoSnapshot
    <1>2. Len(ReadOrder(kind)) # 0
        BY OrderLengths
    <1>3. \A c \in Cells(kind) : snap.vals[c] = 0
        BY <1>1 DEF Zero
    <1> QED
        BY <1>1, <1>2, <1>3 DEF ReadingInOrder, CopyCovered

\* Going on to the next level.  A whole that has not been listed had counted
\* nothing, and so have its parts.
LEMMA CoverNextLevel ==
    ASSUME TypeOK, LocalInv, CoverInv, NextLevel
    PROVE  ReadingInOrder' /\ CopyCovered'
    <1> DEFINE n == snap.level + 1
    <1> DEFINE level == ReadOrder(kind)[n]
    <1>1. /\ n \in 1..Len(ReadOrder(kind)) /\ snap.todo = {} /\ snap.level \in Nat
          /\ Len(ReadOrder(kind)) \in Nat /\ kind \in Kinds
          /\ snap.vals \in [Cells(kind) -> Nat] /\ live \in [Cells(kind) -> Nat]
        BY OrderLengths DEF TypeOK, NextLevel
    <1>2. /\ snap'.level = n /\ snap'.vals = snap.vals
          /\ snap'.todo = IF level = "pool" THEN snap.pools ELSE Existing(level)
          /\ snap'.pools = IF level = "key" THEN Existing("pool") ELSE snap.pools
          /\ kind' = kind
        BY DEF NextLevel, TypeOK
    <1>3. Below(snap.vals, live)
        BY DEF LocalInv, NextLevel
    <1>4. \A l : \A c \in Cells(kind) : c \notin Existing(l) /\ c[1] = l => live[c] = 0
        BY <1>1 DEF Existing
    <1>5. ASSUME NEW c \in Wholes, live[c] = 0
          PROVE  \A p \in Parts(c) : live[p] = 0 /\ snap.vals[p] = 0
        <2>1. c \in Cells(kind)
            BY DEF Wholes
        <2>2. SumOver(live, Parts(c)) \in Nat /\ Cardinality(Between(c)) \in Nat
            BY <1>1, <2>1, PartsSum, BetweenFinite
        <2>3. SumOver(live, Parts(c)) + Cardinality(Between(c)) <= 0
            BY <1>5 DEF CoverInv, LiveCovered
        <2>4. SumOver(live, Parts(c)) = 0
            BY <2>2, <2>3
        <2>5. /\ IsFiniteSet(Parts(c)) /\ Parts(c) \subseteq Cells(kind)
              /\ \A p \in Parts(c) : live[p] \in Nat
            BY <1>1, <2>1, PartsFacts
        <2>6. \A p \in Parts(c) : live[p] = 0
            BY <2>4, <2>5, SumZero
        <2>7. \A p \in Parts(c) : snap.vals[p] \in Nat /\ snap.vals[p] <= live[p]
            BY <1>1, <1>3, <2>5 DEF Below
        <2> QED
            BY <2>6, <2>7
    <1>6. ReadingInOrder'
        <2>1. \A c \in snap'.todo : n > 0 /\ c[1] = ReadOrder(kind)[n]
            BY <1>1, <1>2 DEF CoverInv, ReadingInOrder, Existing
        <2>2. \A c \in snap'.pools : c[1] = "pool"
            BY <1>2 DEF CoverInv, ReadingInOrder, Existing
        <2>3. \A c \in Cells(kind) : c[1] = "key" /\ n < 3 => snap.vals[c] = 0
            BY <1>1 DEF CoverInv, ReadingInOrder
        <2> HIDE DEF n
        <2> QED
            BY <1>2, <2>1, <2>2, <2>3 DEF ReadingInOrder
    <1>7. ASSUME NEW c \in Wholes, Whole = "pool", n = 3, c \notin snap'.pools, NEW p \in Parts(c)
          PROVE  snap.vals[p] = 0 /\ p \notin snap'.todo
        <2>1. kind = "token" /\ level = "key" /\ c \in Cells(kind) /\ c[1] = "pool"
            BY <1>1, <1>7, LevelFacts DEF Kinds, Wholes
        <2>2. c \notin Existing("pool") /\ snap'.todo = Existing("key")
            BY <1>2, <1>7, <2>1
        <2>3. live[p] = 0 /\ snap.vals[p] = 0
            BY <1>4, <1>5, <2>1, <2>2
        <2>4. p \notin Existing("key")
            BY <2>3 DEF Existing
        <2> QED
            BY <2>2, <2>3, <2>4
    <1>8. ASSUME NEW c \in Wholes, n = Len(ReadOrder(kind)), c \notin snap'.todo
          PROVE  SumOver(snap.vals, Parts(c)) <= snap.vals[c]
        <2>1. c \in Cells(kind) /\ c[1] = level /\ snap.vals[c] \in Nat
            BY <1>1, <1>8 DEF Wholes, Whole
        <2>2. IsFiniteSet(Parts(c)) /\ \A p \in Parts(c) : snap.vals[p] \in Nat
            BY <1>1, <2>1, PartsFacts
        <2>3. \A p \in Parts(c) : snap.vals[p] = 0
            <3>1. CASE level = "pool"
                <4>1. Whole = "pool" /\ kind = "token" /\ snap.level = 3
                    <5>1. Whole = "pool"
                        BY <1>8, <3>1 DEF Whole
                    <5>2. kind = "token"
                        BY <1>1, <5>1, LevelFacts DEF Kinds
                    <5>3. Len(ReadOrder(kind)) = 4
                        BY <1>1, <5>2, LevelFacts
                    <5>4. snap.level + 1 = 4
                        BY <1>8, <5>3
                    <5> QED
                        BY <1>1, <5>1, <5>2, <5>4
                <4>2. c \notin snap.pools
                    BY <1>2, <1>8, <3>1
                <4> QED
                    BY <4>1, <4>2 DEF CoverInv, CopyCovered
            <3>2. CASE level # "pool"
                BY <1>2, <1>4, <1>5, <1>8, <2>1, <3>2
            <3> QED
                BY <3>1, <3>2
        <2>4. SumOver(snap.vals, Parts(c)) = 0
            BY <2>2, <2>3, SumZero
        <2> QED
            BY <2>1, <2>4
    <1> HIDE DEF n
    <1>9. CopyCovered'
        BY <1>2, <1>7, <1>8, SameParts DEF CopyCovered
    <1> QED
        BY <1>6, <1>9

\* Reading one counter.  A whole is read when nothing is read of its parts any
\* more, and what was read of them memory still covers.
LEMMA CoverReadCell ==
    ASSUME TypeOK, LocalInv, CoverInv, NEW d \in snap.todo, ReadCell(d)
    PROVE  ReadingInOrder' /\ CopyCovered'
    <1>1. /\ snap'.level = snap.level /\ snap'.todo = snap.todo \ {d}
          /\ snap'.pools = snap.pools /\ snap'.vals = [snap.vals EXCEPT ![d] = live[d]]
          /\ kind' = kind
        BY DEF ReadCell, TypeOK
    <1>2. /\ kind \in Kinds /\ snap.vals \in [Cells(kind) -> Nat]
          /\ live \in [Cells(kind) -> Nat] /\ d \in Cells(kind)
          /\ snap.level \in Nat /\ Len(ReadOrder(kind)) \in Nat
        BY OrderLengths DEF TypeOK
    <1>3. /\ d[1] = ReadOrder(kind)[snap.level] /\ snap.level > 0
          /\ \A c \in Cells(kind) : c # d => snap'.vals[c] = snap.vals[c]
          /\ snap'.vals[d] = live[d]
        BY <1>1, <1>2 DEF CoverInv, ReadingInOrder
    <1>4. ReadingInOrder'
        <2>1. d[1] = "key" => snap.level = 3
            <3> SUFFICES ASSUME d[1] = "key" PROVE snap.level = 3
                OBVIOUS
            <3>1. snap.level \in 1..Len(ReadOrder(kind)) /\ ReadOrder(kind)[snap.level] = "key"
                BY <1>2, <1>3 DEF TypeOK
            <3>2. CASE kind = "token"
                BY <3>1, <3>2 DEF ReadOrder, TokenReads
            <3>3. CASE kind = "compress"
                BY <3>1, <3>3 DEF ReadOrder, CompressReads
            <3>4. CASE kind = "warden"
                BY <3>1, <3>4 DEF ReadOrder, WardenReads
            <3> QED
                BY <1>2, <3>2, <3>3, <3>4 DEF Kinds
        <2>2. \A c \in Cells(kind) : c[1] = "key" /\ snap.level < 3 => snap'.vals[c] = 0
            BY <1>3, <2>1 DEF CoverInv, ReadingInOrder
        <2> QED
            BY <1>1, <2>2 DEF CoverInv, ReadingInOrder
    <1>5. ASSUME NEW c \in Wholes, Whole = "pool", snap.level = 3, c \notin snap.pools,
                 NEW p \in Parts(c)
          PROVE  snap'.vals[p] = 0 /\ p \notin snap'.todo
        <2>1. snap.vals[p] = 0 /\ p \notin snap.todo /\ p \in Cells(kind)
            BY <1>2, <1>5, PartsFacts DEF CoverInv, CopyCovered, Wholes
        <2> QED
            BY <1>1, <1>3, <2>1
    <1>6. ASSUME NEW c \in Wholes, snap.level = Len(ReadOrder(kind)), c \notin snap'.todo
          PROVE  SumOver(snap'.vals, Parts(c)) <= snap'.vals[c]
        <2>1. c \in Cells(kind) /\ d[1] = Whole
            BY <1>3, <1>6 DEF Wholes, Whole
        <2>2. /\ IsFiniteSet(Parts(c))
              /\ \A p \in Parts(c) : snap.vals[p] \in Nat /\ snap'.vals[p] = snap.vals[p]
            BY <1>2, <1>3, <2>1, PartsFacts
        <2>3. SumOver(snap'.vals, Parts(c)) = SumOver(snap.vals, Parts(c))
            BY <2>2, SumSame
        <2>4. CASE c = d
            <3>1. SumOver(snap.vals, Parts(c)) <= SumOver(live, Parts(c))
                BY <1>2, <2>1, PartsSumBelow DEF LocalInv, ReadCell
            <3>2. SumOver(live, Parts(c)) + Cardinality(Between(c)) <= live[c]
                BY DEF CoverInv, LiveCovered
            <3>3. /\ SumOver(snap.vals, Parts(c)) \in Nat /\ SumOver(live, Parts(c)) \in Nat
                  /\ Cardinality(Between(c)) \in Nat /\ live[c] \in Nat
                BY <1>2, <2>1, PartsSum, BetweenFinite
            <3>4. snap'.vals[c] = live[c]
                BY <1>3, <2>4
            <3> QED
                BY <2>3, <3>1, <3>2, <3>3, <3>4
        <2>5. CASE c # d
            <3>1. c \notin snap.todo
                BY <1>1, <1>6, <2>5
            <3>2. SumOver(snap.vals, Parts(c)) <= snap.vals[c]
                BY <1>6, <3>1 DEF CoverInv, CopyCovered
            <3> QED
                BY <1>3, <2>1, <2>3, <2>5, <3>2
        <2> QED
            BY <2>4, <2>5
    <1>7. CopyCovered'
        BY <1>1, <1>5, <1>6, SameParts DEF CopyCovered
    <1> QED
        BY <1>4, <1>7

\* Every step keeps the wholes ahead of their parts.
LEMMA CoverStep ==
    ASSUME TypeOK, LocalInv, CoverInv, [Next]_vars
    PROVE  CoverInv'
    <1>1. /\ kind \in Kinds /\ kind' = kind
          /\ disk \in [Cells(kind) -> Nat] /\ live \in [Cells(kind) -> Nat]
          /\ snap.vals \in [Cells(kind) -> Nat]
        BY DEF TypeOK, Next, vars, Boot, ContinueRecord, StartRecord, AddStep, Flushing,
               BeginFlush, NextLevel, ReadCell, Save, SaveLost, Close, CloseStore, Die
    <1>2. ASSUME disk' \in {disk, Zero}
          PROVE  DiskCovered'
        <2>1. \A c \in Wholes : SumOver(disk, Parts(c)) <= disk[c]
            BY DEF CoverInv, DiskCovered
        <2>2. \A c \in Wholes : SumOver(Zero, Parts(c)) <= Zero[c]
            BY <1>1, ZeroCovers DEF Wholes
        <2> QED
            BY <1>1, <1>2, <2>1, <2>2, SameParts DEF DiskCovered
    <1>3. ASSUME live' \in {disk, Zero}, rec' = rec, \A r \in Recorders : rec[r] = Idle
          PROVE  LiveCovered'
        <2>1. ASSUME NEW c \in Wholes
              PROVE  SumOver(live', Parts(c)) + Cardinality(Between(c)') <= live'[c]
            <3>1. Cardinality(Between(c)) = 0 /\ Between(c)' = Between(c)
                BY <1>1, <1>3, NobodyBetween, SameParts DEF Between, Cell
            <3>2. c \in Cells(kind)
                BY DEF Wholes
            <3>3. /\ SumOver(disk, Parts(c)) <= disk[c] /\ SumOver(disk, Parts(c)) \in Nat
                  /\ disk[c] \in Nat
                BY <1>1, <3>2, PartsSum DEF CoverInv, DiskCovered
            <3>4. SumOver(Zero, Parts(c)) = 0 /\ Zero[c] = 0
                BY <1>1, <3>2, ZeroCovers
            <3>5. CASE live' = disk
                BY <3>1, <3>3, <3>5
            <3>6. CASE live' = Zero
                BY <3>1, <3>4, <3>6
            <3> QED
                BY <1>3, <3>5, <3>6
        <2> QED
            BY <1>1, <2>1, SameParts DEF LiveCovered
    <1>4. ASSUME UNCHANGED <<live, rec>>
          PROVE  LiveCovered'
        <2>1. \A c \in Wholes : Between(c)' = Between(c)
            BY <1>1, <1>4, SameParts DEF Between, Cell
        <2> QED
            BY <1>1, <1>4, <2>1, SameParts DEF CoverInv, LiveCovered
    <1>5. ASSUME UNCHANGED <<up, rec>>
          PROVE  (~up => \A r \in Recorders : rec[r] = Idle)'
        BY <1>5 DEF CoverInv, Idle
    <1>6. ASSUME snap' = snap
          PROVE  ReadingInOrder' /\ CopyCovered'
        BY <1>1, <1>6, SnapFrame DEF CoverInv
    <1>7. ASSUME snap' = NoSnapshot
          PROVE  ReadingInOrder' /\ CopyCovered'
        <2>1. (kind \in Kinds)' /\ (snap = NoSnapshot)'
            BY <1>1, <1>7, SameParts DEF NoSnapshot
        <2> QED
            BY <2>1, FreshCover, PTL
    <1>8. CASE UNCHANGED vars \/ Close \/ CloseStore
        <2>1. UNCHANGED <<up, disk, live, rec, snap>>
            BY <1>8 DEF vars, Close, CloseStore
        <2> QED
            BY <1>2, <1>4, <1>5, <1>6, <2>1 DEF CoverInv
    <1>9. ASSUME NEW readable \in BOOLEAN, Boot(readable)
          PROVE  CoverInv'
        <2>1. /\ up' = TRUE /\ ~up /\ UNCHANGED <<rec, snap>>
              /\ disk' \in {disk, Zero} /\ live' = Loaded(readable)
            BY <1>9 DEF Boot, Opened
        <2>2. Loaded(readable) \in {disk, Zero}
            BY <1>1 DEF Loaded, Restored
        <2>3. \A r \in Recorders : rec[r] = Idle
            BY <2>1 DEF CoverInv
        <2> QED
            BY <1>2, <1>3, <1>6, <2>1, <2>2, <2>3 DEF CoverInv
    <1>10. ASSUME NEW r \in Recorders, NEW u \in Uses[kind],
                  NEW step \in 1..Len(AddOrder(kind)), AddStep(r, u, step),
                  \/ rec[r] = Idle /\ step = 1
                  \/ rec[r].use = u /\ rec[r].step = step,
                  up
           PROVE  CoverInv'
        <2>1. LiveCovered'
            BY <1>10, LiveAddStep DEF CoverInv
        <2>2. up' = up /\ disk' = disk /\ snap' = snap
            BY <1>10 DEF AddStep
        <2> QED
            BY <1>2, <1>6, <1>10, <2>1, <2>2 DEF CoverInv
    <1>11. ASSUME NEW r \in Recorders, ContinueRecord(r)
           PROVE  CoverInv'
        <2>1. rec[r] \in [use : Uses[kind], step : 2..Len(AddOrder(kind))]
            BY <1>11 DEF TypeOK, ContinueRecord
        <2>2. Len(AddOrder(kind)) \in Nat
            BY <1>1, OrderLengths
        <2>3. rec[r].use \in Uses[kind] /\ rec[r].step \in 1..Len(AddOrder(kind))
            BY <2>1, <2>2
        <2>4. AddStep(r, rec[r].use, rec[r].step) /\ up
            BY <1>11 DEF ContinueRecord, CoverInv, TypeOK
        <2> QED
            BY <1>10, <2>3, <2>4
    <1>12. ASSUME NEW r \in Recorders, NEW u \in Uses[kind], StartRecord(r, u)
           PROVE  CoverInv'
        <2>1. 1 \in 1..Len(AddOrder(kind))
            BY <1>1, OrderLengths
        <2> QED
            BY <1>10, <1>12, <2>1 DEF StartRecord
    <1>13. ASSUME NEW last \in BOOLEAN, BeginFlush(last)
           PROVE  CoverInv'
        <2>1. UNCHANGED <<up, disk, live, rec>> /\ snap' = NoSnapshot
            BY <1>13 DEF BeginFlush
        <2> QED
            BY <1>2, <1>4, <1>5, <1>7, <2>1 DEF CoverInv
    <1>14. CASE NextLevel
        <2>1. UNCHANGED <<up, disk, live, rec>>
            BY <1>14 DEF NextLevel
        <2>2. ReadingInOrder' /\ CopyCovered'
            BY <1>14, CoverNextLevel
        <2> QED
            BY <1>2, <1>4, <1>5, <2>1, <2>2 DEF CoverInv
    <1>15. ASSUME NEW c \in snap.todo, ReadCell(c)
           PROVE  CoverInv'
        <2>1. UNCHANGED <<up, disk, live, rec>>
            BY <1>15 DEF ReadCell
        <2>2. ReadingInOrder' /\ CopyCovered'
            BY <1>15, CoverReadCell
        <2> QED
            BY <1>2, <1>4, <1>5, <2>1, <2>2 DEF CoverInv
    <1>16. CASE Save
        <2>1. /\ UNCHANGED <<up, live, rec>> /\ snap' = NoSnapshot /\ disk' = snap.vals
              /\ snap.todo = {} /\ snap.level = Len(ReadOrder(kind))
            BY <1>16 DEF Save, CopyDone
        <2>2. \A c \in Wholes : SumOver(snap.vals, Parts(c)) <= snap.vals[c]
            BY <2>1 DEF CoverInv, CopyCovered
        <2>3. DiskCovered'
            BY <1>1, <2>1, <2>2, SameParts DEF DiskCovered
        <2> QED
            BY <1>4, <1>5, <1>7, <2>1, <2>3 DEF CoverInv
    <1>17. CASE SaveLost
        <2>1. UNCHANGED <<up, disk, live, rec>> /\ snap' = NoSnapshot
            BY <1>17 DEF SaveLost
        <2> QED
            BY <1>2, <1>4, <1>5, <1>7, <2>1 DEF CoverInv
    <1>18. CASE Die
        <2>1. /\ up' = FALSE /\ disk' = disk /\ live' = Zero /\ snap' = NoSnapshot
              /\ rec' = [r \in Recorders |-> Idle]
            BY <1>18 DEF Die
        <2>2. (\A r \in Recorders : rec[r] = Idle)'
            BY <2>1 DEF Idle
        <2>3. ASSUME NEW c \in Wholes
              PROVE  SumOver(live', Parts(c)) + Cardinality(Between(c)') <= live'[c]
            <3>1. \A r \in Recorders : rec'[r].step # PartStep
                BY <1>1, <2>1, PartStepBounds DEF Idle
            <3>2. Between(c)' = {}
                BY <1>1, <3>1, SameParts DEF Between
            <3>3. SumOver(Zero, Parts(c)) = 0 /\ Zero[c] = 0
                BY <1>1, ZeroCovers DEF Wholes
            <3> QED
                BY <2>1, <3>2, <3>3, FS_EmptySet
        <2>4. LiveCovered'
            BY <1>1, <2>3, SameParts DEF LiveCovered
        <2> QED
            BY <1>2, <1>7, <2>1, <2>2, <2>4 DEF CoverInv
    <1> QED
        BY <1>8, <1>9, <1>11, <1>12, <1>13, <1>14, <1>15, <1>16, <1>17, <1>18
        DEF Next, Flushing

\* No report breaks a total down into more than the total: the keys of a pool,
\* the models of all compressions, the types of all findings, in memory and in
\* the file, whatever was recording, copied or crashed (TokenRegistry, compress
\* Stats and warden Stats: Record against Snapshot and Restore).
THEOREM PartsAlwaysCovered == Spec => []PartsCovered
    <1>1. Init => CoverInv
        <2> SUFFICES ASSUME Init PROVE CoverInv
            OBVIOUS
        <2>1. /\ kind \in Kinds /\ live = Zero /\ disk = Zero /\ snap = NoSnapshot
              /\ \A r \in Recorders : rec[r] = Idle
            BY DEF Init
        <2>2. ASSUME NEW c \in Wholes
              PROVE  /\ SumOver(live, Parts(c)) + Cardinality(Between(c)) <= live[c]
                     /\ SumOver(disk, Parts(c)) <= disk[c]
            <3>1. Cardinality(Between(c)) = 0
                BY <2>1, NobodyBetween
            <3>2. SumOver(Zero, Parts(c)) = 0 /\ Zero[c] = 0
                BY <2>1, ZeroCovers DEF Wholes
            <3> QED
                BY <2>1, <3>1, <3>2
        <2>3. ReadingInOrder /\ CopyCovered
            BY <2>1, FreshCover
        <2> QED
            BY <2>1, <2>2, <2>3 DEF CoverInv, LiveCovered, DiskCovered
    <1>2. TypeOK /\ LocalInv /\ CoverInv /\ [Next]_vars => CoverInv'
        BY CoverStep
    <1>3. TypeOK /\ CoverInv => PartsCovered
        <2> SUFFICES ASSUME TypeOK, CoverInv, NEW c \in Cells(kind)
                     PROVE  /\ SumOver(disk, Parts(c)) <= disk[c]
                            /\ SumOver(live, Parts(c)) <= live[c]
            BY SumIsSumOver DEF PartsCovered
        <2>1. /\ kind \in Kinds /\ disk \in [Cells(kind) -> Nat] /\ live \in [Cells(kind) -> Nat]
              /\ disk[c] \in Nat /\ live[c] \in Nat
            BY DEF TypeOK
        <2>2. SumOver(disk, Parts(c)) \in Nat /\ SumOver(live, Parts(c)) \in Nat
            BY <2>1, PartsSum
        <2>3. CASE c \in Wholes
            <3>1. /\ SumOver(disk, Parts(c)) <= disk[c]
                  /\ SumOver(live, Parts(c)) + Cardinality(Between(c)) <= live[c]
                BY <2>3 DEF CoverInv, DiskCovered, LiveCovered
            <3>2. Cardinality(Between(c)) \in Nat
                BY BetweenFinite
            <3> QED
                BY <2>1, <2>2, <3>1, <3>2
        <2>4. CASE c \notin Wholes
            <3>1. Parts(c) = {}
                BY <2>1, <2>4, PartsFacts DEF Wholes
            <3>2. SumOver(disk, Parts(c)) = 0 /\ SumOver(live, Parts(c)) = 0
                BY <3>1, SumZero, FS_EmptySet
            <3> QED
                BY <2>1, <3>2
        <2> QED
            BY <2>3, <2>4
    <1> QED
        BY <1>1, <1>2, <1>3, LocalInvariant, PTL DEF Spec
=============================================================================
