--------------------------- MODULE ExecutorProofs ---------------------------
(***************************************************************************)
(* The executor counts every request and every use of a key exactly once,  *)
(* for every number of requests, targets, keys and retries, over any pools *)
(* that keep the contract of PoolContract. What a key is used for is also  *)
(* counted for credstone, in the second part: what credstone has counted   *)
(* and what is still pending always make up what was recorded, for any     *)
(* number of attempts, reloads, lost calls and lost answers.               *)
(***************************************************************************)
EXTENDS ExecutorObserved, CredSource, TLAPS, FiniteSetTheorems

One(holds) == IF holds THEN 1 ELSE 0

\* What a request in the state c holds.
Uses(c, k) == c.pc \in {"fetching", "calling", "releasing"} /\ c.key = k
At(c, t) == c.pc = "calling" /\ c.target = t
WellFormed(c) ==
    /\ c.pc \in {"fetching", "calling", "releasing"} =>
            c.key \in Keys /\ c.target \in Targets
    /\ c.pc \in {"scanning", "fetching", "calling", "releasing"} =>
            c.tries < MaxRetries

-----------------------------------------------------------------------------
(* Counting.                                                               *)

\* Two sets that differ in the membership of one element only.
LEMMA OneElement ==
    ASSUME NEW A, NEW B, IsFiniteSet(A), NEW x, A \ {x} = B \ {x}
    PROVE  /\ Cardinality(A) \in Nat /\ Cardinality(B) \in Nat
           /\ Cardinality(B) =
                Cardinality(A) + One(x \in B) - One(x \in A)
<1> DEFINE C == A \ {x}
<1>1. IsFiniteSet(C)
  BY FS_RemoveElement
<1>2. IsFiniteSet(C \cup {x}) /\ Cardinality(C \cup {x}) = Cardinality(C) + 1
  BY <1>1, FS_AddElement
<1>3. Cardinality(C) \in Nat
  BY <1>1, FS_CardinalityType
<1>4. /\ A = IF x \in A THEN C \cup {x} ELSE C
      /\ B = IF x \in B THEN C \cup {x} ELSE C
  OBVIOUS
<1> HIDE DEF C
<1>5. ASSUME NEW S, S = IF x \in S THEN C \cup {x} ELSE C
      PROVE  Cardinality(S) = Cardinality(C) + One(x \in S)
  <2>1. CASE x \in S
    <3>1. Cardinality(S) = Cardinality(C \cup {x})
      BY <1>5, <2>1
    <3>2. One(x \in S) = 1
      BY <2>1 DEF One
    <3> QED
      BY <1>2, <1>3, <3>1, <3>2
  <2>2. CASE x \notin S
    <3>1. Cardinality(S) = Cardinality(C)
      BY <1>5, <2>2
    <3>2. One(x \in S) = 0
      BY <2>2 DEF One
    <3> QED
      BY <1>3, <3>1, <3>2
  <2> QED
    BY <2>1, <2>2
<1>6. One(x \in A) \in {0, 1} /\ One(x \in B) \in {0, 1}
  BY DEF One
<1>7. /\ Cardinality(A) = Cardinality(C) + One(x \in A)
      /\ Cardinality(B) = Cardinality(C) + One(x \in B)
  BY <1>4, <1>5
<1> QED
  BY <1>3, <1>6, <1>7

\* A step of one request changes the counts by what that request holds.
LEMMA RequestMoves ==
    ASSUME NEW r \in Requests, NEW c, call \in [Requests -> Calls],
           call' = [call EXCEPT ![r] = c]
    PROVE  /\ \A k : /\ Cardinality(Using(k)) \in Nat
                     /\ Cardinality(Using(k)') \in Nat
                     /\ Cardinality(Using(k)') =
                            Cardinality(Using(k)) + One(Uses(c, k))
                                - One(Uses(call[r], k))
           /\ \A t : /\ Cardinality(Calling(t)) \in Nat
                     /\ Cardinality(Calling(t)') \in Nat
                     /\ Cardinality(Calling(t)') =
                            Cardinality(Calling(t)) + One(At(c, t))
                                - One(At(call[r], t))
<1>1. call'[r] = c /\ \A x \in Requests \ {r} : call'[x] = call[x]
  OBVIOUS
<1>2. IsFiniteSet(Requests)
  BY ExecutorAssumption
<1>3. ASSUME NEW k
      PROVE  /\ Cardinality(Using(k)) \in Nat
             /\ Cardinality(Using(k)') \in Nat
             /\ Cardinality(Using(k)') =
                    Cardinality(Using(k)) + One(Uses(c, k)) - One(Uses(call[r], k))
  <2>1. IsFiniteSet(Using(k))
    BY <1>2, FS_Subset DEF Using
  <2>2. Using(k) \ {r} = Using(k)' \ {r}
    BY <1>1 DEF Using
  <2>3. (r \in Using(k) <=> Uses(call[r], k)) /\ (r \in Using(k)' <=> Uses(c, k))
    BY <1>1 DEF Using, Uses
  <2> QED
    BY <2>1, <2>2, <2>3, OneElement DEF One
<1>4. ASSUME NEW t
      PROVE  /\ Cardinality(Calling(t)) \in Nat
             /\ Cardinality(Calling(t)') \in Nat
             /\ Cardinality(Calling(t)') =
                    Cardinality(Calling(t)) + One(At(c, t)) - One(At(call[r], t))
  <2>1. IsFiniteSet(Calling(t))
    BY <1>2, FS_Subset DEF Calling
  <2>2. Calling(t) \ {r} = Calling(t)' \ {r}
    BY <1>1 DEF Calling
  <2>3. (r \in Calling(t) <=> At(call[r], t)) /\ (r \in Calling(t)' <=> At(c, t))
    BY <1>1 DEF Calling, At
  <2> QED
    BY <2>1, <2>2, <2>3, OneElement DEF One
<1> QED
  BY <1>3, <1>4

LEMMA CountTypes ==
    /\ \A k : Cardinality(Using(k)) \in Nat
    /\ \A t : Cardinality(Calling(t)) \in Nat
<1>1. IsFiniteSet(Requests)
  BY ExecutorAssumption
<1>2. \A k : IsFiniteSet(Using(k))
  BY <1>1, FS_Subset DEF Using
<1>3. \A t : IsFiniteSet(Calling(t))
  BY <1>1, FS_Subset DEF Calling
<1> QED
  BY <1>2, <1>3, FS_CardinalityType

-----------------------------------------------------------------------------
(* Steps, by who makes them.                                               *)

\* A request goes to the state c, and slots and loads follow.
LEMMA RequestStepInv ==
    ASSUME IInv, NEW r \in Requests, NEW c \in Calls, WellFormed(c),
           call' = [call EXCEPT ![r] = c],
           slots' \in [Keys -> Nat],
           \A k \in Keys :
               slots'[k] = slots[k] + One(Uses(c, k)) - One(Uses(call[r], k)),
           status' \in [Keys -> Pool!Statuses],
           load' \in [Targets -> Int],
           \A t \in Targets :
               load'[t] = load[t] + One(At(c, t)) - One(At(call[r], t)),
           turn' \in 0 .. T - 1,
           bound' \in [Sessions -> Targets \cup {0}],
           route' = route,
           prober' \in Probers, ProbesApart',
           \A k \in Keys : Probing(k)' => Probing(k)
    PROVE  IInv'
<1>1. call \in [Requests -> Calls] /\ call' \in [Requests -> Calls]
  BY DEF IInv, TypeOK
<1>2. LoadExact'
  BY <1>1, RequestMoves DEF LoadExact, IInv, One
<1>3. load' \in [Targets -> Nat]
  BY <1>1, <1>2, RequestMoves DEF LoadExact
<1>4. SlotsCoverUses'
  <2> SUFFICES ASSUME NEW k \in Keys
               PROVE  slots'[k] >= Cardinality(Using(k)') + IF Probing(k)' THEN 1 ELSE 0
    BY DEF SlotsCoverUses
  <2>1. slots[k] \in Nat /\ slots'[k] \in Nat
    BY DEF IInv, TypeOK
  <2>2. slots[k] >= Cardinality(Using(k)) + IF Probing(k) THEN 1 ELSE 0
    BY DEF IInv, SlotsCoverUses
  <2>3. /\ Cardinality(Using(k)) \in Nat /\ Cardinality(Using(k)') \in Nat
        /\ Cardinality(Using(k)') =
              Cardinality(Using(k)) + One(Uses(c, k)) - One(Uses(call[r], k))
    BY <1>1, RequestMoves
  <2> QED
    BY <2>1, <2>2, <2>3 DEF One
<1>5. CallsWellFormed'
  BY <1>1 DEF CallsWellFormed, WellFormed, IInv
<1>6. TypeOK'
  BY <1>1, <1>3 DEF TypeOK, IInv
<1> QED
  BY <1>2, <1>4, <1>5, <1>6 DEF IInv

\* A request moves without taking or giving back anything.
LEMMA QuietStepInv ==
    ASSUME IInv, NEW r \in Requests, NEW c \in Calls, WellFormed(c),
           c.pc \notin {"fetching", "calling", "releasing"},
           call[r].pc \notin {"fetching", "calling", "releasing"},
           call' = [call EXCEPT ![r] = c],
           UNCHANGED <<slots, status, load, bound, route>>,
           turn' \in 0 .. T - 1,
           prober' \in Probers, ProbesApart',
           \A k \in Keys : Probing(k)' => Probing(k)
    PROVE  IInv'
<1>1. \A k : ~Uses(c, k) /\ ~Uses(call[r], k)
  BY DEF Uses
<1>2. \A t : ~At(c, t) /\ ~At(call[r], t)
  BY DEF At
<1>3. slots \in [Keys -> Nat] /\ load \in [Targets -> Nat]
  BY DEF IInv, TypeOK
<1>4. \A k \in Keys :
          slots'[k] = slots[k] + One(Uses(c, k)) - One(Uses(call[r], k))
  BY <1>1, <1>3 DEF One
<1>5. \A t \in Targets :
          load'[t] = load[t] + One(At(c, t)) - One(At(call[r], t))
  BY <1>2, <1>3 DEF One
<1>6. /\ status' \in [Keys -> Pool!Statuses]
      /\ bound' \in [Sessions -> Targets \cup {0}]
      /\ slots' \in [Keys -> Nat]
      /\ load' \in [Targets -> Int]
  BY <1>3 DEF IInv, TypeOK
<1> QED
  BY <1>4, <1>5, <1>6, RequestStepInv

\* The prober moves: what it gains it has had counted.
LEMMA ProberStepInv ==
    ASSUME IInv, UNCHANGED <<route, load, turn, bound, call>>,
           slots' \in [Keys -> Nat],
           \A k \in Keys :
               slots'[k] >= slots[k] + One(Probing(k)') - One(Probing(k)),
           status' \in [Keys -> Pool!Statuses],
           prober' \in Probers, ProbesApart'
    PROVE  IInv'
<1>1. \A k : Using(k)' = Using(k)
  BY DEF Using
<1>2. SlotsCoverUses'
  <2> SUFFICES ASSUME NEW k \in Keys
               PROVE  slots'[k] >= Cardinality(Using(k)') + IF Probing(k)' THEN 1 ELSE 0
    BY DEF SlotsCoverUses
  <2>1. slots[k] \in Nat /\ slots'[k] \in Nat /\ Cardinality(Using(k)) \in Nat
    BY CountTypes DEF IInv, TypeOK
  <2>2. slots[k] >= Cardinality(Using(k)) + IF Probing(k) THEN 1 ELSE 0
    BY DEF IInv, SlotsCoverUses
  <2> QED
    BY <1>1, <2>1, <2>2 DEF One
<1>3. LoadExact' /\ CallsWellFormed'
  BY DEF IInv, LoadExact, Calling, CallsWellFormed
<1>4. TypeOK'
  BY DEF IInv, TypeOK
<1> QED
  BY <1>2, <1>3, <1>4 DEF IInv

-----------------------------------------------------------------------------
(* The orders in which targets are tried.                                  *)

LEMMA RotatedType ==
    ASSUME NEW first \in Nat
    PROVE  Rotated(first) \in Seq(Targets)
<1>1. T \in Nat \ {0}
  BY ExecutorAssumption
<1>2. \A i \in Targets : ((first + i - 1) % T) + 1 \in Targets
  BY <1>1 DEF Targets
<1>3. Rotated(first) \in [1 .. T -> Targets]
  BY <1>2 DEF Rotated, Targets
<1> QED
  BY <1>1, <1>3

LEMMA OrdersType ==
    ASSUME turn \in 0 .. T - 1, NEW order \in Orders
    PROVE  order \in Seq(Targets)
<1>1. T \in Nat \ {0}
  BY ExecutorAssumption
<1>2. NextTurn \in Nat
  BY <1>1 DEF NextTurn
<1>3. CASE order \in LeastLoadedFirst
  <2>1. Cardinality(Targets) = T
    BY <1>1, FS_Interval DEF Targets
  <2>2. order \in [1 .. T -> Targets]
    BY <1>3, <2>1 DEF LeastLoadedFirst, SetToSeqs
  <2> QED
    BY <1>1, <2>2
<1>4. CASE order \in {Rotated(NextTurn), Rotated(0)}
  BY <1>2, <1>4, RotatedType
<1> QED
  BY <1>3, <1>4 DEF Orders

-----------------------------------------------------------------------------
(* The operations of the pools.                                            *)

LEMMA TakeCounts ==
    ASSUME IInv, NEW k \in Keys, Pool!Take(k)
    PROVE  /\ slots' \in [Keys -> Nat] /\ status' \in [Keys -> Pool!Statuses]
           /\ \A j \in Keys : slots'[j] = slots[j] + One(j = k)
BY DEF Pool!Take, IInv, TypeOK, One

LEMMA GiveCounts ==
    ASSUME IInv, NEW k \in Keys, NEW s, Pool!Give(k, s)
    PROVE  /\ slots' \in [Keys -> Nat] /\ status' \in [Keys -> Pool!Statuses]
           /\ \A j \in Keys : slots'[j] = slots[j] - One(j = k)
<1>1. slots \in [Keys -> Nat] /\ status \in [Keys -> Pool!Statuses]
  BY DEF IInv, TypeOK
<1>2. s \in Pool!Statuses
  BY <1>1 DEF Pool!Give, Pool!Statuses
<1>3. slots[k] > 0 /\ slots' = [slots EXCEPT ![k] = slots[k] - 1]
  BY DEF Pool!Give
<1>4. slots[k] - 1 \in Nat
  BY <1>1, <1>3
<1>5. \A j \in Keys : slots'[j] = slots[j] - One(j = k)
  BY <1>1, <1>3 DEF One
<1>6. status' \in [Keys -> Pool!Statuses]
  BY <1>1, <1>2 DEF Pool!Give
<1> QED
  BY <1>1, <1>3, <1>4, <1>5, <1>6

LEMMA LiftCounts ==
    ASSUME IInv, NEW S \in SUBSET Keys, NEW K, Pool!Lift(K, S)
    PROVE  /\ slots' \in [Keys -> Nat] /\ status' \in [Keys -> Pool!Statuses]
           /\ \A j \in Keys : slots'[j] = slots[j] + One(j \in S)
<1>1. slots \in [Keys -> Nat] /\ status \in [Keys -> Pool!Statuses]
  BY DEF IInv, TypeOK
<1>2. "free" \in Pool!Statuses
  BY DEF Pool!Statuses
<1>3. \A j \in Keys : slots'[j] = slots[j] + One(j \in S)
  BY <1>1 DEF Pool!Lift, One
<1>4. slots' \in [Keys -> Nat] /\ status' \in [Keys -> Pool!Statuses]
  BY <1>1, <1>2 DEF Pool!Lift
<1> QED
  BY <1>3, <1>4

-----------------------------------------------------------------------------
(* The steps of a request.                                                 *)

\* Nothing about the prober changes.
LEMMA ProberSame ==
    ASSUME IInv, prober' = prober
    PROVE  /\ prober' \in Probers /\ ProbesApart'
           /\ \A k \in Keys : Probing(k)' => Probing(k)
BY DEF IInv, TypeOK, ProbesApart, Probing

LEMMA NoCallType ==
    /\ NoCall \in Calls /\ WellFormed(NoCall)
    /\ NoCall.pc \notin {"fetching", "calling", "releasing"}
<1>1. 0 \in 0 .. MaxRetries
  BY ExecutorAssumption
<1>2. <<>> \in Seq(Targets)
  OBVIOUS
<1> QED
  BY <1>1, <1>2 DEF NoCall, Calls, Phases, Kinds, WellFormed

LEMMA ArriveInv ==
    ASSUME IInv, NEW r \in Requests, NEW s \in Sessions, Arrive(r, s)
    PROVE  IInv'
<1> DEFINE c == [NoCall EXCEPT !.pc = "selecting", !.session = s]
<1>1. c \in Calls /\ WellFormed(c) /\ c.pc = "selecting"
  <2>1. 0 \in 0 .. MaxRetries /\ <<>> \in Seq(Targets)
    BY ExecutorAssumption
  <2> QED
    BY <2>1 DEF NoCall, Calls, Phases, Kinds, WellFormed
<1>2. call' = [call EXCEPT ![r] = c]
  BY DEF Arrive
<1>3. call[r].pc = "idle" /\ UNCHANGED <<slots, status, load, bound, route, turn, prober>>
  BY DEF Arrive, pools
<1>4. turn' \in 0 .. T - 1
  BY <1>3 DEF IInv, TypeOK
<1> HIDE DEF c
<1> QED
  BY <1>1, <1>2, <1>3, <1>4, ProberSame, QuietStepInv

\* A request that is over.
LEMMA EndsInv ==
    ASSUME IInv, NEW r \in Requests,
           call[r].pc \notin {"fetching", "calling", "releasing"},
           call' = [call EXCEPT ![r] = NoCall],
           UNCHANGED <<slots, status, route, load, turn, bound>>,
           prober' \in Probers, ProbesApart',
           \A k \in Keys : Probing(k)' => Probing(k)
    PROVE  IInv'
<1>1. turn' \in 0 .. T - 1
  BY DEF IInv, TypeOK
<1> QED
  BY <1>1, NoCallType, QuietStepInv

LEMMA ScanInv ==
    ASSUME IInv, NEW r \in Requests, NEW order \in Seq(Targets),
           NEW sticky \in BOOLEAN, Scan(r, order, sticky),
           call[r].pc \in {"selecting", "scanning"}, call[r].tries < MaxRetries,
           UNCHANGED <<slots, status, route, load, bound, prober>>,
           turn' \in 0 .. T - 1
    PROVE  IInv'
<1> DEFINE c == [call[r] EXCEPT !.pc = "scanning", !.left = order,
                                !.sticky = sticky]
<1>1. call \in [Requests -> Calls]
  BY DEF IInv, TypeOK
<1>2. c \in Calls /\ WellFormed(c) /\ c.pc = "scanning"
  BY <1>1 DEF Calls, Phases, WellFormed
<1>3. call' = [call EXCEPT ![r] = c]
  BY <1>1 DEF Scan, Calls
<1> HIDE DEF c
<1> QED
  BY <1>2, <1>3, ProberSame, QuietStepInv

LEMMA ScanAllInv ==
    ASSUME IInv, NEW r \in Requests, ScanAll(r),
           call[r].pc \in {"selecting", "scanning"}, call[r].tries < MaxRetries
    PROVE  IInv'
<1>1. T \in Nat \ {0} /\ turn \in 0 .. T - 1
  BY ExecutorAssumption DEF IInv, TypeOK
<1>2. turn' \in 0 .. T - 1
  BY <1>1 DEF ScanAll, NextTurn
<1>3. PICK order \in Orders : Scan(r, order, FALSE)
  BY DEF ScanAll
<1>4. order \in Seq(Targets)
  BY <1>1, OrdersType
<1> QED
  BY <1>2, <1>3, <1>4, ScanInv DEF ScanAll, pools

LEMMA SelectInv ==
    ASSUME IInv, NEW r \in Requests, Select(r)
    PROVE  IInv'
<1>1. CASE StickyTarget(r) # 0
  <2>1. StickyTarget(r) \in Targets
    BY <1>1 DEF StickyTarget, Sticky, IInv, TypeOK, Calls
  <2>2. <<StickyTarget(r)>> \in Seq(Targets)
    BY <2>1
  <2>3. turn' \in 0 .. T - 1
    BY <1>1 DEF Select, IInv, TypeOK
  <2> QED
    BY <1>1, <2>2, <2>3, ScanInv DEF Select, pools
<1>2. CASE StickyTarget(r) = 0
  BY <1>2, ScanAllInv DEF Select
<1> QED
  BY <1>1, <1>2

LEMMA TakeKeyInv ==
    ASSUME IInv, NEW r \in Requests, TakeKey(r)
    PROVE  IInv'
<1>1. call \in [Requests -> Calls] /\ load \in [Targets -> Nat]
  BY DEF IInv, TypeOK
<1>2. call[r].left \in Seq(Targets) /\ call[r].left # <<>> /\ call[r].pc = "scanning"
  BY <1>1 DEF TakeKey, Calls
<1>3. Head(call[r].left) \in Targets
  BY <1>2
<1>4. PICK k \in KeysOf[Head(call[r].left)] :
        /\ Pool!Take(k)
        /\ call' = [call EXCEPT ![r].pc = "fetching", ![r].key = k,
                                ![r].target = Head(call[r].left)]
  BY DEF TakeKey
<1>5. k \in Keys
  BY <1>3, ExecutorAssumption
<1> DEFINE c == [call[r] EXCEPT !.pc = "fetching", !.key = k,
                                !.target = Head(call[r].left)]
<1>6. c \in Calls /\ WellFormed(c)
  BY <1>1, <1>2, <1>3, <1>5 DEF Calls, Phases, WellFormed, IInv, CallsWellFormed
<1>7. call' = [call EXCEPT ![r] = c]
  BY <1>1, <1>4 DEF Calls
<1>8. \A j \in Keys : (Uses(c, j) <=> j = k) /\ ~Uses(call[r], j)
  BY <1>1, <1>2 DEF Uses, Calls
<1>9. \A t : ~At(c, t) /\ ~At(call[r], t)
  BY <1>1, <1>2 DEF At, Calls
<1> HIDE DEF c
<1>10. /\ slots' \in [Keys -> Nat] /\ status' \in [Keys -> Pool!Statuses]
       /\ \A j \in Keys :
             slots'[j] = slots[j] + One(Uses(c, j)) - One(Uses(call[r], j))
  <2>1. /\ slots' \in [Keys -> Nat] /\ status' \in [Keys -> Pool!Statuses]
        /\ \A j \in Keys : slots'[j] = slots[j] + One(j = k)
    BY <1>4, <1>5, TakeCounts
  <2> QED
    BY <1>8, <2>1 DEF One, IInv, TypeOK
<1>11. \A t \in Targets : load'[t] = load[t] + One(At(c, t)) - One(At(call[r], t))
  BY <1>1, <1>9 DEF One, TakeKey
<1>12. /\ turn' \in 0 .. T - 1 /\ route' = route /\ load' \in [Targets -> Int]
       /\ bound' \in [Sessions -> Targets \cup {0}] /\ prober' = prober
  BY <1>1 DEF TakeKey, IInv, TypeOK
<1> QED
  BY <1>6, <1>7, <1>10, <1>11, <1>12, ProberSame, RequestStepInv

LEMMA TargetRefusesInv ==
    ASSUME IInv, NEW r \in Requests, TargetRefuses(r)
    PROVE  IInv'
<1>1. call \in [Requests -> Calls]
  BY DEF IInv, TypeOK
<1>2. call[r].left \in Seq(Targets) /\ call[r].left # <<>> /\ call[r].pc = "scanning"
  BY <1>1 DEF TargetRefuses, Calls
<1> DEFINE rest == Tail(call[r].left)
<1> DEFINE c == [call[r] EXCEPT !.left = rest]
<1>3. c \in Calls /\ WellFormed(c) /\ c.pc = "scanning"
  <2>1. rest \in Seq(Targets)
    BY <1>2
  <2> HIDE DEF rest
  <2>2. c \in Calls /\ c.pc = "scanning" /\ c.tries = call[r].tries
    BY <1>1, <1>2, <2>1 DEF Calls
  <2> QED
    BY <1>2, <2>2 DEF WellFormed, IInv, CallsWellFormed
<1>4. call' = [call EXCEPT ![r] = c]
  BY <1>1 DEF TargetRefuses, Calls
<1>5. turn' \in 0 .. T - 1
  BY DEF TargetRefuses, IInv, TypeOK
<1> HIDE DEF c
<1> QED
  BY <1>2, <1>3, <1>4, <1>5, ProberSame, QuietStepInv DEF TargetRefuses, pools

LEMMA StickyExhaustedInv ==
    ASSUME IInv, NEW r \in Requests, StickyExhausted(r)
    PROVE  IInv'
<1>1. call[r].pc = "scanning" /\ call[r].tries < MaxRetries
  BY DEF StickyExhausted, IInv, CallsWellFormed
<1> QED
  BY <1>1, ScanAllInv DEF StickyExhausted

LEMMA NoSelectionInv ==
    ASSUME IInv, NEW r \in Requests, NoSelection(r)
    PROVE  IInv'
<1>1. \/ prober' = prober
      \/ prober' = RestingProber("waiting")
  BY DEF NoSelection
<1>2. RestingProber("waiting") \in Probers
  BY DEF RestingProber, Probers
<1>3. /\ prober' \in Probers /\ ProbesApart'
      /\ \A k \in Keys : Probing(k)' => Probing(k)
  <2>1. CASE prober' = prober
    BY <2>1, ProberSame
  <2>2. CASE prober' = RestingProber("waiting")
    <3>1. prober'.lifted = {} /\ prober'.plans = {}
      BY <2>2 DEF RestingProber
    <3> QED
      BY <1>2, <2>2, <3>1 DEF Probing, ProbesApart
  <2> QED
    BY <1>1, <2>1, <2>2
<1> QED
  BY <1>3, EndsInv DEF NoSelection, pools

\* A request that loses its key without having been counted at a target.
LEMMA FetchFailedInv ==
    ASSUME IInv, NEW r \in Requests, FetchFailed(r)
    PROVE  IInv'
<1>1. call \in [Requests -> Calls] /\ load \in [Targets -> Nat]
  BY DEF IInv, TypeOK
<1>2. call[r].pc = "fetching" /\ call[r].key \in Keys
  BY DEF FetchFailed, IInv, CallsWellFormed
<1> DEFINE next == IF call[r].sticky THEN "scanning" ELSE "crashed"
           c == [call[r] EXCEPT !.pc = next, !.left = <<>>, !.key = NoKey,
                                !.target = 0]
<1>3. c \in Calls /\ c.pc \in {"scanning", "crashed"}
  <2>1. next \in {"scanning", "crashed"} /\ <<>> \in Seq(Targets)
    OBVIOUS
  <2> HIDE DEF next
  <2> QED
    BY <1>1, <2>1 DEF Calls, Phases
<1>4. WellFormed(c)
  BY <1>1, <1>2 DEF Calls, WellFormed, IInv, CallsWellFormed
<1>5. call' = [call EXCEPT ![r] = c]
  BY <1>1 DEF FetchFailed, Calls
<1>6. \A j \in Keys : ~Uses(c, j) /\ (Uses(call[r], j) <=> j = call[r].key)
  BY <1>2, <1>3 DEF Uses
<1>7. \A t : ~At(c, t) /\ ~At(call[r], t)
  BY <1>2, <1>3 DEF At
<1> HIDE DEF c
<1>8. PICK s : Pool!Give(call[r].key, s)
  BY DEF FetchFailed
<1>9. /\ slots' \in [Keys -> Nat] /\ status' \in [Keys -> Pool!Statuses]
      /\ \A j \in Keys :
            slots'[j] = slots[j] + One(Uses(c, j)) - One(Uses(call[r], j))
  <2> DEFINE k == call[r].key
  <2>1. k \in Keys /\ Pool!Give(k, s)
    BY <1>2, <1>8
  <2> HIDE DEF k
  <2>2. /\ slots' \in [Keys -> Nat] /\ status' \in [Keys -> Pool!Statuses]
        /\ \A j \in Keys : slots'[j] = slots[j] - One(j = k)
    BY <2>1, GiveCounts
  <2> QED
    BY <1>6, <2>2 DEF One, k, IInv, TypeOK
<1>10. \A t \in Targets : load'[t] = load[t] + One(At(c, t)) - One(At(call[r], t))
  BY <1>1, <1>7 DEF One, FetchFailed
<1>11. /\ turn' \in 0 .. T - 1 /\ route' = route /\ load' \in [Targets -> Int]
       /\ bound' \in [Sessions -> Targets \cup {0}] /\ prober' = prober
  BY <1>1 DEF FetchFailed, IInv, TypeOK
<1> QED
  BY <1>3, <1>4, <1>5, <1>9, <1>10, <1>11, ProberSame, RequestStepInv

LEMMA RecoveredInv ==
    ASSUME IInv, NEW r \in Requests, Recovered(r)
    PROVE  IInv'
BY ProberSame, EndsInv DEF Recovered, pools

LEMMA GiveUpInv ==
    ASSUME IInv, NEW r \in Requests, GiveUp(r)
    PROVE  IInv'
BY ProberSame, EndsInv DEF GiveUp, pools

\* From here to Unhook a request counts at its target.
LEMMA WrapInv ==
    ASSUME IInv, NEW r \in Requests, Wrap(r)
    PROVE  IInv'
<1>1. call \in [Requests -> Calls] /\ load \in [Targets -> Nat]
      /\ slots \in [Keys -> Nat]
  BY DEF IInv, TypeOK
<1>2. /\ call[r].pc = "fetching" /\ call[r].key \in Keys
      /\ call[r].target \in Targets /\ call[r].tries < MaxRetries
  BY DEF Wrap, IInv, CallsWellFormed
<1> DEFINE c == [call[r] EXCEPT !.pc = "calling"]
<1>3. c \in Calls /\ WellFormed(c)
  BY <1>1, <1>2 DEF Calls, Phases, WellFormed
<1>4. call' = [call EXCEPT ![r] = c]
  BY <1>1 DEF Wrap, Calls
<1>5. \A k : Uses(c, k) <=> Uses(call[r], k)
  BY <1>1, <1>2 DEF Uses, Calls
<1>6. \A t : (At(c, t) <=> t = call[r].target) /\ ~At(call[r], t)
  BY <1>1, <1>2 DEF At, Calls
<1> HIDE DEF c
<1>7. load' = [load EXCEPT ![call[r].target] = load[call[r].target] + 1]
  BY DEF Wrap
<1>8. /\ load' \in [Targets -> Int]
      /\ \A t \in Targets : load'[t] = load[t] + One(At(c, t)) - One(At(call[r], t))
  BY <1>1, <1>2, <1>6, <1>7 DEF One
<1>9. /\ slots' \in [Keys -> Nat]
      /\ \A k \in Keys : slots'[k] = slots[k] + One(Uses(c, k)) - One(Uses(call[r], k))
  BY <1>1, <1>5 DEF One, Wrap, pools
<1>10. bound' \in [Sessions -> Targets \cup {0}]
  BY <1>2 DEF Wrap, IInv, TypeOK
<1>11. /\ turn' \in 0 .. T - 1 /\ route' = route /\ prober' = prober
       /\ status' \in [Keys -> Pool!Statuses]
  BY DEF Wrap, pools, IInv, TypeOK
<1> QED
  BY <1>3, <1>4, <1>8, <1>9, <1>10, <1>11, ProberSame, RequestStepInv

LEMMA UnhookInv ==
    ASSUME IInv, NEW r \in Requests, NEW o \in OutcomeKinds, Unhook(r, o)
    PROVE  IInv'
<1>1. call \in [Requests -> Calls] /\ load \in [Targets -> Nat]
      /\ slots \in [Keys -> Nat] /\ o \in Kinds
  BY ExecutorAssumption DEF IInv, TypeOK
<1>2. /\ call[r].pc = "calling" /\ call[r].key \in Keys
      /\ call[r].target \in Targets /\ call[r].tries < MaxRetries
  BY DEF Unhook, IInv, CallsWellFormed
<1> DEFINE c == [call[r] EXCEPT !.pc = "releasing", !.outcome = o]
<1>3. c \in Calls /\ WellFormed(c)
  BY <1>1, <1>2 DEF Calls, Phases, WellFormed
<1>4. call' = [call EXCEPT ![r] = c]
  BY <1>1 DEF Unhook, Calls
<1>5. \A k : Uses(c, k) <=> Uses(call[r], k)
  BY <1>1, <1>2 DEF Uses, Calls
<1>6. \A t : ~At(c, t) /\ (At(call[r], t) <=> t = call[r].target)
  BY <1>1, <1>2 DEF At, Calls
<1> HIDE DEF c
<1>7. load' = [load EXCEPT ![call[r].target] = load[call[r].target] - 1]
  BY DEF Unhook
<1>8. /\ load' \in [Targets -> Int]
      /\ \A t \in Targets : load'[t] = load[t] + One(At(c, t)) - One(At(call[r], t))
  BY <1>1, <1>2, <1>6, <1>7 DEF One
<1>9. /\ slots' \in [Keys -> Nat]
      /\ \A k \in Keys : slots'[k] = slots[k] + One(Uses(c, k)) - One(Uses(call[r], k))
  BY <1>1, <1>5 DEF One, Unhook, pools
<1>10. /\ turn' \in 0 .. T - 1 /\ route' = route /\ prober' = prober
       /\ status' \in [Keys -> Pool!Statuses]
       /\ bound' \in [Sessions -> Targets \cup {0}]
  BY DEF Unhook, pools, IInv, TypeOK
<1> QED
  BY <1>3, <1>4, <1>8, <1>9, <1>10, ProberSame, RequestStepInv

LEMMA SettleInv ==
    ASSUME IInv, NEW r \in Requests, Settle(r)
    PROVE  IInv'
<1>1. call \in [Requests -> Calls] /\ load \in [Targets -> Nat]
      /\ slots \in [Keys -> Nat]
  BY DEF IInv, TypeOK
<1>2. /\ call[r].pc = "releasing" /\ call[r].key \in Keys
      /\ call[r].tries < MaxRetries
  BY DEF Settle, IInv, CallsWellFormed
<1> DEFINE again == [NoCall EXCEPT !.pc = "selecting",
                                   !.session = call[r].session,
                                   !.tries = call[r].tries + 1]
           c == IF call[r].outcome \in Terminal THEN NoCall ELSE again
<1>3. again \in Calls /\ WellFormed(again) /\ again.pc = "selecting"
  <2>1. /\ <<>> \in Seq(Targets) /\ 0 \in 0 .. MaxRetries
        /\ call[r].tries + 1 \in 0 .. MaxRetries
        /\ call[r].session \in Sessions \cup {NoSession}
    BY <1>1, <1>2, ExecutorAssumption DEF Calls
  <2> QED
    BY <2>1 DEF NoCall, Calls, Phases, Kinds, WellFormed
<1>4. c \in Calls /\ WellFormed(c) /\ c.pc \notin {"fetching", "calling", "releasing"}
  <2> HIDE DEF again
  <2> QED
    BY <1>3, NoCallType
<1>5. call' = [call EXCEPT ![r] = c]
  BY DEF Settle
<1> HIDE DEF c
<1>6. \A j \in Keys : ~Uses(c, j) /\ (Uses(call[r], j) <=> j = call[r].key)
  BY <1>2, <1>4 DEF Uses
<1>7. \A t : ~At(c, t) /\ ~At(call[r], t)
  BY <1>2, <1>4 DEF At
<1>8. PICK s : Pool!Give(call[r].key, s)
  BY DEF Settle
<1>9. /\ slots' \in [Keys -> Nat] /\ status' \in [Keys -> Pool!Statuses]
      /\ \A j \in Keys :
            slots'[j] = slots[j] + One(Uses(c, j)) - One(Uses(call[r], j))
  <2> DEFINE k == call[r].key
  <2>1. k \in Keys /\ Pool!Give(k, s)
    BY <1>2, <1>8
  <2> HIDE DEF k
  <2>2. /\ slots' \in [Keys -> Nat] /\ status' \in [Keys -> Pool!Statuses]
        /\ \A j \in Keys : slots'[j] = slots[j] - One(j = k)
    BY <2>1, GiveCounts
  <2> QED
    BY <1>1, <1>6, <2>2 DEF One, k
<1>10. \A t \in Targets : load'[t] = load[t] + One(At(c, t)) - One(At(call[r], t))
  BY <1>1, <1>7 DEF One, Settle
<1>11. /\ turn' \in 0 .. T - 1 /\ route' = route /\ load' \in [Targets -> Int]
       /\ bound' \in [Sessions -> Targets \cup {0}] /\ prober' = prober
  BY <1>1 DEF Settle, IInv, TypeOK
<1> QED
  BY <1>4, <1>5, <1>9, <1>10, <1>11, ProberSame, RequestStepInv

LEMMA StepInv ==
    ASSUME IInv, NEW r \in Requests, Step(r)
    PROVE  IInv'
BY SelectInv, TakeKeyInv, TargetRefusesInv, StickyExhaustedInv, NoSelectionInv,
   WrapInv, FetchFailedInv, RecoveredInv, SettleInv, GiveUpInv, UnhookInv DEF Step

-----------------------------------------------------------------------------
(* The steps of the prober, and of time.                                   *)

LEMMA ProberAfterType ==
    ASSUME NEW phase \in {"fetching", "probing"}, NEW lifted \in SUBSET Keys,
           NEW plans \in SUBSET Keys, NEW success \in BOOLEAN,
           lifted \cap plans = {},
           prober' = ProberAfter(phase, lifted, plans, success)
    PROVE  /\ prober' \in Probers /\ ProbesApart'
           /\ \A k : Probing(k)' => k \in lifted \cup plans
<1>1. CASE lifted # {}
  <2>1. prober' = [phase |-> "fetching", lifted |-> lifted, plans |-> plans,
                   success |-> FALSE]
    BY <1>1 DEF ProberAfter
  <2> QED
    BY <2>1 DEF Probers, ProbesApart, Probing
<1>2. CASE lifted = {} /\ plans # {}
  <2>1. prober' = [phase |-> "probing", lifted |-> {}, plans |-> plans,
                   success |-> success]
    BY <1>2 DEF ProberAfter
  <2> QED
    BY <2>1 DEF Probers, ProbesApart, Probing
<1>3. CASE lifted = {} /\ plans = {}
  <2>1. prober' = RestingProber("waiting") \/ prober' = RestingProber("stopping")
    BY <1>3 DEF ProberAfter
  <2>2. /\ RestingProber("waiting") \in Probers
        /\ RestingProber("stopping") \in Probers
    BY DEF RestingProber, Probers
  <2>3. prober'.lifted = {} /\ prober'.plans = {}
    BY <2>1 DEF RestingProber
  <2> QED
    BY <2>1, <2>2, <2>3 DEF ProbesApart, Probing
<1> QED
  BY <1>1, <1>2, <1>3

LEMMA TakeRateLimitedInv ==
    ASSUME IInv, TakeRateLimited
    PROVE  IInv'
<1>1. KeysOf[1] \in SUBSET Keys
  BY ExecutorAssumption DEF Targets
<1>2. PICK S \in SUBSET KeysOf[1] :
          /\ Pool!Lift(KeysOf[1], S)
          /\ prober' = ProberAfter("fetching", S, {}, FALSE)
  BY DEF TakeRateLimited
<1>3. S \in SUBSET Keys
  BY <1>1
<1>4. /\ slots' \in [Keys -> Nat] /\ status' \in [Keys -> Pool!Statuses]
      /\ \A j \in Keys : slots'[j] = slots[j] + One(j \in S)
  BY <1>2, <1>3, LiftCounts
<1>5. /\ prober' \in Probers /\ ProbesApart'
      /\ \A k : Probing(k)' => k \in S
  <2> DEFINE none == {}
  <2>1. /\ none \in SUBSET Keys /\ S \cap none = {} /\ S \cup none = S
        /\ prober' = ProberAfter("fetching", S, none, FALSE)
    BY <1>2
  <2> HIDE DEF none
  <2> QED
    BY <1>3, <2>1, ProberAfterType
<1>6. \A k \in Keys : slots'[k] >= slots[k] + One(Probing(k)') - One(Probing(k))
  BY <1>4, <1>5 DEF One, IInv, TypeOK
<1> QED
  BY <1>4, <1>5, <1>6, ProberStepInv DEF TakeRateLimited

LEMMA ProbeFetchedInv ==
    ASSUME IInv, NEW k \in Keys, ProbeFetched(k)
    PROVE  IInv'
<1> DEFINE lifted == prober.lifted \ {k}
           plans == prober.plans \cup {k}
<1>1. /\ lifted \in SUBSET Keys /\ plans \in SUBSET Keys
      /\ lifted \cap plans = {} /\ k \in prober.lifted
  BY DEF ProbeFetched, IInv, TypeOK, Probers, ProbesApart
<1>2. prober' = ProberAfter("fetching", lifted, plans, FALSE)
  BY DEF ProbeFetched
<1>3. \A j : j \in lifted \cup plans => Probing(j)
  BY <1>1 DEF Probing
<1> HIDE DEF lifted, plans
<1>4. /\ prober' \in Probers /\ ProbesApart'
      /\ \A j : Probing(j)' => j \in lifted \cup plans
  BY <1>1, <1>2, ProberAfterType
<1>5. slots' = slots /\ slots \in [Keys -> Nat] /\ status' \in [Keys -> Pool!Statuses]
  BY DEF ProbeFetched, pools, IInv, TypeOK
<1>6. \A j \in Keys : slots'[j] >= slots[j] + One(Probing(j)') - One(Probing(j))
  BY <1>3, <1>4, <1>5 DEF One
<1> QED
  BY <1>4, <1>5, <1>6, ProberStepInv DEF ProbeFetched

LEMMA ProbeFetchFailedInv ==
    ASSUME IInv, NEW k \in Keys, ProbeFetchFailed(k)
    PROVE  IInv'
<1> DEFINE lifted == prober.lifted \ {k}
<1>1. /\ lifted \in SUBSET Keys /\ prober.plans \in SUBSET Keys
      /\ lifted \cap prober.plans = {} /\ Probing(k) /\ k \notin prober.plans
  BY DEF ProbeFetchFailed, IInv, TypeOK, Probers, ProbesApart, Probing
<1>2. prober' = ProberAfter("fetching", lifted, prober.plans, FALSE)
  BY DEF ProbeFetchFailed
<1>3. \A j : j \in lifted \cup prober.plans => Probing(j) /\ j # k
  BY <1>1 DEF Probing
<1> HIDE DEF lifted
<1>4. /\ prober' \in Probers /\ ProbesApart'
      /\ \A j : Probing(j)' => j \in lifted \cup prober.plans
  BY <1>1, <1>2, ProberAfterType
<1>5. PICK s : Pool!Give(k, s)
  BY DEF ProbeFetchFailed
<1>6. /\ slots' \in [Keys -> Nat] /\ status' \in [Keys -> Pool!Statuses]
      /\ \A j \in Keys : slots'[j] = slots[j] - One(j = k)
  BY <1>5, GiveCounts
<1>7. slots \in [Keys -> Nat]
  BY DEF IInv, TypeOK
<1>8. \A j \in Keys : slots'[j] >= slots[j] + One(Probing(j)') - One(Probing(j))
  BY <1>1, <1>3, <1>4, <1>6, <1>7 DEF One
<1> QED
  BY <1>4, <1>6, <1>8, ProberStepInv DEF ProbeFetchFailed

LEMMA ProbeReleasedInv ==
    ASSUME IInv, NEW k \in Keys, NEW success \in BOOLEAN, ProbeReleased(k, success)
    PROVE  IInv'
<1> DEFINE plans == prober.plans \ {k}
           any == prober.success \/ success
<1>1. plans \in SUBSET Keys /\ any \in BOOLEAN
  BY DEF IInv, TypeOK, Probers
<1>2. prober' = ProberAfter("probing", {}, plans, any)
  BY DEF ProbeReleased
<1>3. \A j : j \in plans => Probing(j)
  BY DEF Probing
<1> HIDE DEF plans, any
<1>4. /\ prober' \in Probers /\ ProbesApart'
      /\ \A j : Probing(j)' => j \in plans
  BY <1>1, <1>2, ProberAfterType
<1>5. slots' = slots /\ slots \in [Keys -> Nat] /\ status' \in [Keys -> Pool!Statuses]
  BY DEF ProbeReleased, pools, IInv, TypeOK
<1>6. \A j \in Keys : slots'[j] >= slots[j] + One(Probing(j)') - One(Probing(j))
  BY <1>3, <1>4, <1>5 DEF One
<1> QED
  BY <1>4, <1>5, <1>6, ProberStepInv DEF ProbeReleased

LEMMA ProberStopsInv ==
    ASSUME IInv, ProberStops
    PROVE  IInv'
<1>1. prober' = RestingProber("stopped")
  BY DEF ProberStops
<1>2. prober' \in Probers /\ ProbesApart' /\ \A j : ~Probing(j)'
  BY <1>1 DEF RestingProber, Probers, ProbesApart, Probing
<1>3. slots' = slots /\ slots \in [Keys -> Nat] /\ status' \in [Keys -> Pool!Statuses]
  BY DEF ProberStops, pools, IInv, TypeOK
<1>4. \A j \in Keys : slots'[j] >= slots[j] + One(Probing(j)') - One(Probing(j))
  BY <1>2, <1>3 DEF One
<1> QED
  BY <1>2, <1>3, <1>4, ProberStepInv DEF ProberStops

\* Steps that leave requests, prober and slots alone.
LEMMA TimeInv ==
    ASSUME IInv, UNCHANGED <<slots, route, load, turn, call, prober>>,
           status' \in [Keys -> Pool!Statuses],
           bound' \in [Sessions -> Targets \cup {0}]
    PROVE  IInv'
<1>1. LoadExact' /\ SlotsCoverUses'
  BY DEF IInv, LoadExact, Calling, SlotsCoverUses, Using, Probing
<1>2. CallsWellFormed' /\ ProbesApart' /\ TypeOK'
  BY DEF IInv, CallsWellFormed, ProbesApart, TypeOK
<1> QED
  BY <1>1, <1>2 DEF IInv

LEMMA BindingExpiresInv ==
    ASSUME IInv, NEW s \in Sessions, BindingExpires(s)
    PROVE  IInv'
<1>1. /\ bound' \in [Sessions -> Targets \cup {0}]
      /\ status' \in [Keys -> Pool!Statuses]
  BY DEF BindingExpires, pools, IInv, TypeOK
<1> QED
  BY <1>1, TimeInv DEF BindingExpires, pools

LEMMA CoolDownEndsInv ==
    ASSUME IInv, NEW k \in Keys, CoolDownEnds(k)
    PROVE  IInv'
<1>1. /\ bound' \in [Sessions -> Targets \cup {0}]
      /\ status' \in [Keys -> Pool!Statuses]
  BY DEF CoolDownEnds, Pool!Expire, Pool!Statuses, IInv, TypeOK
<1> QED
  BY <1>1, TimeInv DEF CoolDownEnds, Pool!Expire

-----------------------------------------------------------------------------

LEMMA InitInv == Init => IInv
<1> SUFFICES ASSUME Init PROVE IInv
  OBVIOUS
<1>1. T \in Nat \ {0} /\ 0 \in 0 .. T - 1
  BY ExecutorAssumption
<1>2. \A r \in Requests : call[r] = NoCall
  BY DEF Init
<1>3. \A k : Using(k) = {}
  BY <1>2 DEF Using, NoCall
<1>4. \A t : Calling(t) = {}
  BY <1>2 DEF Calling, NoCall
<1>5. prober = RestingProber("stopped")
  BY DEF Init
<1>6. prober \in Probers /\ ProbesApart /\ \A k : ~Probing(k)
  BY <1>5 DEF RestingProber, Probers, ProbesApart, Probing
<1>7. TypeOK
  BY <1>1, <1>6, NoCallType DEF Init, TypeOK, Pool!Init, Pool!Statuses
<1>8. LoadExact
  BY <1>4, FS_EmptySet DEF Init, LoadExact
<1>9. SlotsCoverUses
  BY <1>3, <1>6, FS_EmptySet DEF Init, SlotsCoverUses, Pool!Init
<1>10. CallsWellFormed
  BY <1>2 DEF CallsWellFormed, NoCall
<1> QED
  BY <1>6, <1>7, <1>8, <1>9, <1>10 DEF IInv

LEMMA NextInv == IInv /\ [Next]_vars => IInv'
<1> SUFFICES ASSUME IInv, [Next]_vars PROVE IInv'
  OBVIOUS
<1>1. ASSUME NEW r \in Requests, NEW s \in Sessions, Arrive(r, s) PROVE IInv'
  BY <1>1, ArriveInv
<1>2. ASSUME NEW r \in Requests, Step(r) PROVE IInv'
  BY <1>2, StepInv
<1>3. ASSUME NEW s \in Sessions, BindingExpires(s) PROVE IInv'
  BY <1>3, BindingExpiresInv
<1>4. CASE TakeRateLimited
  BY <1>4, TakeRateLimitedInv
<1>5. ASSUME NEW k \in Keys, ProbeFetched(k) PROVE IInv'
  BY <1>5, ProbeFetchedInv
<1>6. ASSUME NEW k \in Keys, ProbeFetchFailed(k) PROVE IInv'
  BY <1>6, ProbeFetchFailedInv
<1>7. ASSUME NEW k \in Keys, NEW success \in BOOLEAN, ProbeReleased(k, success)
      PROVE  IInv'
  BY <1>7, ProbeReleasedInv
<1>8. CASE ProberStops
  BY <1>8, ProberStopsInv
<1>9. ASSUME NEW k \in Keys, CoolDownEnds(k) PROVE IInv'
  BY <1>9, CoolDownEndsInv
<1>10. CASE UNCHANGED vars
  <2>1. /\ status' \in [Keys -> Pool!Statuses]
        /\ bound' \in [Sessions -> Targets \cup {0}]
    BY <1>10 DEF vars, pools, IInv, TypeOK
  <2> QED
    BY <1>10, <2>1, TimeInv DEF vars, pools
<1> QED
  BY <1>1, <1>2, <1>3, <1>4, <1>5, <1>6, <1>7, <1>8, <1>9, <1>10 DEF Next

\* The inductive invariant: exact target loads, covered slots and what they
\* rest on, in every reachable state of the executor.
THEOREM ExecutorInvariant == Spec => []IInv
BY InitInv, NextInv, PTL DEF Spec

\* Every variable keeps its type; a target's load and a key's slots are never
\* negative, so no hook runs twice.
THEOREM ExecutorTypeCorrect == Spec => []TypeOK
<1>1. IInv => TypeOK
  BY DEF IInv
<1> QED
  BY <1>1, ExecutorInvariant, PTL

\* The load of a target is the number of requests at it.
THEOREM LoadAlwaysExact == Spec => []LoadExact
<1>1. IInv => LoadExact
  BY DEF IInv
<1> QED
  BY <1>1, ExecutorInvariant, PTL

\* Every use of a key is counted by its pool until it is given back.
THEOREM UsesAlwaysCovered == Spec => []SlotsCoverUses
<1>1. IInv => SlotsCoverUses
  BY DEF IInv
<1> QED
  BY <1>1, ExecutorInvariant, PTL
-----------------------------------------------------------------------------
(* What a scan over the targets promises although it is not atomic.          *)

-----------------------------------------------------------------------------
(* The orders of the strategies leave no target out.                       *)

LEMMA Wraps ==
    ASSUME NEW x \in Nat, x < 2 * T
    PROVE  x % T = IF x < T THEN x ELSE x - T
<1>1. T \in Nat \ {0}
  BY ExecutorAssumption
<1>2. CASE x < T
  BY <1>1, <1>2
<1>3. CASE x >= T
  BY <1>1, <1>3
<1> QED
  BY <1>1, <1>2, <1>3

LEMMA RotatedCovers ==
    ASSUME NEW first \in 0 .. T - 1, NEW t \in Targets
    PROVE  \E i \in 1 .. Len(Rotated(first)) : Rotated(first)[i] = t
<1>1. T \in Nat \ {0}
  BY ExecutorAssumption
<1>2. Len(Rotated(first)) = T
  BY <1>1 DEF Rotated, Targets
<1> DEFINE i == IF t > first THEN t - first ELSE t - first + T
<1>3. i \in 1 .. T /\ first + i - 1 \in Nat /\ first + i - 1 < 2 * T
  BY <1>1 DEF Targets
<1>4. PICK x \in Nat : x = first + i - 1
  BY <1>3
<1>5. x % T = t - 1
  <2>1. x % T = IF x < T THEN x ELSE x - T
    BY <1>3, <1>4, Wraps
  <2> QED
    BY <1>1, <1>4, <2>1 DEF Targets
<1> HIDE DEF i
<1>6. Rotated(first)[i] = t
  BY <1>1, <1>3, <1>4, <1>5 DEF Rotated, Targets
<1> QED
  BY <1>2, <1>3, <1>6

LEMMA OrdersCover ==
    ASSUME turn \in 0 .. T - 1, NEW order \in Orders, NEW t \in Targets
    PROVE  \E i \in 1 .. Len(order) : order[i] = t
<1>1. T \in Nat \ {0}
  BY ExecutorAssumption
<1>2. NextTurn \in 0 .. T - 1 /\ 0 \in 0 .. T - 1
  BY <1>1 DEF NextTurn
<1>3. CASE order \in LeastLoadedFirst
  <2>1. IsFiniteSet(Targets) /\ Cardinality(Targets) = T
    BY <1>1, FS_Interval DEF Targets
  <2>2. /\ order \in [1 .. T -> Targets]
        /\ \A i, j \in 1 .. T : i # j => order[i] # order[j]
    BY <1>3, <2>1 DEF LeastLoadedFirst, SetToSeqs
  <2>3. order \in Injection(Targets, Targets)
    BY <2>2 DEF Injection, IsInjective, Targets
  <2>4. order \in Surjection(Targets, Targets)
    BY <2>1, <2>3, FS_Injection
  <2>5. \E i \in Targets : order[i] = t
    BY <2>4 DEF Surjection
  <2>6. Len(order) = T
    BY <1>1, <2>2
  <2> QED
    BY <2>5, <2>6 DEF Targets
<1>4. CASE order \in {Rotated(NextTurn), Rotated(0)}
  BY <1>2, <1>4, RotatedCovers
<1> QED
  BY <1>3, <1>4 DEF Orders

-----------------------------------------------------------------------------
(* Who moves a request, and how it comes to scan.                          *)

LEMMA OwnSteps ==
    ASSUME IInv, Next, NEW r \in Requests, call'[r] # call[r]
    PROVE  Step(r) \/ \E s \in Sessions : Arrive(r, s)
<1>1. ASSUME NEW q \in Requests, Step(q) PROVE \A x \in Requests \ {q} : call'[x] = call[x]
  <2>1. call \in [Requests -> Calls]
    BY DEF IInv, TypeOK
  <2>2. CASE Select(q)
    BY <2>1, <2>2 DEF Select, ScanAll, Scan
  <2>3. CASE TakeKey(q)
    BY <2>1, <2>3 DEF TakeKey
  <2>4. CASE TargetRefuses(q) \/ Wrap(q) \/ Settle(q) \/ GiveUp(q) \/ Recovered(q)
    BY <2>1, <2>4 DEF TargetRefuses, Wrap, Settle, GiveUp, Recovered
  <2>5. CASE StickyExhausted(q)
    BY <2>1, <2>5 DEF StickyExhausted, ScanAll, Scan
  <2>6. CASE NoSelection(q) \/ FetchFailed(q)
    BY <2>1, <2>6 DEF NoSelection, FetchFailed
  <2>7. CASE \E o \in OutcomeKinds : Unhook(q, o)
    BY <2>1, <2>7 DEF Unhook
  <2> QED
    BY <1>1, <2>2, <2>3, <2>4, <2>5, <2>6, <2>7 DEF Step
<1>2. ASSUME NEW q \in Requests, NEW s \in Sessions, Arrive(q, s)
      PROVE  \A x \in Requests \ {q} : call'[x] = call[x]
  BY <1>2 DEF Arrive, IInv, TypeOK
<1>3. (\E q \in Requests : Step(q)) \/ (\E q \in Requests, s \in Sessions : Arrive(q, s))
      \/ call' = call
  BY DEF Next, BindingExpires, TakeRateLimited, ProbeFetched, ProbeFetchFailed,
         ProbeReleased, ProberStops, CoolDownEnds
<1> QED
  BY <1>1, <1>2, <1>3

\* The steps after which a request is scanning.
LEMMA ScanSteps ==
    ASSUME IInv, Next, NEW r \in Requests, call'[r] # call[r],
           call'[r].pc = "scanning"
    PROVE  \/ Select(r) \/ StickyExhausted(r)
           \/ TargetRefuses(r)
           \/ FetchFailed(r) /\ call'[r].sticky
<1>1. call \in [Requests -> Calls]
  BY DEF IInv, TypeOK
<1>2. ASSUME NEW s \in Sessions, Arrive(r, s) PROVE FALSE
  BY <1>1, <1>2 DEF Arrive, NoCall
<1>3. CASE FetchFailed(r)
  <2>1. call'[r].pc = (IF call[r].sticky THEN "scanning" ELSE "crashed")
        /\ call'[r].sticky = call[r].sticky
    BY <1>1, <1>3 DEF FetchFailed, Calls
  <2>2. call[r].sticky
    BY <2>1
  <2> QED
    BY <1>3, <2>1, <2>2
<1>4. CASE TakeKey(r)
  BY <1>1, <1>4 DEF TakeKey, Calls
<1>5. CASE Wrap(r) \/ GiveUp(r) \/ Recovered(r) \/ NoSelection(r)
  BY <1>1, <1>5 DEF Wrap, GiveUp, Recovered, NoSelection, NoCall, Calls
<1>6. CASE Settle(r)
  BY <1>1, <1>6 DEF Settle, NoCall
<1>7. CASE \E o \in OutcomeKinds : Unhook(r, o)
  BY <1>1, <1>7 DEF Unhook, Calls
<1> QED
  BY <1>2, <1>3, <1>4, <1>5, <1>6, <1>7, OwnSteps DEF Step

\* A scan of all targets begins with an order of the strategy.
LEMMA ScanAllOrder ==
    ASSUME IInv, NEW r \in Requests, ScanAll(r)
    PROVE  /\ call'[r].left \in Orders /\ call'[r].pc = "scanning"
           /\ ~call'[r].sticky
BY DEF ScanAll, Scan, IInv, TypeOK, Calls

-----------------------------------------------------------------------------
(* The history invariant.                                                  *)

LEMMA TailShifts ==
    ASSUME NEW q \in Seq(Targets), q # <<>>
    PROVE  /\ Len(Tail(q)) = Len(q) - 1 /\ Len(q) \in Nat \ {0}
           /\ \A i \in 1 .. Len(Tail(q)) : Tail(q)[i] = q[i + 1]
           /\ Head(q) = q[1]
OBVIOUS

LEMMA ScansKnowStep ==
    ASSUME HistoryInv, Next, Observe
    PROVE  ScansKnow'
<1> SUFFICES ASSUME NEW r \in Requests, call'[r].pc = "scanning",
                    ~call'[r].sticky, NEW t \in steady'[r]
             PROVE  \E i \in 1 .. Len(call'[r].left) : call'[r].left[i] = t
  BY DEF ScansKnow
<1>1. IInv /\ turn \in 0 .. T - 1 /\ call \in [Requests -> Calls]
  BY DEF HistoryInv, IInv, TypeOK
<1>2. CASE Begins(r)
  <2>1. t \in Targets
    BY <1>2 DEF Observe, Available
  <2>2. call'[r] # call[r]
    BY <1>2 DEF Begins
  <2>3. ScanAll(r)
    <3>1. CASE Select(r)
      <4>1. ~(StickyTarget(r) # 0)
        BY <1>1, <3>1 DEF Select, Scan, Calls
      <4> QED
        BY <3>1, <4>1 DEF Select
    <3>2. CASE StickyExhausted(r)
      BY <3>2 DEF StickyExhausted
    <3>3. CASE TargetRefuses(r)
      <4>1. call[r].pc = "scanning" /\ call'[r].sticky = call[r].sticky
        BY <1>1, <3>3 DEF TargetRefuses, Calls
      <4> QED
        BY <1>2, <4>1 DEF Begins
    <3> QED
      BY <1>1, <2>2, <3>1, <3>2, <3>3, ScanSteps
  <2> QED
    BY <1>1, <2>1, <2>3, ScanAllOrder, OrdersCover
<1>3. CASE ~Begins(r)
  <2>1. call[r].pc = "scanning" /\ ~call[r].sticky
    BY <1>3 DEF Begins
  <2>2. t \in steady[r] /\ t \in Available'
    BY <1>3 DEF Observe
  <2>3. PICK i \in 1 .. Len(call[r].left) : call[r].left[i] = t
    BY <2>1, <2>2 DEF HistoryInv, ScansKnow
  <2>4. CASE call'[r] = call[r]
    BY <2>3, <2>4
  <2>5. CASE TargetRefuses(r)
    <3> DEFINE q == call[r].left
    <3>1. q \in Seq(Targets) /\ q # <<>> /\ call'[r].left = Tail(q)
      BY <1>1, <2>5 DEF TargetRefuses, Calls
    <3>2. \A k \in KeysOf[Head(q)] : status'[k] # "free"
      BY <2>5 DEF TargetRefuses, Pool!Refuse, pools
    <3>3. t # Head(q)
      BY <2>2, <3>2 DEF Available
    <3>4. i \in 1 .. Len(q) /\ q[i] = t
      BY <2>3
    <3> HIDE DEF q
    <3>5. i # 1
      BY <3>1, <3>3, <3>4, TailShifts
    <3>6. i - 1 \in 1 .. Len(Tail(q)) /\ Tail(q)[i - 1] = t
      BY <3>1, <3>4, <3>5, TailShifts
    <3> QED
      BY <3>1, <3>6
  <2>6. call'[r] # call[r] => TargetRefuses(r)
    BY <1>1, <2>1, ScanSteps DEF Select, StickyExhausted, FetchFailed
  <2> QED
    BY <2>4, <2>5, <2>6
<1> QED
  BY <1>2, <1>3

LEMMA RouteFixed ==
    ASSUME Next
    PROVE  route' = route
BY DEF Next, Step, Arrive, Select, ScanAll, TakeKey, TargetRefuses,
       StickyExhausted, NoSelection, Wrap, FetchFailed, Recovered, Settle, GiveUp,
       Unhook, BindingExpires, TakeRateLimited, ProbeFetched, ProbeFetchFailed,
       ProbeReleased, ProberStops, CoolDownEnds

LEMMA ListedOrder ==
    ASSUME route = "fallback", NEW order \in Orders
    PROVE  \A i, j \in 1 .. Len(order) : i < j => order[i] < order[j]
<1>1. T \in Nat \ {0}
  BY ExecutorAssumption
<1>2. order = Rotated(0)
  BY DEF Orders
<1>3. Len(order) = T
  BY <1>1, <1>2 DEF Rotated, Targets
<1>4. ASSUME NEW i \in 1 .. T PROVE order[i] = i
  <2>1. PICK x \in Nat : x = i - 1
    BY <1>1
  <2>2. x % T = x
    BY <1>1, <2>1
  <2>3. order[i] = ((0 + i - 1) % T) + 1
    BY <1>2 DEF Rotated, Targets
  <2> QED
    BY <2>1, <2>2, <2>3
<1> QED
  BY <1>1, <1>3, <1>4

LEMMA FallbackInOrderStep ==
    ASSUME HistoryInv, Next
    PROVE  FallbackInOrder'
<1> SUFFICES ASSUME route = "fallback", NEW r \in Requests
             PROVE  /\ ~call'[r].sticky
                    /\ call'[r].pc = "scanning" =>
                          \A i, j \in 1 .. Len(call'[r].left) :
                              i < j => call'[r].left[i] < call'[r].left[j]
  BY RouteFixed DEF FallbackInOrder
<1>1. IInv /\ call \in [Requests -> Calls]
  BY DEF HistoryInv, IInv, TypeOK
<1>2. /\ ~call[r].sticky
      /\ call[r].pc = "scanning" =>
            \A i, j \in 1 .. Len(call[r].left) :
                i < j => call[r].left[i] < call[r].left[j]
  BY DEF HistoryInv, FallbackInOrder
<1>3. StickyTarget(r) = 0
  BY DEF StickyTarget, Sticky
<1>4. CASE ScanAll(r)
  BY <1>1, <1>4, ScanAllOrder, ListedOrder
<1>5. CASE TargetRefuses(r)
  <2> DEFINE q == call[r].left
  <2>1. /\ q \in Seq(Targets) /\ q # <<>> /\ call'[r].left = Tail(q)
        /\ call[r].pc = "scanning" /\ call'[r].sticky = call[r].sticky
    BY <1>1, <1>5 DEF TargetRefuses, Calls
  <2>2. \A i, j \in 1 .. Len(q) : i < j => q[i] < q[j]
    BY <1>2, <2>1
  <2> HIDE DEF q
  <2>3. \A i, j \in 1 .. Len(Tail(q)) : i < j => Tail(q)[i] < Tail(q)[j]
    BY <2>1, <2>2, TailShifts
  <2> QED
    BY <1>2, <2>1, <2>3
<1>6. ASSUME call'[r] # call[r], ~ScanAll(r), ~TargetRefuses(r)
      PROVE  ~call'[r].sticky /\ call'[r].pc # "scanning"
  <2>1. call'[r].pc # "scanning" \/ (FetchFailed(r) /\ call'[r].sticky)
    BY <1>1, <1>3, <1>6, ScanSteps DEF Select, StickyExhausted
  <2>2. CASE FetchFailed(r)
    <3>1. call'[r].sticky = call[r].sticky
      BY <1>1, <2>2 DEF FetchFailed, Calls
    <3> QED
      BY <1>2, <2>1, <3>1
  <2>3. CASE TakeKey(r)
    <3>1. call'[r].pc = "fetching" /\ call'[r].sticky = call[r].sticky
      BY <1>1, <2>3 DEF TakeKey, Calls
    <3> QED
      BY <1>2, <3>1
  <2>4. CASE Wrap(r)
    <3>1. call'[r].pc = "calling" /\ call'[r].sticky = call[r].sticky
      BY <1>1, <2>4 DEF Wrap, Calls
    <3> QED
      BY <1>2, <3>1
  <2>5. CASE \E o \in OutcomeKinds : Unhook(r, o)
    <3>1. call'[r].pc = "releasing" /\ call'[r].sticky = call[r].sticky
      BY <1>1, <2>5 DEF Unhook, Calls
    <3> QED
      BY <1>2, <3>1
  <2>6. CASE GiveUp(r) \/ Recovered(r) \/ NoSelection(r)
    BY <1>1, <2>6 DEF GiveUp, Recovered, NoSelection, NoCall
  <2>7. CASE Settle(r)
    BY <1>1, <2>7 DEF Settle, NoCall
  <2>8. CASE \E s \in Sessions : Arrive(r, s)
    BY <1>1, <2>8 DEF Arrive, NoCall
  <2>9. ~Select(r) /\ ~StickyExhausted(r)
    BY <1>3, <1>6 DEF Select, StickyExhausted
  <2> QED
    BY <1>1, <1>6, <2>2, <2>3, <2>4, <2>5, <2>6, <2>7, <2>8, <2>9, OwnSteps DEF Step
<1> QED
  BY <1>2, <1>4, <1>5, <1>6

LEMMA HistoryInvInductive ==
    /\ ObservedInit => HistoryInv
    /\ HistoryInv /\ [ObservedNext]_<<vars, steady>> => HistoryInv'
<1>1. ObservedInit => HistoryInv
  BY InitInv DEF ObservedInit, HistoryInv, ScansKnow, FallbackInOrder, Init, NoCall
<1>2. ASSUME HistoryInv, ObservedNext PROVE HistoryInv'
  BY <1>2, NextInv, ScansKnowStep, FallbackInOrderStep DEF ObservedNext, HistoryInv
<1>3. ASSUME HistoryInv, UNCHANGED <<vars, steady>> PROVE HistoryInv'
  <2>1. IInv'
    BY <1>3, NextInv DEF HistoryInv
  <2> QED
    BY <1>3, <2>1 DEF HistoryInv, ScansKnow, FallbackInOrder, vars
<1> QED
  BY <1>1, <1>2, <1>3

\* In every reachable state a running scan still has the targets before it that
\* have been available since it began.
THEOREM HistoryInvariant == ObservedSpec => []HistoryInv
BY HistoryInvInductive, PTL DEF ObservedSpec

-----------------------------------------------------------------------------

\* A refused request met no target that was available all the while.
THEOREM RefusalsAreJustified == ObservedSpec => RefusalJustified
<1>1. ASSUME HistoryInv, NEW r \in Requests, NoSelection(r) PROVE steady[r] = {}
  <2>1. call[r].pc = "scanning" /\ ~call[r].sticky /\ call[r].left = <<>>
    BY <1>1 DEF NoSelection
  <2> QED
    BY <1>1, <2>1 DEF HistoryInv, ScansKnow
<1>2. HistoryInv => \A r \in Requests : NoSelection(r) => steady[r] = {}
  BY <1>1
<1> QED
  BY <1>2, HistoryInvariant, PTL DEF RefusalJustified, ObservedSpec

\* Fallback passes over a target only if it was unavailable at some moment of
\* the scan.
THEOREM FallbackPrefersEarlier == ObservedSpec => FallbackKeepsPriority
<1>1. ASSUME HistoryInv, [ObservedNext]_<<vars, steady>>, NEW r \in Requests, NEW t \in Targets,
             route = "fallback", call[r].pc = "scanning",
             call'[r].pc = "fetching", call'[r].target = t,
             NEW u \in 1 .. t - 1, u \in steady[r]
      PROVE  FALSE
  <2>1. IInv /\ call \in [Requests -> Calls] /\ T \in Nat
    BY <1>1, ExecutorAssumption DEF HistoryInv, IInv, TypeOK
  <2>2. Next /\ call'[r] # call[r]
    BY <1>1 DEF ObservedNext, vars
  <2>3. TakeKey(r)
    <3>1. Step(r)
      BY <1>1, <2>1, <2>2, OwnSteps DEF Arrive
    <3>2. ~Select(r) /\ ~Wrap(r) /\ ~FetchFailed(r) /\ ~Recovered(r) /\ ~Settle(r)
          /\ ~GiveUp(r) /\ ~\E o \in OutcomeKinds : Unhook(r, o)
      BY <1>1 DEF Select, Wrap, FetchFailed, Recovered, Settle, GiveUp, Unhook
    <3>3. ~TargetRefuses(r)
      <4>1. TargetRefuses(r) => call'[r].pc = call[r].pc
        BY <2>1 DEF TargetRefuses, Calls
      <4> QED
        BY <1>1, <4>1
    <3>4. ~StickyExhausted(r) /\ ~NoSelection(r)
      <4>1. StickyExhausted(r) => call'[r].pc = "scanning"
        BY <2>1, ScanAllOrder DEF StickyExhausted
      <4>2. NoSelection(r) => call'[r].pc = "idle"
        BY <2>1 DEF NoSelection, NoCall
      <4> QED
        BY <1>1, <4>1, <4>2
    <3> QED
      BY <3>1, <3>2, <3>3, <3>4 DEF Step
  <2> DEFINE q == call[r].left
  <2>4. q \in Seq(Targets) /\ q # <<>> /\ t = Head(q)
    BY <1>1, <2>1, <2>3 DEF TakeKey, Calls
  <2>5. ~call[r].sticky /\ \A i, j \in 1 .. Len(q) : i < j => q[i] < q[j]
    BY <1>1 DEF HistoryInv, FallbackInOrder
  <2>6. PICK i \in 1 .. Len(q) : q[i] = u
    BY <1>1, <2>5 DEF HistoryInv, ScansKnow
  <2> HIDE DEF q
  <2>7. t = q[1] /\ 1 \in 1 .. Len(q)
    BY <2>4, TailShifts
  <2>8. t \in Nat /\ u < t
    BY <2>1 DEF Targets
  <2> QED
    BY <2>5, <2>6, <2>7, <2>8
<1>2. HistoryInv /\ [ObservedNext]_<<vars, steady>> =>
        \A r \in Requests, t \in Targets :
            (/\ route = "fallback"
             /\ call[r].pc = "scanning"
             /\ call'[r].pc = "fetching" /\ call'[r].target = t)
                => \A u \in 1 .. t - 1 : u \notin steady[r]
  BY <1>1
<1> QED
  BY <1>2, HistoryInvariant, PTL DEF FallbackKeepsPriority, ObservedSpec

-----------------------------------------------------------------------------
(* Usage shared with credstone (CredSource).                               *)

(* Arithmetic of usage records. *)

\* Sums of usages are usages; usages are equal if both counts are.
LEMMA UsageSums ==
    /\ Nothing \in Usage /\ OneRequest \in Usage /\ OneToken \in Usage
    /\ \A u, v \in Usage : Plus(u, v) \in Usage
    BY DEF Usage, Nothing, OneRequest, OneToken, Plus

\* Subtracting what is at most there leaves a usage.
LEMMA UsageDifference ==
    ASSUME NEW u \in Usage, NEW v \in Usage,
           v.requests <= u.requests, v.tokens <= u.tokens
    PROVE  Minus(u, v) \in Usage
    BY DEF Usage, Minus

\* The balance of one generation: what it recorded, what was repeated and what is
\* counted but not confirmed, against what was received and what is pending.
Balance(rec, rep, unc, rcv, pen) ==
    Plus(Plus(rec, rep), unc) = Plus(rcv, pen)

\* The balance, count by count.
LEMMA BalanceCounts ==
    ASSUME NEW rec \in Usage, NEW rep \in Usage, NEW unc \in Usage,
           NEW rcv \in Usage, NEW pen \in Usage
    PROVE  Balance(rec, rep, unc, rcv, pen) <=>
               /\ rec.requests + rep.requests + unc.requests = rcv.requests + pen.requests
               /\ rec.tokens + rep.tokens + unc.tokens = rcv.tokens + pen.tokens
    BY DEF Balance, Plus

\* Counts of sums and differences.
LEMMA Counts ==
    \A u, v :
        /\ Plus(u, v).requests = u.requests + v.requests
        /\ Plus(u, v).tokens = u.tokens + v.tokens
        /\ Minus(u, v).requests = u.requests - v.requests
        /\ Minus(u, v).tokens = u.tokens - v.tokens
    BY DEF Plus, Minus

\* A usage has two natural counts.
LEMMA UsageCounts ==
    /\ \A u \in Usage : u.requests \in Nat /\ u.tokens \in Nat
    /\ Nothing \in Usage /\ Nothing.requests = 0 /\ Nothing.tokens = 0
    BY DEF Usage, Nothing

\* Recording adds to both sides of the balance.
LEMMA BalanceRecords ==
    ASSUME NEW rec \in Usage, NEW rep \in Usage, NEW unc \in Usage,
           NEW rcv \in Usage, NEW pen \in Usage, NEW u \in Usage,
           Balance(rec, rep, unc, rcv, pen)
    PROVE  Balance(Plus(rec, u), rep, unc, rcv, Plus(pen, u))
    <1>1. Plus(rec, u) \in Usage /\ Plus(pen, u) \in Usage
        BY UsageSums
    <1>2. /\ rec.requests + rep.requests + unc.requests = rcv.requests + pen.requests
          /\ rec.tokens + rep.tokens + unc.tokens = rcv.tokens + pen.tokens
        BY BalanceCounts
    <1>3. /\ Plus(rec, u).requests + rep.requests + unc.requests
                = rcv.requests + Plus(pen, u).requests
          /\ Plus(rec, u).tokens + rep.tokens + unc.tokens = rcv.tokens + Plus(pen, u).tokens
        BY <1>2, UsageCounts, Counts
    <1> QED
        BY <1>1, <1>3, BalanceCounts

\* What is received becomes unconfirmed.
LEMMA BalanceReaches ==
    ASSUME NEW rec \in Usage, NEW rep \in Usage,
           NEW rcv \in Usage, NEW pen \in Usage, NEW u \in Usage,
           Balance(rec, rep, Nothing, rcv, pen)
    PROVE  Balance(rec, rep, u, Plus(rcv, u), pen)
    <1>1. Plus(rcv, u) \in Usage
        BY UsageSums
    <1>2. /\ rec.requests + rep.requests + 0 = rcv.requests + pen.requests
          /\ rec.tokens + rep.tokens + 0 = rcv.tokens + pen.tokens
        BY UsageCounts, BalanceCounts
    <1>3. /\ rec.requests + rep.requests + u.requests = Plus(rcv, u).requests + pen.requests
          /\ rec.tokens + rep.tokens + u.tokens = Plus(rcv, u).tokens + pen.tokens
        BY <1>2, UsageCounts, Counts
    <1> QED
        BY <1>1, <1>3, BalanceCounts

\* What is confirmed is subtracted from what is pending.
LEMMA BalanceConfirmed ==
    ASSUME NEW rec \in Usage, NEW rep \in Usage,
           NEW rcv \in Usage, NEW pen \in Usage, NEW u \in Usage,
           u.requests <= pen.requests, u.tokens <= pen.tokens,
           Balance(rec, rep, u, rcv, pen)
    PROVE  Balance(rec, rep, Nothing, rcv, Minus(pen, u))
    <1>1. Minus(pen, u) \in Usage
        BY UsageDifference
    <1>2. /\ rec.requests + rep.requests + u.requests = rcv.requests + pen.requests
          /\ rec.tokens + rep.tokens + u.tokens = rcv.tokens + pen.tokens
        BY BalanceCounts
    <1>3. /\ rec.requests + rep.requests + 0 = rcv.requests + Minus(pen, u).requests
          /\ rec.tokens + rep.tokens + 0 = rcv.tokens + Minus(pen, u).tokens
        BY <1>2, UsageCounts, Counts
    <1> QED
        BY <1>1, <1>3, UsageCounts, BalanceCounts

\* What was counted in a call whose answer is lost is counted a second time.
LEMMA BalanceRepeats ==
    ASSUME NEW rec \in Usage, NEW rep \in Usage,
           NEW rcv \in Usage, NEW pen \in Usage, NEW u \in Usage,
           Balance(rec, rep, u, rcv, pen)
    PROVE  Balance(rec, Plus(rep, u), Nothing, rcv, pen)
    <1>1. Plus(rep, u) \in Usage
        BY UsageSums
    <1>2. /\ rec.requests + rep.requests + u.requests = rcv.requests + pen.requests
          /\ rec.tokens + rep.tokens + u.tokens = rcv.tokens + pen.tokens
        BY BalanceCounts
    <1>3. /\ rec.requests + Plus(rep, u).requests + 0 = rcv.requests + pen.requests
          /\ rec.tokens + Plus(rep, u).tokens + 0 = rcv.tokens + pen.tokens
        BY <1>2, UsageCounts, Counts
    <1> QED
        BY <1>1, <1>3, UsageCounts, BalanceCounts

-----------------------------------------------------------------------------
(* The inductive invariant. UsageExact is not inductive by itself: that the   *)
(* subtraction of a confirmed call stays above zero needs SentIsPending, and  *)
(* that a resting flusher has nothing unconfirmed needs FlushWellFormed.      *)

\* The flusher's states are of their type.
LEMMA FlusherStates ==
    /\ Resting \in [pc : {"off", "resting", "sending"}, sent : Usage, counted : BOOLEAN]
    /\ Off \in [pc : {"off", "resting", "sending"}, sent : Usage, counted : BOOLEAN]
    /\ Resting.pc = "resting" /\ Off.pc = "off"
    /\ ~Resting.counted /\ ~Off.counted
    /\ Resting.sent = Nothing /\ Off.sent = Nothing
    BY UsageSums DEF Resting, Off

\* The initial states satisfy the invariant.
LEMMA InitInvariant == SourceInit => SourceInv
    <1> SUFFICES ASSUME SourceInit PROVE SourceInv
        OBVIOUS
    <1>1. 1 \in Gens
        BY MaxGenAssumption DEF Gens
    <1>2. SourceTypeOK
        BY <1>1, FlusherStates, UsageSums, BoundsAssumption DEF SourceInit, SourceTypeOK, PollStates, AttemptStates, Idle
    <1>3. \A g \in Gens : ~flush[g].counted /\ flush[g].sent = Nothing
        BY FlusherStates DEF SourceInit
    <1>4. UsageExact
        BY <1>3, UsageSums DEF SourceInit, UsageExact, Unconfirmed, Plus, Nothing
    <1>5. SentIsPending
        BY <1>3 DEF SourceInit, SentIsPending, Nothing
    <1>6. FlushWellFormed
        BY <1>1, <1>3, FlusherStates DEF SourceInit, FlushWellFormed, Gens
    <1> QED
        BY <1>2, <1>4, <1>5, <1>6 DEF SourceInv

FlusherState == [pc : {"off", "resting", "sending"}, sent : Usage, counted : BOOLEAN]

\* What the invariant says of one generation's accumulator and flusher.
Sound(fl, pen, rec, rcv, rep) ==
    /\ fl \in FlusherState
    /\ pen \in Usage /\ rec \in Usage /\ rcv \in Usage /\ rep \in Usage
    /\ Balance(rec, rep, IF fl.counted THEN fl.sent ELSE Nothing, rcv, pen)
    /\ fl.sent.requests <= pen.requests /\ fl.sent.tokens <= pen.tokens
    /\ fl.counted => fl.pc = "sending"

\* The invariant's part about usage, generation by generation.
LEMMA UsageByGeneration ==
    ASSUME pending \in [Gens -> Usage], flush \in [Gens -> FlusherState],
           recorded \in [Gens -> Usage], received \in [Gens -> Usage],
           repeated \in [Gens -> Usage]
    PROVE  UsageExact /\ SentIsPending /\ (\A g \in Gens : flush[g].counted => flush[g].pc = "sending")
               <=> \A g \in Gens :
                       Sound(flush[g], pending[g], recorded[g], received[g], repeated[g])
    BY DEF UsageExact, SentIsPending, Sound, Unconfirmed, Balance

\* Recording.
LEMMA SoundRecords ==
    ASSUME NEW fl, NEW pen, NEW rec, NEW rcv, NEW rep, NEW u \in Usage,
           Sound(fl, pen, rec, rcv, rep)
    PROVE  Sound(fl, Plus(pen, u), Plus(rec, u), rcv, rep)
    <1> DEFINE unc == IF fl.counted THEN fl.sent ELSE Nothing
    <1>1. fl \in FlusherState /\ pen \in Usage /\ rec \in Usage /\ rcv \in Usage /\ rep \in Usage
        BY DEF Sound
    <1>2. unc \in Usage /\ fl.sent \in Usage
        BY <1>1, UsageSums DEF FlusherState
    <1>3. Balance(Plus(rec, u), rep, unc, rcv, Plus(pen, u))
        BY <1>1, <1>2, BalanceRecords DEF Sound
    <1>4. Plus(rec, u) \in Usage /\ Plus(pen, u) \in Usage
        BY <1>1, UsageSums
    <1>5. /\ fl.sent.requests <= Plus(pen, u).requests
          /\ fl.sent.tokens <= Plus(pen, u).tokens
        BY <1>1, <1>2, UsageCounts, Counts DEF Sound
    <1> QED
        BY <1>1, <1>3, <1>4, <1>5 DEF Sound

\* A call begins.
LEMMA SoundBegins ==
    ASSUME NEW fl, NEW pen, NEW rec, NEW rcv, NEW rep,
           Sound(fl, pen, rec, rcv, rep), fl.pc = "resting"
    PROVE  Sound([pc |-> "sending", sent |-> pen, counted |-> FALSE], pen, rec, rcv, rep)
    <1>1. pen \in Usage /\ ~fl.counted
        BY DEF Sound, FlusherState
    <1> QED
        BY <1>1, UsageCounts DEF Sound, FlusherState

\* A call reaches credstone.
LEMMA SoundReaches ==
    ASSUME NEW fl, NEW pen, NEW rec, NEW rcv, NEW rep,
           Sound(fl, pen, rec, rcv, rep), fl.pc = "sending", ~fl.counted
    PROVE  Sound([fl EXCEPT !.counted = TRUE], pen, rec, Plus(rcv, fl.sent), rep)
    <1>1. fl \in FlusherState /\ pen \in Usage /\ rec \in Usage /\ rcv \in Usage /\ rep \in Usage
        BY DEF Sound
    <1>2. fl.sent \in Usage
        BY <1>1 DEF FlusherState
    <1>3. Balance(rec, rep, fl.sent, Plus(rcv, fl.sent), pen)
        BY <1>1, <1>2, BalanceReaches DEF Sound
    <1> DEFINE next == [fl EXCEPT !.counted = TRUE]
    <1>4. /\ next \in FlusherState /\ next.counted /\ next.sent = fl.sent
          /\ next.pc = "sending"
        BY <1>1 DEF FlusherState
    <1>5. Plus(rcv, fl.sent) \in Usage
        BY <1>1, <1>2, UsageSums
    <1> HIDE DEF next
    <1>6. Sound(next, pen, rec, Plus(rcv, fl.sent), rep)
        BY <1>1, <1>3, <1>4, <1>5 DEF Sound
    <1> QED
        BY <1>6 DEF next

\* A call is confirmed.
LEMMA SoundConfirmed ==
    ASSUME NEW fl, NEW pen, NEW rec, NEW rcv, NEW rep,
           Sound(fl, pen, rec, rcv, rep), fl.counted
    PROVE  Sound(Resting, Minus(pen, fl.sent), rec, rcv, rep)
    <1>1. fl \in FlusherState /\ pen \in Usage /\ rec \in Usage /\ rcv \in Usage /\ rep \in Usage
        BY DEF Sound
    <1>2. fl.sent \in Usage /\ fl.sent.requests <= pen.requests /\ fl.sent.tokens <= pen.tokens
        BY <1>1 DEF FlusherState, Sound
    <1>3. Balance(rec, rep, Nothing, rcv, Minus(pen, fl.sent))
        BY <1>1, <1>2, BalanceConfirmed DEF Sound
    <1>4. Minus(pen, fl.sent) \in Usage
        BY <1>1, <1>2, UsageDifference
    <1> QED
        BY <1>1, <1>3, <1>4, FlusherStates, UsageCounts DEF Sound, FlusherState

\* A call ends, and nobody knows whether it was counted: the flusher goes on or is
\* cancelled.
LEMMA SoundLost ==
    ASSUME NEW fl, NEW pen, NEW rec, NEW rcv, NEW rep, NEW next \in {Resting, Off},
           Sound(fl, pen, rec, rcv, rep)
    PROVE  Sound(next, pen, rec, rcv, IF fl.counted THEN Plus(rep, fl.sent) ELSE rep)
    <1>1. fl \in FlusherState /\ pen \in Usage /\ rec \in Usage /\ rcv \in Usage /\ rep \in Usage
        BY DEF Sound
    <1>2. fl.sent \in Usage
        BY <1>1 DEF FlusherState
    <1>3. CASE fl.counted
        <2>1. Balance(rec, Plus(rep, fl.sent), Nothing, rcv, pen)
            BY <1>1, <1>2, <1>3, BalanceRepeats DEF Sound
        <2>2. Plus(rep, fl.sent) \in Usage
            BY <1>1, <1>2, UsageSums
        <2> QED
            BY <1>1, <1>3, <2>1, <2>2, FlusherStates, UsageCounts DEF Sound, FlusherState
    <1>4. CASE ~fl.counted
        BY <1>1, <1>4, FlusherStates, UsageCounts DEF Sound, FlusherState
    <1> QED
        BY <1>3, <1>4

-----------------------------------------------------------------------------
(* The invariant in three parts: calls, usage, and generations not yet live.  *)

CallsOK ==
    /\ credstone \in {"absent", "exhausted", "healthy"}
    /\ granted \in 0..MaxGrants
    /\ live \in Gens
    /\ healthy \in [Gens -> BOOLEAN]
    /\ poll \in [Gens -> PollStates]
    /\ attempt \in [Attempts -> [pc : AttemptStates, gen : Gens]]
    /\ repeats \in Nat

UsageOK ==
    /\ pending \in [Gens -> Usage]
    /\ flush \in [Gens -> FlusherState]
    /\ recorded \in [Gens -> Usage]
    /\ received \in [Gens -> Usage]
    /\ repeated \in [Gens -> Usage]
    /\ \A g \in Gens :
           Sound(flush[g], pending[g], recorded[g], received[g], repeated[g])

LaterQuiet == \A g \in Gens : g > live => flush[g].pc = "off"

\* The invariant is these three.
LEMMA InvariantParts == SourceInv <=> CallsOK /\ UsageOK /\ LaterQuiet
    <1>1. SourceInv => CallsOK /\ UsageOK /\ LaterQuiet
        BY UsageByGeneration
        DEF SourceInv, SourceTypeOK, FlushWellFormed, CallsOK, UsageOK, LaterQuiet, FlusherState
    <1>2. CallsOK /\ UsageOK /\ LaterQuiet => SourceInv
        BY UsageByGeneration
        DEF SourceInv, SourceTypeOK, FlushWellFormed, CallsOK, UsageOK, LaterQuiet, FlusherState
    <1> QED
        BY <1>1, <1>2

\* A step that changes one generation's usage, and leaves it sound, leaves all of
\* them sound.
LEMMA OneGeneration ==
    ASSUME UsageOK, NEW g \in Gens, NEW fl, NEW pen, NEW rec, NEW rcv, NEW rep,
           Sound(fl, pen, rec, rcv, rep),
           flush' = [flush EXCEPT ![g] = fl], pending' = [pending EXCEPT ![g] = pen],
           recorded' = [recorded EXCEPT ![g] = rec], received' = [received EXCEPT ![g] = rcv],
           repeated' = [repeated EXCEPT ![g] = rep]
    PROVE  UsageOK'
    <1>1. fl \in FlusherState /\ pen \in Usage /\ rec \in Usage /\ rcv \in Usage /\ rep \in Usage
        BY DEF Sound
    <1>2. /\ pending' \in [Gens -> Usage] /\ flush' \in [Gens -> FlusherState]
          /\ recorded' \in [Gens -> Usage] /\ received' \in [Gens -> Usage]
          /\ repeated' \in [Gens -> Usage]
        BY <1>1 DEF UsageOK
    <1>3. ASSUME NEW h \in Gens
          PROVE  Sound(flush'[h], pending'[h], recorded'[h], received'[h], repeated'[h])
        <2>1. CASE h = g
            BY <2>1 DEF UsageOK
        <2>2. CASE h # g
            BY <2>2 DEF UsageOK
        <2> QED
            BY <2>1, <2>2
    <1> QED
        BY <1>2, <1>3 DEF UsageOK

\* A step that leaves a variable alone sets it to what it was.
LEMMA Same ==
    ASSUME UsageOK, NEW g \in Gens
    PROVE  /\ flush = [flush EXCEPT ![g] = flush[g]]
           /\ pending = [pending EXCEPT ![g] = pending[g]]
           /\ recorded = [recorded EXCEPT ![g] = recorded[g]]
           /\ received = [received EXCEPT ![g] = received[g]]
           /\ repeated = [repeated EXCEPT ![g] = repeated[g]]
    BY DEF UsageOK

\* A step that does not touch usage, nor the generations, keeps the rest.
LEMMA UsageUntouched ==
    ASSUME UsageOK, LaterQuiet, UNCHANGED <<usage, live>>
    PROVE  UsageOK' /\ LaterQuiet'
    BY DEF UsageOK, LaterQuiet, usage

\* What an attempt adds, in whatever generation.
LEMMA AddsInvariant ==
    ASSUME UsageOK, LaterQuiet, NEW g \in Gens, NEW u \in Usage,
           Adds(g, u), UNCHANGED <<flush, received, repeated, live>>
    PROVE  UsageOK' /\ LaterQuiet'
    <1> DEFINE fl == flush[g]
               pen == Plus(pending[g], u)
               rec == Plus(recorded[g], u)
               rcv == received[g]
               rep == repeated[g]
    <1>1. Sound(fl, pen, rec, rcv, rep)
        BY SoundRecords DEF UsageOK
    <1>2. /\ flush' = [flush EXCEPT ![g] = fl]
          /\ received' = [received EXCEPT ![g] = rcv]
          /\ repeated' = [repeated EXCEPT ![g] = rep]
        BY Same
    <1>3. pending' = [pending EXCEPT ![g] = pen] /\ recorded' = [recorded EXCEPT ![g] = rec]
        BY DEF Adds
    <1> HIDE DEF fl, pen, rec, rcv, rep
    <1>4. UsageOK'
        BY <1>1, <1>2, <1>3, OneGeneration
    <1> QED
        BY <1>4 DEF LaterQuiet

\* A step of one flusher that leaves its usage sound and does not start it.
LEMMA FlusherInvariant ==
    ASSUME CallsOK, UsageOK, LaterQuiet, NEW g \in Gens, NEW fl, NEW pen, NEW rcv,
           Sound(fl, pen, recorded[g], rcv, repeated[g]),
           g > live => fl.pc = "off",
           flush' = [flush EXCEPT ![g] = fl], pending' = [pending EXCEPT ![g] = pen],
           received' = [received EXCEPT ![g] = rcv],
           UNCHANGED <<calls, live, healthy, poll, recorded, repeated, repeats>>
    PROVE  CallsOK' /\ UsageOK' /\ LaterQuiet'
    <1>1. /\ recorded' = [recorded EXCEPT ![g] = recorded[g]]
          /\ repeated' = [repeated EXCEPT ![g] = repeated[g]]
        BY Same
    <1>2. UsageOK'
        BY <1>1, OneGeneration
    <1>3. LaterQuiet'
        BY DEF LaterQuiet, UsageOK
    <1>4. CallsOK'
        BY DEF CallsOK, AttemptStates, calls
    <1> QED
        BY <1>2, <1>3, <1>4

-----------------------------------------------------------------------------
\* Every step of an attempt keeps the invariant.
LEMMA AttemptInvariant ==
    ASSUME CallsOK, UsageOK, LaterQuiet, NEW a \in Attempts, Attempt(a)
    PROVE  CallsOK' /\ UsageOK' /\ LaterQuiet'
    <1>1. Idle \in [pc : AttemptStates, gen : Gens]
        BY MaxGenAssumption DEF Idle, Gens, AttemptStates
    <1>2. CASE Asks(a)
        <2>1. UsageOK' /\ LaterQuiet'
            BY <1>2, UsageUntouched DEF Asks
        <2>2. CallsOK'
            BY <1>2 DEF CallsOK, AttemptStates, Asks, usage
        <2> QED
            BY <2>1, <2>2
    <1>3. CASE Granted(a)
        <2>1. UsageOK' /\ LaterQuiet'
            BY <1>3, UsageUntouched DEF Granted
        <2>2. granted' \in 0..MaxGrants
            BY <1>3, BoundsAssumption DEF CallsOK, AttemptStates, Granted
        <2>3. CallsOK'
            BY <1>3, <2>2 DEF CallsOK, AttemptStates, Granted, usage
        <2> QED
            BY <2>1, <2>3
    <1>4. CASE Refused(a)
        <2>1. UsageOK' /\ LaterQuiet'
            BY <1>4, UsageUntouched DEF Refused
        <2>2. CallsOK'
            BY <1>1, <1>4 DEF CallsOK, AttemptStates, Refused, usage
        <2> QED
            BY <2>1, <2>2
    <1>5. CASE Reports(a)
        <2>1. UsageOK' /\ LaterQuiet'
            BY <1>5, AddsInvariant, UsageSums DEF Reports, CallsOK
        <2>2. CallsOK'
            BY <1>1, <1>5 DEF CallsOK, AttemptStates, Reports
        <2> QED
            BY <2>1, <2>2
    <1>6. CASE CountsTokens(a)
        <2>1. 1 \in Gens
            BY MaxGenAssumption DEF Gens
        <2>2. UsageOK' /\ LaterQuiet'
            BY <1>6, <2>1, AddsInvariant, UsageSums DEF CountsTokens
        <2>3. CallsOK'
            BY <1>1, <1>6 DEF CallsOK, AttemptStates, CountsTokens
        <2> QED
            BY <2>2, <2>3
    <1> QED
        BY <1>2, <1>3, <1>4, <1>5, <1>6 DEF Attempt

\* Polling touches no usage.
LEMMA PollerInvariant ==
    ASSUME CallsOK, UsageOK, LaterQuiet, NEW g \in Gens, Poller(g)
    PROVE  CallsOK' /\ UsageOK' /\ LaterQuiet'
    <1>1. UsageOK' /\ LaterQuiet'
        BY UsageUntouched DEF Poller, PollBegins, PollReaches, PollAnswered, PollFails
    <1>2. UNCHANGED <<credstone, granted, attempt, live, repeats>>
        BY DEF calls, usage, Poller, PollBegins, PollReaches, PollAnswered, PollFails
    <1>3. CASE PollBegins(g)
        BY <1>1, <1>2, <1>3 DEF CallsOK, AttemptStates, PollStates, PollBegins
    <1>4. CASE PollReaches(g)
        BY <1>1, <1>2, <1>4 DEF CallsOK, AttemptStates, PollStates, PollReaches
    <1>5. CASE PollAnswered(g)
        <2>1. (poll[g] = "healthy") \in BOOLEAN
            OBVIOUS
        <2> QED
            BY <1>1, <1>2, <1>5, <2>1 DEF CallsOK, AttemptStates, PollStates, PollAnswered
    <1>6. CASE PollFails(g)
        BY <1>1, <1>2, <1>6 DEF CallsOK, AttemptStates, PollStates, PollFails
    <1> QED
        BY <1>3, <1>4, <1>5, <1>6 DEF Poller

\* What becomes of the usage when a call ends without an answer.
LEMMA LostUsage ==
    ASSUME UsageOK, repeats \in Nat, NEW g \in Gens, AnswerLost(g)
    PROVE  /\ repeats' \in Nat
           /\ repeated' = [repeated EXCEPT ![g] =
                               IF flush[g].counted THEN Plus(repeated[g], flush[g].sent)
                               ELSE repeated[g]]
    BY Same DEF AnswerLost

\* Every step of a flusher keeps the invariant.
LEMMA FlusherStepInvariant ==
    ASSUME CallsOK, UsageOK, LaterQuiet, NEW g \in Gens, Flusher(g)
    PROVE  CallsOK' /\ UsageOK' /\ LaterQuiet'
    <1>1. Sound(flush[g], pending[g], recorded[g], received[g], repeated[g])
        BY DEF UsageOK
    <1>2. flush[g].pc # "off" => ~(g > live)
        BY DEF LaterQuiet
    <1>3. CASE FlushBegins(g)
        <2> DEFINE fl == [pc |-> "sending", sent |-> pending[g], counted |-> FALSE]
        <2>1. Sound(fl, pending[g], recorded[g], received[g], repeated[g])
            BY <1>1, <1>3, SoundBegins DEF FlushBegins
        <2>2. ~(g > live) /\ flush' = [flush EXCEPT ![g] = fl]
            BY <1>2, <1>3 DEF FlushBegins
        <2>3. UNCHANGED <<calls, live, healthy, poll, recorded, repeated, repeats>>
            BY <1>3 DEF FlushBegins
        <2>4. /\ pending' = [pending EXCEPT ![g] = pending[g]]
              /\ received' = [received EXCEPT ![g] = received[g]]
            BY <1>3, Same DEF FlushBegins
        <2> HIDE DEF fl
        <2> QED
            BY <2>1, <2>2, <2>3, <2>4, FlusherInvariant
    <1>4. CASE FlushReaches(g)
        <2> DEFINE fl == [flush[g] EXCEPT !.counted = TRUE]
                   rcv == Plus(received[g], flush[g].sent)
        <2>1. Sound(fl, pending[g], recorded[g], rcv, repeated[g])
            BY <1>1, <1>4, SoundReaches DEF FlushReaches
        <2>2. /\ ~(g > live) /\ flush' = [flush EXCEPT ![g] = fl]
              /\ received' = [received EXCEPT ![g] = rcv]
            BY <1>2, <1>4 DEF FlushReaches
        <2>3. UNCHANGED <<calls, live, healthy, poll, recorded, repeated, repeats>>
            BY <1>4 DEF FlushReaches
        <2>4. pending' = [pending EXCEPT ![g] = pending[g]]
            BY <1>4, Same DEF FlushReaches
        <2> HIDE DEF fl, rcv
        <2> QED
            BY <2>1, <2>2, <2>3, <2>4, FlusherInvariant
    <1>5. CASE FlushConfirmed(g)
        <2> DEFINE pen == Minus(pending[g], flush[g].sent)
        <2>1. Sound(Resting, pen, recorded[g], received[g], repeated[g])
            BY <1>1, <1>5, SoundConfirmed DEF FlushConfirmed
        <2>2. ~(g > live) /\ pending' = [pending EXCEPT ![g] = pen]
            BY <1>2, <1>5 DEF FlushConfirmed
        <2>3. /\ flush' = [flush EXCEPT ![g] = Resting]
              /\ UNCHANGED <<calls, live, healthy, poll, recorded, repeated, repeats>>
            BY <1>5 DEF FlushConfirmed
        <2>4. received' = [received EXCEPT ![g] = received[g]]
            BY <1>5, Same DEF FlushConfirmed
        <2> HIDE DEF pen
        <2> QED
            BY <2>1, <2>2, <2>3, <2>4, FlusherInvariant
    <1>6. CASE FlushFails(g)
        <2> DEFINE rep == IF flush[g].counted THEN Plus(repeated[g], flush[g].sent)
                          ELSE repeated[g]
        <2>1. Sound(Resting, pending[g], recorded[g], received[g], rep)
            BY <1>1, SoundLost
        <2>2. repeats' \in Nat /\ repeated' = [repeated EXCEPT ![g] = rep]
            BY <1>6, LostUsage DEF FlushFails, CallsOK
        <2> HIDE DEF rep
        <2>3. /\ flush' = [flush EXCEPT ![g] = Resting]
              /\ pending' = [pending EXCEPT ![g] = pending[g]]
              /\ recorded' = [recorded EXCEPT ![g] = recorded[g]]
              /\ received' = [received EXCEPT ![g] = received[g]]
            BY <1>6, Same DEF FlushFails
        <2>4. UsageOK'
            BY <2>1, <2>2, <2>3, OneGeneration
        <2>5. LaterQuiet'
            BY <1>2, <1>6 DEF FlushFails, LaterQuiet, UsageOK
        <2>6. CallsOK'
            BY <1>6, <2>2 DEF FlushFails, CallsOK, calls
        <2> QED
            BY <2>4, <2>5, <2>6
    <1> QED
        BY <1>3, <1>4, <1>5, <1>6 DEF Flusher

\* A reload keeps the invariant: the last generation's call is lost, if there is
\* one, and the next generation's flusher starts.
LEMMA ReloadInvariant ==
    ASSUME CallsOK, UsageOK, LaterQuiet, Reload
    PROVE  CallsOK' /\ UsageOK' /\ LaterQuiet'
    <1>1. live \in Gens /\ live + 1 \in Gens /\ live' = live + 1
        BY MaxGenAssumption DEF CallsOK, AttemptStates, Reload, Gens
    <1>2. /\ repeats' \in Nat
          /\ repeated' = [repeated EXCEPT ![live] =
                              IF flush[live].counted THEN Plus(repeated[live], flush[live].sent)
                              ELSE repeated[live]]
        BY <1>1, LostUsage DEF Reload, CallsOK
    <1>3. CallsOK'
        BY <1>1, <1>2 DEF CallsOK, AttemptStates, PollStates, calls, Reload
    <1> DEFINE rep == IF flush[live].counted THEN Plus(repeated[live], flush[live].sent)
                      ELSE repeated[live]
    <1>4. Sound(Off, pending[live], recorded[live], received[live], rep)
        BY <1>1, SoundLost DEF UsageOK
    <1>5. Sound(Resting, pending[live + 1], recorded[live + 1], received[live + 1],
                repeated[live + 1])
        <2>1. Sound(flush[live + 1], pending[live + 1], recorded[live + 1], received[live + 1],
                    repeated[live + 1])
            BY <1>1 DEF UsageOK
        <2>2. ~flush[live + 1].counted
            <3>1. live + 1 > live
                BY <1>1 DEF Gens
            <3>2. flush[live + 1].pc = "off"
                BY <1>1, <3>1 DEF LaterQuiet
            <3> QED
                BY <2>1, <3>2 DEF Sound
        <2> QED
            BY <2>1, <2>2, SoundLost
    <1>6. /\ flush' = [flush EXCEPT ![live] = Off, ![live + 1] = Resting]
          /\ pending' = pending /\ recorded' = recorded /\ received' = received
          /\ repeated' = [repeated EXCEPT ![live] = rep]
        BY <1>2 DEF Reload
    <1>7. rep \in Usage
        BY <1>4 DEF Sound
    <1>8. UsageOK'
        <2> HIDE DEF rep
        <2>1. /\ pending' \in [Gens -> Usage] /\ flush' \in [Gens -> FlusherState]
              /\ recorded' \in [Gens -> Usage] /\ received' \in [Gens -> Usage]
              /\ repeated' \in [Gens -> Usage]
            BY <1>6, <1>7, FlusherStates DEF UsageOK, FlusherState
        <2>2. ASSUME NEW g \in Gens
              PROVE  Sound(flush'[g], pending'[g], recorded'[g], received'[g], repeated'[g])
            <3>1. CASE g = live
                <4>1. live # live + 1
                    BY <1>1 DEF Gens
                <4> QED
                    BY <1>1, <1>4, <1>6, <3>1, <4>1 DEF UsageOK
            <3>2. CASE g = live + 1
                <4>1. live # live + 1
                    BY <1>1 DEF Gens
                <4> QED
                    BY <1>1, <1>5, <1>6, <3>2, <4>1 DEF UsageOK
            <3>3. CASE g # live /\ g # live + 1
                BY <1>6, <3>3 DEF UsageOK
            <3> QED
                BY <3>1, <3>2, <3>3
        <2> QED
            BY <2>1, <2>2 DEF UsageOK
    <1>9. LaterQuiet'
        <2> SUFFICES ASSUME NEW g \in Gens, g > live + 1
                     PROVE  flush'[g].pc = "off"
            BY <1>1 DEF LaterQuiet
        <2>1. g > live /\ g # live /\ g # live + 1
            BY <1>1 DEF Gens
        <2> QED
            BY <1>6, <2>1 DEF LaterQuiet, UsageOK
    <1> QED
        BY <1>3, <1>8, <1>9

\* Every step keeps the invariant.
LEMMA StepInvariant == SourceInv /\ [SourceNext]_sourceVars => SourceInv'
    <1> SUFFICES ASSUME SourceInv, [SourceNext]_sourceVars
                 PROVE  CallsOK' /\ UsageOK' /\ LaterQuiet'
        BY InvariantParts, PTL
    <1>1. CallsOK /\ UsageOK /\ LaterQuiet
        BY InvariantParts
    <1>2. CASE \E a \in Attempts : Attempt(a)
        BY <1>1, <1>2, AttemptInvariant
    <1>3. CASE \E g \in Gens : Poller(g) \/ Flusher(g)
        BY <1>1, <1>3, PollerInvariant, FlusherStepInvariant
    <1>4. CASE StatusChanges
        <2>1. UsageOK' /\ LaterQuiet'
            BY <1>1, <1>4, UsageUntouched DEF StatusChanges
        <2>2. CallsOK'
            BY <1>1, <1>4 DEF StatusChanges, CallsOK, usage
        <2> QED
            BY <2>1, <2>2
    <1>5. CASE Reload
        BY <1>1, <1>5, ReloadInvariant
    <1>6. CASE UNCHANGED sourceVars
        <2>1. UsageOK' /\ LaterQuiet'
            BY <1>1, <1>6, UsageUntouched DEF sourceVars
        <2>2. CallsOK'
            BY <1>1, <1>6 DEF sourceVars, calls, usage, CallsOK
        <2> QED
            BY <2>1, <2>2
    <1> QED
        BY <1>2, <1>3, <1>4, <1>5, <1>6 DEF SourceNext

-----------------------------------------------------------------------------
\* The inductive invariant holds in every reachable state.
THEOREM SourceInvariant == SourceSpec => []SourceInv
    <1> QED
        BY InitInvariant, StepInvariant, PTL DEF SourceSpec

\* Type correctness: no delta ever goes below zero, however calls, losses and
\* reloads interleave.
THEOREM SourceTypeCorrect == SourceSpec => []SourceTypeOK
    <1>1. SourceInv => SourceTypeOK
        BY DEF SourceInv
    <1> QED
        BY <1>1, SourceInvariant, PTL

\* What credstone has counted and what is still pending make up what was
\* recorded, save what was counted twice because an answer was lost: flush
\* neither loses nor invents usage, whatever is added while its call is out.
THEOREM UsageAlwaysExact == SourceSpec => []UsageExact
    <1>1. SourceInv => UsageExact
        BY DEF SourceInv
    <1> QED
        BY <1>1, SourceInvariant, PTL
=============================================================================
