--------------------------- MODULE CredPoolProofs ---------------------------
(***************************************************************************)
(* Theorems about CredPool for every number of credentials and attempts    *)
(* and every configuration PoolAssumption admits.                          *)
(***************************************************************************)
EXTENDS CredPool, FiniteSetTheorems, WellFoundedInduction, TLAPS

\* Every non-empty set of naturals has a least element.
LEMMA LeastNatural ==
    ASSUME NEW R \in SUBSET Nat, R # {}
    PROVE  \E n \in R : \A m \in R : n <= m
<1> DEFINE Lt == OpToRel(<, Nat)
<1>1. IsWellFoundedOn(Lt, Nat)
  BY NatLessThanWellFounded
<1> HIDE DEF Lt
<1>2. PICK n \in R : \A m \in R : <<m, n>> \notin Lt
  BY <1>1, WFMin
<1>3. \A m \in R : ~(m < n)
  BY <1>2 DEF Lt, OpToRel
<1> QED
  BY <1>3

\* A non-empty set of keys has one with the least rank.
LEMMA LeastExists ==
    ASSUME NEW S, S # {}, NEW rank \in [S -> Nat]
    PROVE  \E c \in S : \A d \in S : rank[c] <= rank[d]
<1> DEFINE R == {rank[c] : c \in S}
<1>1. R \in SUBSET Nat /\ R # {}
  OBVIOUS
<1>2. PICK n \in R : \A m \in R : n <= m
  BY <1>1, LeastNatural
<1> QED
  BY <1>2

\* Min of a non-empty set of credentials is one of them.
LEMMA MinIsMember ==
    ASSUME NEW S, S \subseteq Nat, S # {}
    PROVE  Min(S) \in S
<1>1. PICK n \in S : \A m \in S : n <= m
  BY LeastNatural
<1> QED
  BY <1>1 DEF Min

LEMMA RotationType == Rotation \in Nat \ {0} /\ N \in Nat \ {0} /\ Batch \in Nat \ {0}
BY PoolAssumption, SMT DEF Rotation

\* Whatever the strategy, the credential picked is one of the candidates.
LEMMA SelectByCriteriaPicksCandidate ==
    ASSUME NEW S \in SUBSET Creds, S # {}, NEW n \in Int,
           inFlight \in [Creds -> Nat]
    PROVE  SelectByCriteria(S, n) \in S
<1>1. S \subseteq Nat
  BY PoolAssumption DEF Creds
<1>2. FirstListed(S) \in S
  BY <1>1, MinIsMember DEF FirstListed
<1>3. LeastRequests(S) \in S
  <2> DEFINE L == {c \in S : \A d \in S : inFlight[c] <= inFlight[d]}
  <2> DEFINE rank == [c \in S |-> inFlight[c]]
  <2>1. rank \in [S -> Nat]
    OBVIOUS
  <2>2. PICK c \in S : \A d \in S : rank[c] <= rank[d]
    <3> HIDE DEF rank
    <3> QED
      BY <2>1, LeastExists
  <2>3. Min(L) \in L
    <3>1. c \in L
      BY <2>2
    <3> QED
      BY <1>1, <3>1, MinIsMember
  <2> QED
    BY <2>3 DEF LeastRequests
<1>4. RoundRobin(S, n) \in S
  <2> DEFINE rank == [c \in S |-> TurnOffset(c, n)]
  <2>1. rank \in [S -> Nat]
    <3>1. n \div Batch \in Int
      BY RotationType
    <3> SUFFICES ASSUME NEW c \in S PROVE TurnOffset(c, n) \in Nat
      OBVIOUS
    <3>2. c - 1 - (n \div Batch) \in Int
      BY <1>1, <3>1
    <3> QED
      BY <3>2, RotationType DEF TurnOffset
  <2>2. \E c \in S : \A d \in S : rank[c] <= rank[d]
    <3> HIDE DEF rank
    <3> QED
      BY <2>1, LeastExists
  <2>3. \E c \in S : \A d \in S : TurnOffset(c, n) <= TurnOffset(d, n)
    BY <2>2
  <2> QED
    BY <2>3 DEF RoundRobin
<1> QED
  BY <1>2, <1>3, <1>4 DEF SelectByCriteria

-----------------------------------------------------------------------------
(* Counting the slots in use.                                              *)

\* Load is a natural number, and a credential someone holds has a load.
LEMMA LoadType ==
    ASSUME NEW c
    PROVE  /\ IsFiniteSet(Occupied(c))
           /\ Cardinality(Occupied(c)) \in Nat
           /\ Load(c) \in Nat
           /\ Load(c) = 0 => Occupied(c) = {} /\ ~Probing(c)
<1>1. IsFiniteSet(Occupied(c))
  BY PoolAssumption, FS_Subset DEF Occupied
<1>2. /\ Cardinality(Occupied(c)) \in Nat
      /\ Cardinality(Occupied(c)) = 0 <=> Occupied(c) = {}
  BY <1>1, FS_CardinalityType, FS_EmptySet
<1> QED
  BY <1>1, <1>2 DEF Load

\* Steps that move neither an attempt nor the prober change no load.
LEMMA LoadSame ==
    ASSUME NEW c, UNCHANGED <<attempt, prober>>
    PROVE  Load(c)' = Load(c)
BY DEF Load, Occupied, Probing

Occupies(p) == p \in {"fetching", "holding"}

\* An attempt moves within, or outside, the phases that hold a slot.
LEMMA AttemptMoves ==
    ASSUME attempt \in [Attempts -> [pc : Phases, cred : Creds \cup {0}]],
           NEW a \in Attempts, NEW p \in Phases, NEW e \in Creds \cup {0},
           attempt' = [attempt EXCEPT ![a] = [pc |-> p, cred |-> e]],
           Occupies(p) <=> Occupies(attempt[a].pc),
           Occupies(p) => e = attempt[a].cred,
           prober'.lifted \cup prober'.plans = prober.lifted \cup prober.plans,
           NEW c
    PROVE  Load(c)' = Load(c)
<1>1. Occupied(c)' = Occupied(c)
  BY DEF Occupied, Occupies
<1>2. Probing(c)' = Probing(c)
  BY DEF Probing
<1> QED
  BY <1>1, <1>2 DEF Load

\* An attempt takes a slot on e.
LEMMA AttemptEnters ==
    ASSUME attempt \in [Attempts -> [pc : Phases, cred : Creds \cup {0}]],
           NEW a \in Attempts, NEW e \in Creds,
           attempt' = [attempt EXCEPT ![a] = [pc |-> "fetching", cred |-> e]],
           ~Occupies(attempt[a].pc), prober' = prober,
           NEW c
    PROVE  Load(c)' = IF c = e THEN Load(c) + 1 ELSE Load(c)
<1>1. Probing(c)' = Probing(c)
  BY DEF Probing
<1>2. CASE c = e
  <2>1. Occupied(c)' = Occupied(c) \cup {a} /\ a \notin Occupied(c)
    BY <1>2 DEF Occupied, Occupies
  <2>2. Cardinality(Occupied(c) \cup {a}) = Cardinality(Occupied(c)) + 1
    BY <2>1, LoadType, FS_AddElement
  <2>3. Cardinality(Occupied(c))' = Cardinality(Occupied(c)) + 1
    BY <2>1, <2>2
  <2> QED
    BY <1>1, <1>2, <2>3, LoadType DEF Load
<1>3. CASE c # e
  <2>1. Occupied(c)' = Occupied(c)
    BY <1>3 DEF Occupied, Occupies
  <2> QED
    BY <1>1, <1>3, <2>1 DEF Load
<1> QED
  BY <1>2, <1>3

\* An attempt gives its slot back, whatever it does next.
LEMMA AttemptLeaves ==
    ASSUME attempt \in [Attempts -> [pc : Phases, cred : Creds \cup {0}]],
           NEW a \in Attempts, NEW r \in [pc : Phases, cred : Creds \cup {0}],
           attempt' = [attempt EXCEPT ![a] = r],
           Occupies(attempt[a].pc), ~Occupies(r.pc), prober' = prober,
           NEW c
    PROVE  /\ Load(attempt[a].cred) > 0
           /\ Load(c)' = IF c = attempt[a].cred THEN Load(c) - 1 ELSE Load(c)
<1>1. Probing(c)' = Probing(c)
  BY DEF Probing
<1>2. a \in Occupied(attempt[a].cred)
  BY DEF Occupied, Occupies
<1>3. Load(attempt[a].cred) > 0
  BY <1>2, LoadType
<1>4. CASE c = attempt[a].cred
  <2>1. Occupied(c)' = Occupied(c) \ {a} /\ a \in Occupied(c)
    BY <1>2, <1>4 DEF Occupied, Occupies
  <2>2. Cardinality(Occupied(c) \ {a}) = Cardinality(Occupied(c)) - 1
    BY <2>1, LoadType, FS_RemoveElement
  <2>3. Cardinality(Occupied(c))' = Cardinality(Occupied(c)) - 1
    BY <2>1, <2>2
  <2> QED
    BY <1>1, <1>3, <1>4, <2>3, LoadType DEF Load
<1>5. CASE c # attempt[a].cred
  <2>1. Occupied(c)' = Occupied(c)
    BY <1>5 DEF Occupied, Occupies
  <2> QED
    BY <1>1, <1>3, <1>5, <2>1 DEF Load
<1> QED
  BY <1>4, <1>5

\* ProberAfter keeps the work it is given and a phase that matches it.
LEMMA ProberAfterWork ==
    ASSUME NEW phase \in {"fetching", "probing"},
           NEW lifted \in SUBSET Creds, NEW plans \in SUBSET Creds,
           NEW success \in BOOLEAN, lifted \cap plans = {},
           prober' = ProberAfter(phase, lifted, plans, success)
    PROVE  /\ prober' \in [phase : ProberPhases, lifted : SUBSET Creds,
                           plans : SUBSET Creds, success : BOOLEAN]
           /\ prober'.lifted = lifted
           /\ prober'.plans = plans
           /\ ProberWellFormed'
BY DEF ProberAfter, RestingProber, ProberPhases, ProberWellFormed

-----------------------------------------------------------------------------
(* What the helpers return.                                                *)

HealthTypeOK ==
    /\ state \in [Creds -> CredStates]
    /\ failures \in [Creds -> 0 .. Threshold]
    /\ rateLimitFailures \in [Creds -> 0 .. Len(Tiers)]
    /\ coolLeft \in [Creds -> Int]

WindowsTypeOK ==
    /\ requests \in [Creds -> [Ages -> Int]]
    /\ tokens \in [Creds -> [Ages -> Int]]

\* The sliding windows stay windows.
LEMMA WindowTypes ==
    /\ EmptyWindow \in [Ages -> Int]
    /\ \A w \in [Ages -> Int] :
        /\ Pruned(w) \in [Ages -> Int]
        /\ \A n, limit \in Int : Added(w, n, limit) \in [Ages -> Int]
        /\ \A limit \in Int : Aged(w, limit) \in [Ages -> Int]
<1>1. 0 \in Ages /\ Window + 1 \in Ages /\ Window \in Nat
  BY PoolAssumption DEF Ages
<1>2. \A n, limit \in Int : Capped(n, limit) \in Int
  BY DEF Capped
<1>3. EmptyWindow \in [Ages -> Int]
  BY DEF EmptyWindow
<1>4. ASSUME NEW w \in [Ages -> Int]
      PROVE  /\ Pruned(w) \in [Ages -> Int]
             /\ \A n, limit \in Int : Added(w, n, limit) \in [Ages -> Int]
             /\ \A limit \in Int : Aged(w, limit) \in [Ages -> Int]
  <2>1. Pruned(w) \in [Ages -> Int]
    BY <1>1 DEF Pruned
  <2>2. ASSUME NEW n \in Int, NEW limit \in Int
        PROVE  Added(w, n, limit) \in [Ages -> Int]
    <3>1. Capped(w[0] + n, limit) \in Int
      BY <1>1, <1>2
    <3> QED
      BY <3>1 DEF Added
  <2>3. ASSUME NEW limit \in Int
        PROVE  Aged(w, limit) \in [Ages -> Int]
    <3>1. ASSUME NEW age \in Ages
          PROVE  (IF age = 0 THEN 0
                  ELSE IF age <= Window THEN w[age - 1]
                  ELSE Capped(w[age] + w[age - 1], limit)) \in Int
      <4>1. age \in Nat /\ (age # 0 => age - 1 \in Ages)
        BY <1>1 DEF Ages
      <4>2. age # 0 => w[age - 1] \in Int /\ w[age] \in Int
        BY <4>1
      <4>3. age # 0 => w[age] + w[age - 1] \in Int
        BY <4>2
      <4>4. age # 0 => Capped(w[age] + w[age - 1], limit) \in Int
        BY <1>2, <4>3
      <4> QED
        BY <4>2, <4>4
    <3> QED
      BY <3>1 DEF Aged
  <2> QED
    BY <2>1, <2>2, <2>3
<1> QED
  BY <1>3, <1>4

BindingTypeOK == binding \in [Sessions -> [cred : Creds \cup {0}, idle : Nat]]

\* Sticky bindings stay bindings whatever is looked up, set or pruned.
LEMMA BindingTypes ==
    ASSUME BindingTypeOK, NEW s
    PROVE  /\ AfterGet(s) \in [Sessions -> [cred : Creds \cup {0}, idle : Nat]]
           /\ \A c \in Creds :
                SetBinding(AfterGet(s), s, c)
                    \in [Sessions -> [cred : Creds \cup {0}, idle : Nat]]
<1> DEFINE T == [cred : Creds \cup {0}, idle : Nat]
<1>1. NoBinding \in T
  BY DEF NoBinding
<1>2. AfterGet(s) \in [Sessions -> T]
  BY <1>1 DEF AfterGet, GetBinding, BindingTypeOK
<1>3. ASSUME NEW m \in [Sessions -> T] PROVE PrunedBindings(m) \in [Sessions -> T]
  BY <1>1, <1>3 DEF PrunedBindings
<1>4. ASSUME NEW m \in [Sessions -> T], NEW c \in Creds
      PROVE  SetBinding(m, s, c) \in [Sessions -> T]
  <2>1. [cred |-> c, idle |-> 0] \in T
    OBVIOUS
  <2>2. [m EXCEPT ![s] = [cred |-> c, idle |-> 0]] \in [Sessions -> T]
    BY <2>1
  <2>3. PrunedBindings([m EXCEPT ![s] = [cred |-> c, idle |-> 0]]) \in [Sessions -> T]
    BY <2>2, <1>3
  <2> QED
    BY <2>3 DEF SetBinding
<1> QED
  BY <1>2, <1>4

\* The counter stays inside one rotation.
LEMMA CounterType ==
    ASSUME counter \in 0 .. Rotation - 1, NEW n \in Nat
    PROVE  CounterAfter(n) \in 0 .. Rotation - 1
<1>1. (counter + n) % Rotation \in 0 .. Rotation - 1
  BY RotationType
<1> QED
  BY <1>1 DEF CounterAfter

\* Select chooses one of its candidates, and these are credentials.
LEMMA ChosenIsCandidate ==
    ASSUME NEW s, Candidates(s) # {}, counter \in 0 .. Rotation - 1,
           inFlight \in [Creds -> Nat]
    PROVE  Chosen(s) \in Candidates(s) /\ Chosen(s) \in Creds
<1>1. Candidates(s) \in SUBSET Creds
  BY DEF Candidates, StickyChoice, FirstPass, Backstop
<1>2. Passes(s) \in Nat
  BY DEF Passes
<1>3. (counter + Passes(s) - 1) % Rotation \in Int
  BY <1>2, RotationType
<1>4. Chosen(s) \in Candidates(s)
  BY <1>1, <1>3, SelectByCriteriaPicksCandidate DEF Chosen
<1> QED
  BY <1>1, <1>4

\* A 429 parks for one of the tiers.
LEMMA BackoffType ==
    ASSUME NEW n \in Nat
    PROVE  RateLimitBackoff(n) \in Nat
<1>1. Tiers \in Seq(Nat) /\ Tiers # <<>>
  BY PoolAssumption
<1>2. Len(Tiers) \in Nat \ {0}
  BY <1>1
<1> QED
  BY <1>1, <1>2 DEF RateLimitBackoff

LEMMA BumpType ==
    ASSUME NEW limit \in Nat, NEW n \in 0 .. limit
    PROVE  Bump(n, limit) \in 0 .. limit
BY DEF Bump

\* Failure bookkeeping keeps the types of the health fields.
LEMMA CountFailureType ==
    ASSUME HealthTypeOK, NEW c \in Creds, CountFailure(c)
    PROVE  HealthTypeOK'
<1>1. Threshold \in Nat /\ Cooldown \in Int
  BY PoolAssumption
<1>2. Bump(failures[c], Threshold) \in 0 .. Threshold
  BY <1>1, BumpType DEF HealthTypeOK
<1>3. failures' \in [Creds -> 0 .. Threshold]
  BY <1>2 DEF HealthTypeOK, CountFailure
<1>4. state' \in [Creds -> CredStates] /\ coolLeft' \in [Creds -> Int]
  BY <1>1 DEF HealthTypeOK, CountFailure, CredStates
<1> QED
  BY <1>3, <1>4 DEF HealthTypeOK, CountFailure

\* So does parking a credential, for a known time.
LEMMA ParkType ==
    ASSUME HealthTypeOK, NEW c \in Creds, NEW ticks \in Int, Park(c, ticks)
    PROVE  state' \in [Creds -> CredStates] /\ coolLeft' \in [Creds -> Int]
BY DEF HealthTypeOK, Park, CredStates

\* The outcome of an attempt or of a probe keeps the types and gives back
\* exactly the slot it is for, if one is counted.
LEMMA SettleType ==
    ASSUME HealthTypeOK, inFlight \in [Creds -> Nat], NEW c \in Creds,
           inFlight[c] > 0, NEW o, o.retryAfter \in Nat, Settle(c, o)
    PROVE  /\ HealthTypeOK'
           /\ inFlight' \in [Creds -> Nat]
           /\ inFlight' = [inFlight EXCEPT ![c] = @ - 1]
<1>1. /\ inFlight' \in [Creds -> Nat]
      /\ inFlight' = [inFlight EXCEPT ![c] = @ - 1]
  BY DEF Settle
<1> SUFFICES HealthTypeOK'
  BY <1>1
<1>2. Len(Tiers) \in Nat /\ OverloadPark \in Nat
  BY PoolAssumption
<1>3. CASE UNCHANGED health
  BY <1>3 DEF HealthTypeOK, health
<1>4. CASE RateLimited(c, o.retryAfter)
  <2>1. rateLimitFailures[c] \in Nat /\ rateLimitFailures[c] \in 0 .. Len(Tiers)
    BY <1>2 DEF HealthTypeOK
  <2>2. RateLimitBackoff(rateLimitFailures[c]) \in Nat
    BY <1>2, <2>1, BackoffType
  <2>3. state' \in [Creds -> CredStates] /\ coolLeft' \in [Creds -> Int]
    BY <1>4, <2>2, ParkType DEF RateLimited
  <2>4. Bump(rateLimitFailures[c], Len(Tiers)) \in 0 .. Len(Tiers)
    BY <1>2, <2>1, BumpType
  <2>5. rateLimitFailures' \in [Creds -> 0 .. Len(Tiers)]
    BY <1>4, <2>4 DEF RateLimited, HealthTypeOK
  <2> QED
    BY <1>4, <2>3, <2>5 DEF HealthTypeOK, RateLimited
<1>5. CASE Overloaded(c, o.retryAfter)
  <2>1. state' \in [Creds -> CredStates] /\ coolLeft' \in [Creds -> Int]
    BY <1>2, <1>5, ParkType DEF Overloaded
  <2> QED
    BY <1>5, <2>1 DEF HealthTypeOK, Overloaded
<1>6. CASE CountFailure(c)
  BY <1>6, CountFailureType
<1>7. CASE NoError(c)
  BY <1>2, <1>7, PoolAssumption DEF HealthTypeOK, NoError
<1> QED
  BY <1>1, <1>3, <1>4, <1>5, <1>6, <1>7 DEF Settle

\* The prober's part of the load.
LEMMA ProberMoves ==
    ASSUME attempt' = attempt, NEW c
    PROVE  /\ (Probing(c)' <=> Probing(c)) => Load(c)' = Load(c)
           /\ Probing(c)' /\ ~Probing(c) => Load(c)' = Load(c) + 1
           /\ ~Probing(c)' /\ Probing(c) => Load(c)' = Load(c) - 1
<1>1. Occupied(c)' = Occupied(c)
  BY DEF Occupied
<1>2. Cardinality(Occupied(c)) \in Nat
  BY LoadType
<1> QED
  BY <1>1, <1>2 DEF Load

-----------------------------------------------------------------------------
(* The invariant: one lemma per action.                                    *)

LEMMA InitInv == Init => IInv
<1> SUFFICES ASSUME Init PROVE IInv
  OBVIOUS
<1>1. Threshold \in Nat /\ Len(Tiers) \in Nat /\ 0 \in 0 .. Rotation - 1
  BY PoolAssumption, RotationType
<1>2. TypeOK
  <2>1. HealthyEntry \in [state : CredStates, failures : 0 .. Threshold,
                          rateLimitFailures : 0 .. Len(Tiers), coolLeft : Int]
    BY <1>1 DEF HealthyEntry, CredStates
  <2>2. WindowsTypeOK
    BY WindowTypes DEF Init, WindowsTypeOK
  <2>3. HealthTypeOK
    BY <1>1 DEF Init, HealthTypeOK, CredStates
  <2>4. binding \in [Sessions -> [cred : Creds \cup {0}, idle : Nat]]
    BY DEF Init, NoBinding
  <2>5. attempt \in [Attempts -> [pc : Phases, cred : Creds \cup {0}]]
    BY DEF Init, Idle, Phases
  <2>6. prober \in [phase : ProberPhases, lifted : SUBSET Creds,
                    plans : SUBSET Creds, success : BOOLEAN]
    BY DEF Init, RestingProber, ProberPhases
  <2>7. stored \in [Creds -> [state : CredStates, failures : 0 .. Threshold,
                              rateLimitFailures : 0 .. Len(Tiers),
                              coolLeft : Int]]
    BY <2>1 DEF Init
  <2>8. inFlight \in [Creds -> Nat] /\ counter \in 0 .. Rotation - 1
    BY <1>1 DEF Init
  <2> QED
    BY <2>2, <2>3, <2>4, <2>5, <2>6, <2>7, <2>8
       DEF TypeOK, HealthTypeOK, WindowsTypeOK
<1>3. AttemptsWellFormed /\ ProberWellFormed
  BY DEF Init, Idle, RestingProber, AttemptsWellFormed, ProberWellFormed
<1>4. InFlightExact
  <2> SUFFICES ASSUME NEW c \in Creds PROVE Load(c) = 0
    BY DEF Init, InFlightExact
  <2>1. Occupied(c) = {} /\ ~Probing(c)
    BY DEF Init, Idle, RestingProber, Occupied, Probing
  <2> QED
    BY <2>1, FS_EmptySet DEF Load
<1> QED
  BY <1>2, <1>3, <1>4 DEF IInv

\* Recovery keeps the types of the health fields.
LEMMA RecoverType ==
    ASSUME HealthTypeOK, Recover
    PROVE  HealthTypeOK'
BY PoolAssumption DEF HealthTypeOK, Recover, CredStates

LEMMA SelectInv ==
    ASSUME IInv, NEW a \in Attempts, NEW s \in Sessions \cup {NoSession},
           Select(a, s)
    PROVE  IInv'
<1> DEFINE e == Chosen(s)
<1> USE DEF IInv
<1>1. e \in Creds
  BY ChosenIsCandidate DEF Select, TypeOK
<1> HIDE DEF e
<1>2. TypeOK'
  <2>1. HealthTypeOK'
    BY RecoverType DEF Select, TypeOK, HealthTypeOK
  <2>2. WindowsTypeOK'
    <3>1. SoftLimit \in Int /\ requests \in [Creds -> [Ages -> Int]]
      BY PoolAssumption DEF TypeOK
    <3>2. PrunedRequests \in [Creds -> [Ages -> Int]]
      BY <3>1, WindowTypes DEF PrunedRequests
    <3>3. Added(PrunedRequests[e], 1, SoftLimit) \in [Ages -> Int]
      <4>1. PrunedRequests[e] \in [Ages -> Int]
        BY <1>1, <3>2
      <4>2. \A w \in [Ages -> Int] : \A n, limit \in Int :
                Added(w, n, limit) \in [Ages -> Int]
        BY WindowTypes
      <4> QED
        BY <3>1, <4>1, <4>2
    <3>4. requests' \in [Creds -> [Ages -> Int]]
      BY <3>2, <3>3 DEF Select, e
    <3>5. tokens' \in [Creds -> [Ages -> Int]]
      BY WindowTypes DEF Select, PruneTokens, TypeOK
    <3> QED
      BY <3>4, <3>5 DEF WindowsTypeOK
  <2>3. inFlight' \in [Creds -> Nat]
    BY <1>1 DEF Select, TypeOK, e
  <2>4. counter' \in 0 .. Rotation - 1
    <3>1. Passes(s) \in Nat
      BY DEF Passes
    <3> QED
      BY <3>1, CounterType DEF Select, TypeOK
  <2>5. binding' \in [Sessions -> [cred : Creds \cup {0}, idle : Nat]]
    BY <1>1, BindingTypes DEF Select, TypeOK, BindingTypeOK, e
  <2>6. attempt' \in [Attempts -> [pc : Phases, cred : Creds \cup {0}]]
    BY <1>1 DEF Select, TypeOK, Phases, e
  <2> QED
    BY <2>1, <2>2, <2>3, <2>4, <2>5, <2>6
       DEF Select, TypeOK, HealthTypeOK, WindowsTypeOK
<1>3. AttemptsWellFormed' /\ ProberWellFormed'
  BY <1>1 DEF Select, TypeOK, AttemptsWellFormed, ProberWellFormed, e
<1>4. InFlightExact'
  <2> SUFFICES ASSUME NEW c \in Creds PROVE inFlight'[c] = Load(c)'
    BY DEF InFlightExact
  <2>1. Load(c)' = IF c = e THEN Load(c) + 1 ELSE Load(c)
    BY <1>1, AttemptEnters DEF Select, TypeOK, Occupies, e
  <2>2. inFlight'[c] = IF c = e THEN inFlight[c] + 1 ELSE inFlight[c]
    BY DEF Select, TypeOK, e
  <2> QED
    BY <2>1, <2>2 DEF InFlightExact
<1> QED
  BY <1>2, <1>3, <1>4

LEMMA SelectNoneInv ==
    ASSUME IInv, NEW a \in Attempts, NEW s \in Sessions \cup {NoSession},
           SelectNone(a, s)
    PROVE  IInv'
<1> USE DEF IInv
<1>1. TypeOK'
  <2>1. HealthTypeOK'
    BY RecoverType DEF SelectNone, TypeOK, HealthTypeOK
  <2>2. WindowsTypeOK'
    <3>1. requests' \in [Creds -> [Ages -> Int]]
      BY WindowTypes DEF SelectNone, PrunedRequests, TypeOK
    <3>2. tokens' \in [Creds -> [Ages -> Int]]
      BY WindowTypes DEF SelectNone, PruneTokens, TypeOK
    <3> QED
      BY <3>1, <3>2 DEF WindowsTypeOK
  <2>3. counter' \in 0 .. Rotation - 1
    <3>1. Passes(s) \in Nat
      BY DEF Passes
    <3> QED
      BY <3>1, CounterType DEF SelectNone, TypeOK
  <2>4. binding' \in [Sessions -> [cred : Creds \cup {0}, idle : Nat]]
    BY BindingTypes DEF SelectNone, TypeOK, BindingTypeOK
  <2>5. attempt' \in [Attempts -> [pc : Phases, cred : Creds \cup {0}]]
    BY DEF SelectNone, TypeOK, Phases
  <2> QED
    BY <2>1, <2>2, <2>3, <2>4, <2>5
       DEF SelectNone, TypeOK, HealthTypeOK, WindowsTypeOK
<1>2. AttemptsWellFormed' /\ ProberWellFormed'
  BY DEF SelectNone, TypeOK, AttemptsWellFormed, ProberWellFormed
<1>3. InFlightExact'
  <2> SUFFICES ASSUME NEW c \in Creds PROVE Load(c)' = Load(c)
    BY DEF InFlightExact, SelectNone
  <2>1. Occupied(c)' = Occupied(c) /\ (Probing(c)' <=> Probing(c))
    BY DEF SelectNone, TypeOK, Occupied, Probing
  <2> QED
    BY <2>1 DEF Load
<1> QED
  BY <1>1, <1>2, <1>3

\* Steps in which an attempt, and nothing else of the accounting, moves.
LEMMA AttemptStepInv ==
    ASSUME IInv, TypeOK', NEW a \in Attempts, NEW p \in Phases,
           NEW e \in Creds \cup {0},
           attempt' = [attempt EXCEPT ![a] = [pc |-> p, cred |-> e]],
           Occupies(p) <=> Occupies(attempt[a].pc),
           Occupies(p) => e = attempt[a].cred,
           p = "reporting" => e \in Creds,
           prober'.lifted = prober.lifted, prober'.plans = prober.plans,
           ProberWellFormed', inFlight' = inFlight
    PROVE  IInv'
<1> USE DEF IInv
<1>1. AttemptsWellFormed'
  BY DEF TypeOK, AttemptsWellFormed, Occupies
<1>2. InFlightExact'
  <2> SUFFICES ASSUME NEW c \in Creds PROVE Load(c)' = Load(c)
    BY DEF InFlightExact
  <2> QED
    BY AttemptMoves DEF TypeOK
<1> QED
  BY <1>1, <1>2

LEMMA FetchedInv ==
    ASSUME IInv, NEW a \in Attempts, Fetched(a)
    PROVE  IInv'
<1>1. attempt[a].cred \in Creds \cup {0} /\ "holding" \in Phases
  BY DEF IInv, TypeOK, Phases
<1>2. TypeOK'
  BY <1>1 DEF IInv, TypeOK, Fetched, health, windows
<1>3. ProberWellFormed'
  BY DEF IInv, ProberWellFormed, Fetched
<1> QED
  BY <1>1, <1>2, <1>3, AttemptStepInv DEF Fetched, Occupies

LEMMA AnswerRefusalInv ==
    ASSUME IInv, NEW a \in Attempts, AnswerRefusal(a)
    PROVE  IInv'
<1>1. "idle" \in Phases /\ 0 \in Creds \cup {0}
  BY DEF Phases
<1>2. /\ prober' \in [phase : ProberPhases, lifted : SUBSET Creds,
                      plans : SUBSET Creds, success : BOOLEAN]
      /\ prober'.lifted = prober.lifted
      /\ prober'.plans = prober.plans
      /\ ProberWellFormed'
  BY DEF IInv, TypeOK, AnswerRefusal, RestingProber, ProberPhases,
         ProberWellFormed
<1>3. TypeOK'
  BY <1>1, <1>2 DEF IInv, TypeOK, AnswerRefusal, health, windows, Idle
<1> QED
  BY <1>1, <1>2, <1>3, AttemptStepInv DEF AnswerRefusal, Occupies, Idle

LEMMA RecordTokensInv ==
    ASSUME IInv, NEW a \in Attempts, NEW n \in TokenSizes, RecordTokens(a, n)
    PROVE  IInv'
<1> DEFINE e == attempt[a].cred
<1>1. "idle" \in Phases /\ 0 \in Creds \cup {0}
  BY DEF Phases
<1>2. n \in Int /\ TpmLimit \in Int
  BY PoolAssumption
<1>3. e \in Creds /\ tokens[e] \in [Ages -> Int]
  BY DEF IInv, TypeOK, AttemptsWellFormed, RecordTokens
<1>4. Added(tokens[e], n, TpmLimit) \in [Ages -> Int]
  BY <1>2, <1>3, WindowTypes
<1>5. tokens' \in [Creds -> [Ages -> Int]]
  BY <1>4 DEF IInv, TypeOK, RecordTokens
<1>6. TypeOK'
  BY <1>1, <1>5 DEF IInv, TypeOK, RecordTokens, health, Idle
<1>7. ProberWellFormed'
  BY DEF IInv, ProberWellFormed, RecordTokens
<1> QED
  BY <1>1, <1>6, <1>7, AttemptStepInv DEF RecordTokens, Occupies, Idle

\* An attempt that gives its slot back: the count goes down with the load.
LEMMA AttemptLeavesInv ==
    ASSUME IInv, TypeOK', NEW a \in Attempts,
           NEW r \in [pc : Phases, cred : Creds \cup {0}],
           attempt' = [attempt EXCEPT ![a] = r],
           Occupies(attempt[a].pc), ~Occupies(r.pc),
           r.pc = "reporting" => r.cred \in Creds,
           prober' = prober,
           inFlight' = [inFlight EXCEPT ![attempt[a].cred] = @ - 1]
    PROVE  IInv'
<1>1. AttemptsWellFormed' /\ ProberWellFormed'
  BY DEF IInv, TypeOK, AttemptsWellFormed, ProberWellFormed, Occupies
<1>2. InFlightExact'
  <2> SUFFICES ASSUME NEW c \in Creds PROVE inFlight'[c] = Load(c)'
    BY DEF InFlightExact
  <2>1. Load(c)' = IF c = attempt[a].cred THEN Load(c) - 1 ELSE Load(c)
    BY AttemptLeaves DEF IInv, TypeOK
  <2> QED
    BY <2>1 DEF IInv, TypeOK, InFlightExact
<1> QED
  BY <1>1, <1>2 DEF IInv

\* Whoever holds a slot of a credential is counted in its inFlight.
LEMMA HeldIsCounted ==
    ASSUME IInv, NEW a \in Attempts, Occupies(attempt[a].pc)
    PROVE  attempt[a].cred \in Creds /\ inFlight[attempt[a].cred] > 0
<1>1. attempt[a].cred \in Creds
  BY DEF IInv, AttemptsWellFormed, Occupies
<1>2. a \in Occupied(attempt[a].cred)
  BY DEF Occupied, Occupies
<1>3. Load(attempt[a].cred) # 0 /\ Load(attempt[a].cred) \in Nat
  BY <1>2, LoadType
<1> QED
  BY <1>1, <1>3 DEF IInv, InFlightExact

LEMMA FetchFailedInv ==
    ASSUME IInv, NEW a \in Attempts, FetchFailed(a)
    PROVE  IInv'
<1> DEFINE e == attempt[a].cred
<1>1. e \in Creds /\ inFlight[e] > 0 /\ Occupies(attempt[a].pc)
  BY HeldIsCounted DEF FetchFailed, Occupies
<1>2. HealthTypeOK'
  BY <1>1, CountFailureType DEF FetchFailed, IInv, TypeOK, HealthTypeOK
<1>3. inFlight' \in [Creds -> Nat]
  BY <1>1 DEF FetchFailed, IInv, TypeOK
<1>4. Idle \in [pc : Phases, cred : Creds \cup {0}]
  BY DEF Idle, Phases
<1>5. TypeOK'
  BY <1>2, <1>3, <1>4
     DEF FetchFailed, IInv, TypeOK, HealthTypeOK, windows
<1> QED
  BY <1>1, <1>4, <1>5, AttemptLeavesInv DEF FetchFailed, Occupies, Idle

LEMMA OutcomeType ==
    ASSUME NEW o \in Outcomes \cup {Answered, StillLimited}
    PROVE  o.retryAfter \in Nat
<1>1. RetryAfters \subseteq Nat
  BY PoolAssumption
<1>2. ASSUME NEW q \in Outcomes PROVE q.retryAfter \in Nat
  <2>1. CASE q \in [kind : OutcomeKinds \cap (ErrorFree \cup {"deadline", "error"}),
                    retryAfter : {0}]
    BY <2>1
  <2>2. CASE q \in [kind : OutcomeKinds \cap {"rateLimit", "overload"},
                    retryAfter : RetryAfters]
    BY <1>1, <2>2
  <2> QED
    BY <2>1, <2>2 DEF Outcomes
<1>3. Answered.retryAfter = 0 /\ StillLimited.retryAfter = 0
  BY DEF Answered, StillLimited
<1> QED
  BY <1>2, <1>3

LEMMA ReleaseInv ==
    ASSUME IInv, NEW a \in Attempts, NEW o \in Outcomes, Release(a, o)
    PROVE  IInv'
<1> DEFINE e == attempt[a].cred
<1> DEFINE r == IF o.kind = "answered" /\ TpmLimit > 0
                THEN [pc |-> "reporting", cred |-> e] ELSE Idle
<1>1. e \in Creds /\ inFlight[e] > 0 /\ Occupies(attempt[a].pc)
  BY HeldIsCounted DEF Release, Occupies
<1>2. /\ HealthTypeOK'
      /\ inFlight' \in [Creds -> Nat]
      /\ inFlight' = [inFlight EXCEPT ![e] = @ - 1]
  BY <1>1, OutcomeType, SettleType DEF Release, IInv, TypeOK, HealthTypeOK
<1>3. /\ r \in [pc : Phases, cred : Creds \cup {0}]
      /\ ~Occupies(r.pc)
      /\ r.pc = "reporting" => r.cred \in Creds
  BY <1>1 DEF Idle, Phases, Occupies
<1>4. attempt' = [attempt EXCEPT ![a] = r]
  BY DEF Release
<1> HIDE DEF r
<1>5. TypeOK'
  <2>1. attempt' \in [Attempts -> [pc : Phases, cred : Creds \cup {0}]]
    BY <1>3, <1>4 DEF IInv, TypeOK
  <2> QED
    BY <1>2, <2>1 DEF Release, IInv, TypeOK, HealthTypeOK, windows
<1> QED
  BY <1>1, <1>2, <1>3, <1>4, <1>5, AttemptLeavesInv DEF Release

\* The prober lifts every rate-limited credential: none of them was being
\* probed, because the prober was waiting.
LEMMA TakeRateLimitedInv ==
    ASSUME IInv, TakeRateLimited
    PROVE  IInv'
<1> DEFINE lifted == {c \in Creds : state[c] = "rate_limited"}
<1>1. prober.lifted = {} /\ prober.plans = {}
  BY DEF IInv, ProberWellFormed, TakeRateLimited
<1>2. /\ prober' \in [phase : ProberPhases, lifted : SUBSET Creds,
                      plans : SUBSET Creds, success : BOOLEAN]
      /\ prober'.lifted = lifted
      /\ prober'.plans = {}
      /\ ProberWellFormed'
  <2>1. lifted \in SUBSET Creds /\ lifted \cap {} = {}
    OBVIOUS
  <2>2. prober' = ProberAfter("fetching", lifted, {}, FALSE)
    BY DEF TakeRateLimited
  <2> HIDE DEF lifted
  <2> QED
    BY <2>1, <2>2, ProberAfterWork
<1>3. TypeOK'
  <2>1. state' \in [Creds -> CredStates] /\ inFlight' \in [Creds -> Nat]
    BY DEF TakeRateLimited, IInv, TypeOK, CredStates
  <2> QED
    BY <1>2, <2>1 DEF TakeRateLimited, IInv, TypeOK, windows
<1>4. AttemptsWellFormed'
  BY DEF TakeRateLimited, IInv, AttemptsWellFormed
<1>5. InFlightExact'
  <2> SUFFICES ASSUME NEW c \in Creds PROVE inFlight'[c] = Load(c)'
    BY DEF InFlightExact
  <2>1. ~Probing(c) /\ (Probing(c)' <=> c \in lifted)
    BY <1>1, <1>2 DEF Probing
  <2>2. attempt' = attempt
    BY DEF TakeRateLimited
  <2>3. Load(c)' = IF c \in lifted THEN Load(c) + 1 ELSE Load(c)
    BY <2>1, <2>2, ProberMoves
  <2>4. inFlight'[c] = IF c \in lifted THEN inFlight[c] + 1 ELSE inFlight[c]
    BY DEF TakeRateLimited
  <2> QED
    BY <2>3, <2>4 DEF IInv, InFlightExact
<1> QED
  BY <1>2, <1>3, <1>4, <1>5 DEF IInv

\* A step of the prober that takes c off its work lists and out of the count.
LEMMA ProberDropsInv ==
    ASSUME IInv, TypeOK', ProberWellFormed', attempt' = attempt,
           NEW c \in Creds, Probing(c),
           prober'.lifted \cup prober'.plans
               = (prober.lifted \cup prober.plans) \ {c},
           inFlight' = [inFlight EXCEPT ![c] = @ - 1]
    PROVE  IInv'
<1>1. AttemptsWellFormed'
  BY DEF IInv, AttemptsWellFormed
<1>2. InFlightExact'
  <2> SUFFICES ASSUME NEW d \in Creds PROVE inFlight'[d] = Load(d)'
    BY DEF InFlightExact
  <2>1. Probing(d)' <=> Probing(d) /\ d # c
    BY DEF Probing
  <2>2. Load(d)' = IF d = c THEN Load(d) - 1 ELSE Load(d)
    BY <2>1, ProberMoves
  <2> QED
    BY <2>2 DEF IInv, TypeOK, InFlightExact
<1> QED
  BY <1>1, <1>2 DEF IInv

\* A credential the prober holds is counted too.
LEMMA ProbedIsCounted ==
    ASSUME IInv, NEW c \in Creds, Probing(c)
    PROVE  inFlight[c] > 0
<1>1. Load(c) # 0 /\ Load(c) \in Nat
  BY LoadType
<1> QED
  BY <1>1 DEF IInv, InFlightExact

\* The credential at the head of a work list.
LEMMA ProberHead ==
    ASSUME IInv
    PROVE  /\ prober.phase = "fetching" =>
                  Min(prober.lifted) \in prober.lifted /\ Min(prober.lifted) \in Creds
           /\ prober.phase = "probing" =>
                  Min(prober.plans) \in prober.plans /\ Min(prober.plans) \in Creds
<1>1. prober.lifted \subseteq Creds /\ prober.plans \subseteq Creds
  BY DEF IInv, TypeOK
<1>2. Creds \subseteq Nat
  BY PoolAssumption DEF Creds
<1>3. /\ prober.phase = "fetching" => prober.lifted # {}
      /\ prober.phase = "probing" => prober.plans # {}
  BY DEF IInv, ProberWellFormed
<1>4. prober.lifted \subseteq Nat /\ prober.plans \subseteq Nat
  BY <1>1, <1>2
<1>5. prober.lifted # {} => Min(prober.lifted) \in prober.lifted
  BY <1>4, MinIsMember
<1>6. prober.plans # {} => Min(prober.plans) \in prober.plans
  BY <1>4, MinIsMember
<1> QED
  BY <1>1, <1>3, <1>5, <1>6

LEMMA ProbeFetchedInv ==
    ASSUME IInv, ProbeFetched
    PROVE  IInv'
<1> DEFINE c == Min(prober.lifted)
<1>1. c \in prober.lifted /\ c \in Creds
  BY ProberHead DEF ProbeFetched
<1>2. /\ prober.lifted \in SUBSET Creds /\ prober.plans \in SUBSET Creds
      /\ prober.lifted \cap prober.plans = {}
  BY DEF IInv, TypeOK, ProberWellFormed
<1>3. prober' = ProberAfter("fetching", prober.lifted \ {c},
                            prober.plans \cup {c}, FALSE)
  BY DEF ProbeFetched
<1> HIDE DEF c
<1>4. /\ prober' \in [phase : ProberPhases, lifted : SUBSET Creds,
                      plans : SUBSET Creds, success : BOOLEAN]
      /\ prober'.lifted = prober.lifted \ {c}
      /\ prober'.plans = prober.plans \cup {c}
      /\ ProberWellFormed'
  <2>1. /\ prober.lifted \ {c} \in SUBSET Creds
        /\ prober.plans \cup {c} \in SUBSET Creds
        /\ (prober.lifted \ {c}) \cap (prober.plans \cup {c}) = {}
    BY <1>1, <1>2
  <2> QED
    BY <1>3, <2>1, ProberAfterWork
<1>5. TypeOK'
  BY <1>4 DEF ProbeFetched, IInv, TypeOK, health, windows
<1>6. AttemptsWellFormed'
  BY DEF ProbeFetched, IInv, AttemptsWellFormed
<1>7. InFlightExact'
  <2> SUFFICES ASSUME NEW d \in Creds PROVE Load(d)' = Load(d)
    BY DEF InFlightExact, ProbeFetched, IInv
  <2>1. Probing(d)' <=> Probing(d)
    BY <1>1, <1>4 DEF Probing
  <2>2. attempt' = attempt
    BY DEF ProbeFetched
  <2> QED
    BY <2>1, <2>2, ProberMoves
<1> QED
  BY <1>4, <1>5, <1>6, <1>7 DEF IInv

LEMMA ProbeFetchFailedInv ==
    ASSUME IInv, ProbeFetchFailed
    PROVE  IInv'
<1> DEFINE c == Min(prober.lifted)
<1>1. c \in prober.lifted /\ c \in Creds /\ Probing(c)
  BY ProberHead DEF ProbeFetchFailed, Probing
<1>2. /\ prober.lifted \in SUBSET Creds /\ prober.plans \in SUBSET Creds
      /\ prober.lifted \cap prober.plans = {}
  BY DEF IInv, TypeOK, ProberWellFormed
<1>3. inFlight[c] > 0
  BY <1>1, ProbedIsCounted
<1>4. prober' = ProberAfter("fetching", prober.lifted \ {c}, prober.plans, FALSE)
  BY DEF ProbeFetchFailed
<1>5. /\ inFlight' = [inFlight EXCEPT ![c] = @ - 1]
      /\ state' = [state EXCEPT ![c] = "rate_limited"]
      /\ attempt' = attempt
  BY DEF ProbeFetchFailed
<1> HIDE DEF c
<1>6. /\ prober' \in [phase : ProberPhases, lifted : SUBSET Creds,
                      plans : SUBSET Creds, success : BOOLEAN]
      /\ prober'.lifted = prober.lifted \ {c}
      /\ prober'.plans = prober.plans
      /\ ProberWellFormed'
  <2>1. /\ prober.lifted \ {c} \in SUBSET Creds
        /\ (prober.lifted \ {c}) \cap prober.plans = {}
    BY <1>2
  <2> QED
    BY <1>2, <1>4, <2>1, ProberAfterWork
<1>7. TypeOK'
  <2>1. state' \in [Creds -> CredStates] /\ inFlight' \in [Creds -> Nat]
    BY <1>1, <1>3, <1>5 DEF IInv, TypeOK, CredStates
  <2> QED
    BY <1>6, <2>1 DEF ProbeFetchFailed, IInv, TypeOK, windows
<1>8. prober'.lifted \cup prober'.plans = (prober.lifted \cup prober.plans) \ {c}
  BY <1>1, <1>2, <1>6
<1> QED
  BY <1>1, <1>5, <1>6, <1>7, <1>8, ProberDropsInv

LEMMA ProbeReleasedInv ==
    ASSUME IInv, NEW o \in {Answered, StillLimited}, ProbeReleased(o)
    PROVE  IInv'
<1> DEFINE c == Min(prober.plans)
<1>1. c \in prober.plans /\ c \in Creds /\ Probing(c)
  BY ProberHead DEF ProbeReleased, Probing
<1>2. /\ prober.lifted = {} /\ prober.plans \in SUBSET Creds
      /\ prober.success \in BOOLEAN
  BY DEF IInv, TypeOK, ProberWellFormed, ProbeReleased
<1>3. /\ Settle(c, o) /\ attempt' = attempt
      /\ prober' = ProberAfter("probing", {}, prober.plans \ {c},
                               prober.success \/ o = Answered)
  BY DEF ProbeReleased
<1> HIDE DEF c
<1>4. /\ HealthTypeOK'
      /\ inFlight' \in [Creds -> Nat]
      /\ inFlight' = [inFlight EXCEPT ![c] = @ - 1]
  BY <1>1, <1>3, ProbedIsCounted, OutcomeType, SettleType
     DEF IInv, TypeOK, HealthTypeOK
<1>5. /\ prober' \in [phase : ProberPhases, lifted : SUBSET Creds,
                      plans : SUBSET Creds, success : BOOLEAN]
      /\ prober'.lifted = {}
      /\ prober'.plans = prober.plans \ {c}
      /\ ProberWellFormed'
  <2>1. /\ prober.plans \ {c} \in SUBSET Creds
        /\ {} \in SUBSET Creds /\ {} \cap (prober.plans \ {c}) = {}
        /\ (prober.success \/ o = Answered) \in BOOLEAN
    BY <1>2
  <2> QED
    BY <1>3, <2>1, ProberAfterWork
<1>6. TypeOK'
  BY <1>4, <1>5 DEF ProbeReleased, IInv, TypeOK, HealthTypeOK, windows
<1>7. prober'.lifted \cup prober'.plans = (prober.lifted \cup prober.plans) \ {c}
  BY <1>2, <1>5
<1> QED
  BY <1>1, <1>3, <1>4, <1>5, <1>6, <1>7, ProberDropsInv

LEMMA ProberStopsInv ==
    ASSUME IInv, ProberStops
    PROVE  IInv'
<1>1. prober.lifted = {} /\ prober.plans = {}
  BY DEF IInv, ProberWellFormed, ProberStops
<1>2. /\ prober' \in [phase : ProberPhases, lifted : SUBSET Creds,
                      plans : SUBSET Creds, success : BOOLEAN]
      /\ prober'.lifted = {} /\ prober'.plans = {}
      /\ ProberWellFormed'
  BY DEF ProberStops, RestingProber, ProberPhases, ProberWellFormed
<1>3. TypeOK'
  BY <1>2 DEF ProberStops, IInv, TypeOK, health, windows
<1>4. AttemptsWellFormed'
  BY DEF ProberStops, IInv, AttemptsWellFormed
<1>5. InFlightExact'
  <2> SUFFICES ASSUME NEW c \in Creds PROVE Load(c)' = Load(c)
    BY DEF ProberStops, IInv, InFlightExact
  <2>1. attempt' = attempt /\ (Probing(c)' <=> Probing(c))
    BY <1>1, <1>2 DEF ProberStops, Probing
  <2> QED
    BY <2>1, ProberMoves
<1> QED
  BY <1>2, <1>3, <1>4, <1>5 DEF IInv

LEMMA FlushHealthInv ==
    ASSUME IInv, FlushHealth
    PROVE  IInv'
<1>1. TypeOK'
  BY DEF FlushHealth, IInv, TypeOK, health, windows
<1>2. AttemptsWellFormed' /\ ProberWellFormed'
  BY DEF FlushHealth, IInv, AttemptsWellFormed, ProberWellFormed
<1>3. InFlightExact'
  <2> SUFFICES ASSUME NEW c \in Creds PROVE Load(c)' = Load(c)
    BY DEF FlushHealth, IInv, InFlightExact
  <2> QED
    BY LoadSame DEF FlushHealth
<1> QED
  BY <1>1, <1>2, <1>3 DEF IInv

LEMMA RestartInv ==
    ASSUME IInv, Restart
    PROVE  IInv'
<1>1. TypeOK'
  <2>1. HealthTypeOK'
    BY DEF Restart, IInv, TypeOK, HealthTypeOK
  <2>2. WindowsTypeOK'
    BY WindowTypes DEF Restart, WindowsTypeOK
  <2>3. binding' \in [Sessions -> [cred : Creds \cup {0}, idle : Nat]]
    BY DEF Restart, NoBinding
  <2>4. attempt' \in [Attempts -> [pc : Phases, cred : Creds \cup {0}]]
    BY DEF Restart, Idle, Phases
  <2>5. prober' \in [phase : ProberPhases, lifted : SUBSET Creds,
                     plans : SUBSET Creds, success : BOOLEAN]
    BY DEF Restart, RestingProber, ProberPhases
  <2>6. inFlight' \in [Creds -> Nat] /\ counter' \in 0 .. Rotation - 1
    BY RotationType DEF Restart
  <2> QED
    BY <2>1, <2>2, <2>3, <2>4, <2>5, <2>6
       DEF Restart, IInv, TypeOK, HealthTypeOK, WindowsTypeOK
<1>2. AttemptsWellFormed' /\ ProberWellFormed'
  BY DEF Restart, Idle, RestingProber, AttemptsWellFormed, ProberWellFormed
<1>3. InFlightExact'
  <2> SUFFICES ASSUME NEW c \in Creds PROVE Load(c)' = 0
    BY DEF Restart, InFlightExact
  <2>1. Occupied(c)' = {} /\ ~Probing(c)'
    BY DEF Restart, Idle, RestingProber, Occupied, Probing
  <2>2. Cardinality(Occupied(c)') = 0
    BY <2>1, FS_EmptySet
  <2>3. Cardinality(Occupied(c))' = 0
    BY <2>2
  <2> QED
    BY <2>1, <2>3 DEF Load
<1> QED
  BY <1>1, <1>2, <1>3 DEF IInv

LEMMA TickInv ==
    ASSUME IInv, Tick
    PROVE  IInv'
<1>1. \A n \in Int : Elapsed(n) \in Int
  BY DEF Elapsed
<1>2. TypeOK'
  <2>1. coolLeft' \in [Creds -> Int]
    BY <1>1 DEF Tick, IInv, TypeOK
  <2>2. WindowsTypeOK'
    <3>1. \A w \in [Ages -> Int] : \A limit \in Int : Aged(w, limit) \in [Ages -> Int]
      BY WindowTypes
    <3>2. SoftLimit \in Int /\ TpmLimit \in Int
      BY PoolAssumption
    <3>3. requests' \in [Creds -> [Ages -> Int]]
      BY <3>1, <3>2 DEF Tick, IInv, TypeOK
    <3>4. tokens' \in [Creds -> [Ages -> Int]]
      BY <3>1, <3>2 DEF Tick, IInv, TypeOK
    <3> QED
      BY <3>3, <3>4 DEF WindowsTypeOK
  <2>3. binding' \in [Sessions -> [cred : Creds \cup {0}, idle : Nat]]
    <3> DEFINE T == [cred : Creds \cup {0}, idle : Nat]
    <3>1. \A b \in T : [b EXCEPT !.idle = @ + 1] \in T
      OBVIOUS
    <3> QED
      BY <3>1 DEF Tick, IInv, TypeOK
  <2>4. stored' \in [Creds -> [state : CredStates, failures : 0 .. Threshold,
                               rateLimitFailures : 0 .. Len(Tiers),
                               coolLeft : Int]]
    <3> DEFINE H == [state : CredStates, failures : 0 .. Threshold,
                     rateLimitFailures : 0 .. Len(Tiers), coolLeft : Int]
    <3>1. \A h \in H : [h EXCEPT !.coolLeft = Elapsed(@)] \in H
      BY <1>1
    <3> QED
      BY <3>1 DEF Tick, IInv, TypeOK
  <2> QED
    BY <2>1, <2>2, <2>3, <2>4 DEF Tick, IInv, TypeOK, WindowsTypeOK
<1>3. AttemptsWellFormed' /\ ProberWellFormed'
  BY DEF Tick, IInv, AttemptsWellFormed, ProberWellFormed
<1>4. InFlightExact'
  <2> SUFFICES ASSUME NEW c \in Creds PROVE Load(c)' = Load(c)
    BY DEF Tick, IInv, InFlightExact
  <2> QED
    BY LoadSame DEF Tick
<1> QED
  BY <1>2, <1>3, <1>4 DEF IInv

LEMMA StutterInv ==
    ASSUME IInv, UNCHANGED vars
    PROVE  IInv'
<1>1. TypeOK' /\ AttemptsWellFormed' /\ ProberWellFormed'
  BY DEF vars, IInv, TypeOK, AttemptsWellFormed, ProberWellFormed
<1>2. InFlightExact'
  <2> SUFFICES ASSUME NEW c \in Creds PROVE Load(c)' = Load(c)
    BY DEF vars, IInv, InFlightExact
  <2> QED
    BY LoadSame DEF vars
<1> QED
  BY <1>1, <1>2 DEF IInv

LEMMA NextInv == IInv /\ [Next]_vars => IInv'
<1> SUFFICES ASSUME IInv, [Next]_vars PROVE IInv'
  OBVIOUS
<1>1. CASE UNCHANGED vars
  BY <1>1, StutterInv
<1>2. CASE \E a \in Attempts, s \in Sessions \cup {NoSession} :
              Select(a, s) \/ SelectNone(a, s)
  BY <1>2, SelectInv, SelectNoneInv
<1>3. CASE \E a \in Attempts : Fetched(a) \/ FetchFailed(a) \/ AnswerRefusal(a)
  BY <1>3, FetchedInv, FetchFailedInv, AnswerRefusalInv
<1>4. CASE \E a \in Attempts, o \in Outcomes : Release(a, o)
  BY <1>4, ReleaseInv
<1>5. CASE \E a \in Attempts, n \in TokenSizes : RecordTokens(a, n)
  BY <1>5, RecordTokensInv
<1>6. CASE TakeRateLimited \/ ProbeFetched \/ ProbeFetchFailed
  BY <1>6, TakeRateLimitedInv, ProbeFetchedInv, ProbeFetchFailedInv
<1>7. CASE ProberStops \/ \E o \in {Answered, StillLimited} : ProbeReleased(o)
  BY <1>7, ProberStopsInv, ProbeReleasedInv
<1>8. CASE FlushHealth \/ Restart \/ Tick
  BY <1>8, FlushHealthInv, RestartInv, TickInv
<1> QED
  BY <1>1, <1>2, <1>3, <1>4, <1>5, <1>6, <1>7, <1>8 DEF Next

-----------------------------------------------------------------------------
(* The theorems.                                                           *)

\* The conjunction of the type invariant, the shape of attempts and prober
\* and the exactness of the accounting is an invariant of the pool.
THEOREM PoolInvariant == Spec => []IInv
<1>1. Init => IInv
  BY InitInv
<1>2. IInv /\ [Next]_vars => IInv'
  BY NextInv
<1> QED
  BY <1>1, <1>2, PTL DEF Spec

\* Every variable of the pool, its callers and the snapshot keeps its type;
\* inFlight never goes negative, so the clamp in Release never fires.
THEOREM TypeCorrect == Spec => []TypeOK
<1>1. IInv => TypeOK
  BY DEF IInv
<1> QED
  BY <1>1, PoolInvariant, PTL

\* No interleaving of attempts, source failures, probes and restarts leaks or
\* double-releases a slot: inFlight counts exactly the slots in use.
THEOREM InFlightAlwaysExact == Spec => []InFlightExact
<1>1. IInv => InFlightExact
  BY DEF IInv
<1> QED
  BY <1>1, PoolInvariant, PTL

-----------------------------------------------------------------------------
(* Whom Select may choose, and when it may refuse.                         *)

\* Only Select starts an attempt, and only SelectNone refuses one.
LEMMA OnlySelectLeavesIdle ==
    ASSUME IInv, Next, NEW a \in Attempts, attempt[a].pc = "idle"
    PROVE  /\ \A c \in Creds : Takes(a, c) =>
                \E s \in Sessions \cup {NoSession} :
                    Select(a, s) /\ c = Chosen(s)
           /\ attempt'[a].pc = "refused" =>
                \E s \in Sessions \cup {NoSession} : SelectNone(a, s)
<1>1. attempt \in [Attempts -> [pc : Phases, cred : Creds \cup {0}]]
  BY DEF IInv, TypeOK
<1>2. CASE \E b \in Attempts, s \in Sessions \cup {NoSession} :
              Select(b, s) \/ SelectNone(b, s)
  <2>1. PICK b \in Attempts, s \in Sessions \cup {NoSession} :
                Select(b, s) \/ SelectNone(b, s)
    BY <1>2
  <2>2. CASE b = a
    BY <1>1, <2>1, <2>2 DEF Takes, Select, SelectNone
  <2>3. CASE b # a
    BY <1>1, <2>1, <2>3 DEF Takes, Select, SelectNone
  <2> QED
    BY <2>2, <2>3
<1>3. CASE \E b \in Attempts : Fetched(b) \/ FetchFailed(b) \/ AnswerRefusal(b)
  BY <1>1, <1>3 DEF Fetched, FetchFailed, AnswerRefusal, Takes, Idle
<1>4. CASE \E b \in Attempts, o \in Outcomes : Release(b, o)
  BY <1>1, <1>4 DEF Release, Takes, Idle
<1>5. CASE \E b \in Attempts, n \in TokenSizes : RecordTokens(b, n)
  BY <1>1, <1>5 DEF RecordTokens, Takes, Idle
<1>6. CASE TakeRateLimited \/ ProbeFetched \/ ProbeFetchFailed
  <2>1. attempt' = attempt
    BY <1>6 DEF TakeRateLimited, ProbeFetched, ProbeFetchFailed
  <2> QED
    BY <2>1 DEF Takes
<1>7. CASE ProberStops \/ \E o \in {Answered, StillLimited} : ProbeReleased(o)
  BY <1>1, <1>7 DEF ProberStops, ProbeReleased, Takes
<1>8. CASE FlushHealth \/ Tick
  BY <1>1, <1>8 DEF FlushHealth, Tick, Takes
<1>9. CASE Restart
  BY <1>1, <1>9 DEF Restart, Takes, Idle
<1> QED
  BY <1>2, <1>3, <1>4, <1>5, <1>6, <1>7, <1>8, <1>9 DEF Next

\* Every candidate is a credential out of cool-down, and a candidate that is
\* at a limit is one only because every available credential is.
LEMMA CandidateIsAvailable ==
    ASSUME NEW s, NEW c \in Candidates(s)
    PROVE  /\ c \in Creds /\ Available(c)
           /\ ~Eligible(c) => \A d \in Creds : ~Eligible(d)
BY DEF Candidates, StickyChoice, FirstPass, Backstop, Eligible

\* An idle attempt that a step starts has been given a candidate.
LEMMA TakenIsCandidate ==
    ASSUME IInv, Next, NEW a \in Attempts, NEW c \in Creds, Takes(a, c)
    PROVE  \E s \in Sessions \cup {NoSession} :
                Select(a, s) /\ c = Chosen(s) /\ c \in Candidates(s)
<1>1. PICK s \in Sessions \cup {NoSession} : Select(a, s) /\ c = Chosen(s)
  BY OnlySelectLeavesIdle DEF Takes
<1>2. c \in Candidates(s)
  BY <1>1, ChosenIsCandidate DEF Select, IInv, TypeOK
<1> QED
  BY <1>1, <1>2

\* No attempt is ever started on a credential that is in cool-down.
THEOREM NeverSelectsParked == Spec => ParkedNotSelected
<1>1. IInv /\ [Next]_vars =>
        [\A a \in Attempts, c \in Creds : Takes(a, c) => ~CoolingDown(c)]_vars
  <2> SUFFICES ASSUME IInv, Next, NEW a \in Attempts, NEW c \in Creds, Takes(a, c)
               PROVE  ~CoolingDown(c)
    OBVIOUS
  <2>1. Available(c)
    BY TakenIsCandidate, CandidateIsAvailable
  <2> QED
    BY <2>1 DEF Available, CoolingDown, IInv, TypeOK
<1> QED
  BY <1>1, PoolInvariant, PTL DEF Spec, ParkedNotSelected

\* A credential at its soft limit or token cap is used only when every
\* available credential is at one.
THEOREM LimitsRotate == Spec => RotatesBeforeLimit
<1> DEFINE Rotates ==
        \A a \in Attempts, c \in Creds :
            Takes(a, c) /\ ~(UnderSoftLimit(c) /\ UnderTokenCap(c))
                => \A d \in Creds : Available(d) =>
                        ~(UnderSoftLimit(d) /\ UnderTokenCap(d))
<1>1. IInv /\ [Next]_vars => [Rotates]_vars
  <2> SUFFICES ASSUME IInv, Next, NEW a \in Attempts, NEW c \in Creds,
                      Takes(a, c), ~(UnderSoftLimit(c) /\ UnderTokenCap(c)),
                      NEW d \in Creds, Available(d)
               PROVE  ~(UnderSoftLimit(d) /\ UnderTokenCap(d))
    OBVIOUS
  <2>1. ~Eligible(d)
    BY TakenIsCandidate, CandidateIsAvailable DEF Eligible
  <2> QED
    BY <2>1 DEF Eligible
<1> QED
  BY <1>1, PoolInvariant, PTL DEF Spec, RotatesBeforeLimit

\* A request is refused only when every credential is in cool-down: limits
\* and sticky bindings never starve it.
THEOREM RefusesOnlyWhenAllParked == Spec => RefusedOnlyWhenAllParked
<1> DEFINE Refuses ==
        \A a \in Attempts :
            attempt[a].pc = "idle" /\ attempt'[a].pc = "refused"
                => \A c \in Creds : CoolingDown(c)
<1>1. IInv /\ [Next]_vars => [Refuses]_vars
  <2> SUFFICES ASSUME IInv, Next, NEW a \in Attempts, attempt[a].pc = "idle",
                      attempt'[a].pc = "refused", NEW c \in Creds
               PROVE  CoolingDown(c)
    OBVIOUS
  <2>1. PICK s \in Sessions \cup {NoSession} : SelectNone(a, s)
    BY OnlySelectLeavesIdle
  <2>2. FirstPass = {} /\ Backstop = {}
    BY <2>1 DEF SelectNone, Candidates
  <2>3. CASE Limited
    <3>1. ~Available(c)
      BY <2>2, <2>3 DEF Backstop
    <3> QED
      BY <3>1 DEF Available, CoolingDown, IInv, TypeOK
  <2>4. CASE ~Limited
    <3>1. RateLimit = 0 /\ TpmLimit = 0
      BY <2>4, PoolAssumption DEF Limited
    <3>2. ~Available(c)
      BY <2>2, <3>1 DEF FirstPass, Eligible, UnderSoftLimit, UnderTokenCap
    <3> QED
      BY <3>2 DEF Available, CoolingDown, IInv, TypeOK
  <2> QED
    BY <2>3, <2>4
<1> QED
  BY <1>1, PoolInvariant, PTL DEF Spec, RefusedOnlyWhenAllParked

\* Under least_requests an attempt that no sticky binding directs goes to an
\* eligible credential with the fewest slots really in use.
THEOREM BalancesByRealLoad == Spec => LeastLoadedChosen
<1> DEFINE Balances ==
        Strategy = "least_requests" =>
            \A a \in Attempts, c, d \in Creds :
                /\ Takes(a, c)
                /\ \A s \in Sessions : binding[s].cred # c
                /\ Eligible(d)
                => Load(c) <= Load(d)
<1>1. IInv /\ [Next]_vars => [Balances]_vars
  <2> SUFFICES ASSUME IInv, Next, Strategy = "least_requests",
                      NEW a \in Attempts, NEW c \in Creds, NEW d \in Creds,
                      Takes(a, c), \A s \in Sessions : binding[s].cred # c,
                      Eligible(d)
               PROVE  Load(c) <= Load(d)
    OBVIOUS
  <2>1. PICK s \in Sessions \cup {NoSession} :
                Select(a, s) /\ c = Chosen(s) /\ c \in Candidates(s)
    BY TakenIsCandidate
  <2>2. c \notin StickyChoice(s)
    BY PoolAssumption DEF StickyChoice, GetBinding, NoBinding, Creds
  <2>3. Candidates(s) = FirstPass /\ d \in FirstPass
    BY <2>1, <2>2 DEF Candidates, FirstPass, StickyChoice
  <2>4. c = LeastRequests(FirstPass)
    BY <2>1, <2>3 DEF Chosen, SelectByCriteria
  <2>5. inFlight[c] <= inFlight[d]
    <3> DEFINE L == {k \in FirstPass : \A j \in FirstPass : inFlight[k] <= inFlight[j]}
    <3> DEFINE rank == [k \in FirstPass |-> inFlight[k]]
    <3>1. FirstPass \subseteq Creds /\ FirstPass # {} /\ Creds \subseteq Nat
      BY <2>3, PoolAssumption DEF FirstPass, Creds
    <3>2. rank \in [FirstPass -> Nat]
      BY <3>1 DEF IInv, TypeOK
    <3>3. \E k \in FirstPass : \A j \in FirstPass : rank[k] <= rank[j]
      <4> HIDE DEF rank
      <4> QED
        BY <3>1, <3>2, LeastExists
    <3>4. L # {} /\ L \subseteq Nat
      BY <3>1, <3>3
    <3>5. Min(L) \in L
      BY <3>4, MinIsMember
    <3> QED
      BY <2>3, <2>4, <3>5 DEF LeastRequests
  <2> QED
    BY <2>5 DEF IInv, InFlightExact
<1> QED
  BY <1>1, PoolInvariant, PTL DEF Spec, LeastLoadedChosen
-----------------------------------------------------------------------------
(* What an earlier step leaves for a later one.                            *)

\* A step that forgets 429s of a credential is a release without an error.
LEMMA OnlyErrorFreeForgets ==
    ASSUME HealthTypeOK, NEW c \in Creds, NEW o, NEW d \in Creds, Settle(d, o),
           rateLimitFailures'[c] < rateLimitFailures[c]
    PROVE  o.kind \in ErrorFree /\ c = d
<1>1. /\ rateLimitFailures \in [Creds -> 0 .. Len(Tiers)]
      /\ Len(Tiers) \in Nat
  BY PoolAssumption DEF HealthTypeOK
<1>2. rateLimitFailures' # rateLimitFailures
  BY <1>1
<1>3. ~RateLimited(d, o.retryAfter)
  <2> SUFFICES ASSUME RateLimited(d, o.retryAfter) PROVE FALSE
    OBVIOUS
  <2>1. /\ rateLimitFailures'[c] \in Nat /\ rateLimitFailures[c] \in Nat
        /\ rateLimitFailures'[c] >= rateLimitFailures[c]
    BY <1>1 DEF RateLimited, Bump
  <2> QED
    BY <2>1
<1>4. o.kind \in ErrorFree /\ NoError(d)
  BY <1>2, <1>3 DEF Settle, Overloaded, CountFailure, health
<1> QED
  BY <1>1, <1>4 DEF NoError

\* No failure, no cool-down and no lift restarts the escalation of 429 cool-downs of
\* a credential: a release without an error does, or a snapshot.
THEOREM EscalationSurvivesFailures == Spec => EscalationOutlastsFailures
<1> DEFINE Resets ==
        \A c \in Creds :
            rateLimitFailures'[c] < rateLimitFailures[c] =>
                \/ \E a \in Attempts, o \in Outcomes :
                      o.kind \in ErrorFree /\ attempt[a].cred = c /\ Release(a, o)
                \/ ProbeReleased(Answered) /\ c = Min(prober.plans)
                \/ Restart
<1>1. IInv /\ [Next]_vars => [Resets]_vars
  <2> SUFFICES ASSUME IInv, Next, NEW c \in Creds,
                      rateLimitFailures'[c] < rateLimitFailures[c]
               PROVE  \/ \E a \in Attempts, o \in Outcomes :
                            o.kind \in ErrorFree /\ attempt[a].cred = c /\ Release(a, o)
                      \/ ProbeReleased(Answered) /\ c = Min(prober.plans)
                      \/ Restart
    OBVIOUS
  <2>1. rateLimitFailures' # rateLimitFailures
    BY PoolAssumption DEF IInv, TypeOK
  <2>2. HealthTypeOK
    BY DEF IInv, TypeOK, HealthTypeOK
  <2>3. CASE \E a \in Attempts, o \in Outcomes : Release(a, o)
    <3>1. PICK a \in Attempts, o \in Outcomes : Release(a, o)
      BY <2>3
    <3>2. attempt[a].cred \in Creds /\ Settle(attempt[a].cred, o)
      BY <3>1, HeldIsCounted DEF Release, Occupies
    <3>3. o.kind \in ErrorFree /\ c = attempt[a].cred
      BY <2>2, <3>2, OnlyErrorFreeForgets
    <3> QED
      BY <3>1, <3>3
  <2>4. CASE \E o \in {Answered, StillLimited} : ProbeReleased(o)
    <3>1. PICK o \in {Answered, StillLimited} : ProbeReleased(o)
      BY <2>4
    <3>2. Min(prober.plans) \in Creds /\ Settle(Min(prober.plans), o)
      BY <3>1, ProberHead DEF ProbeReleased
    <3>3. o.kind \in ErrorFree /\ c = Min(prober.plans)
      BY <2>2, <3>2, OnlyErrorFreeForgets
    <3> QED
      BY <3>1, <3>3 DEF StillLimited, ErrorFree
  <2>5. CASE Restart
    BY <2>5
  <2> QED
    BY <2>1, <2>3, <2>4, <2>5
       DEF Next, Select, SelectNone, Recover, Fetched, FetchFailed, CountFailure,
           AnswerRefusal, RecordTokens, TakeRateLimited, ProbeFetched,
           ProbeFetchFailed, ProberStops, FlushHealth, Tick, health
<1> QED
  BY <1>1, PoolInvariant, PTL DEF Spec, EscalationOutlastsFailures

\* A lookup or a pruning of a binding keeps it or drops it.
LEMMA BindingKeptOrDropped ==
    ASSUME BindingTypeOK, NEW r, NEW s \in Sessions
    PROVE  /\ AfterGet(r)[s] \in {binding[s], NoBinding}
           /\ \A c \in Creds : s # r =>
                  SetBinding(AfterGet(r), r, c)[s] \in {binding[s], NoBinding}
           /\ \A c \in Creds : s = r =>
                  SetBinding(AfterGet(r), r, c)[s]
                      \in {[cred |-> c, idle |-> 0], NoBinding}
<1>1. AfterGet(r) \in [Sessions -> [cred : Creds \cup {0}, idle : Nat]]
  BY BindingTypes
<1>2. AfterGet(r)[s] \in {binding[s], NoBinding}
  BY DEF AfterGet, GetBinding, BindingTypeOK
<1>3. ASSUME NEW m \in [Sessions -> [cred : Creds \cup {0}, idle : Nat]]
      PROVE  PrunedBindings(m)[s] \in {m[s], NoBinding}
  BY DEF PrunedBindings
<1>4. ASSUME NEW c \in Creds, r \in Sessions
      PROVE  SetBinding(AfterGet(r), r, c)[s]
                 \in {IF s = r THEN [cred |-> c, idle |-> 0] ELSE AfterGet(r)[s], NoBinding}
  <2> DEFINE m == [AfterGet(r) EXCEPT ![r] = [cred |-> c, idle |-> 0]]
  <2>1. [cred |-> c, idle |-> 0] \in [cred : Creds \cup {0}, idle : Nat]
    OBVIOUS
  <2>2. m \in [Sessions -> [cred : Creds \cup {0}, idle : Nat]]
    BY <1>1, <2>1
  <2>3. m[s] = IF s = r THEN [cred |-> c, idle |-> 0] ELSE AfterGet(r)[s]
    BY <1>1
  <2>4. SetBinding(AfterGet(r), r, c) = PrunedBindings(m)
    BY <1>4 DEF SetBinding
  <2> HIDE DEF m
  <2>5. PrunedBindings(m)[s] \in {m[s], NoBinding}
    BY <1>3, <2>2
  <2> QED
    BY <2>3, <2>4, <2>5
<1>5. ASSUME NEW c \in Creds, r \notin Sessions
      PROVE  SetBinding(AfterGet(r), r, c) = AfterGet(r)
  BY <1>5 DEF SetBinding
<1> QED
  BY <1>2, <1>4, <1>5

\* A session stays with its credential as long as that can be used and the
\* binding lives.
THEOREM SessionsStay == Spec => StickyUntilIneligible
<1> DEFINE Stays ==
        \A s \in Sessions, c \in Creds :
            (/\ binding[s].cred = c
             /\ ~BindingExpired(binding[s])
             /\ binding'[s].cred \in Creds \ {c})
                => ~Eligible(c)
<1>1. IInv /\ [Next]_vars => [Stays]_vars
  <2> SUFFICES ASSUME IInv, Next, NEW s \in Sessions, NEW c \in Creds,
                      binding[s].cred = c, ~BindingExpired(binding[s]),
                      binding'[s].cred \in Creds \ {c}, Eligible(c)
               PROVE  FALSE
    OBVIOUS
  <2>1. BindingTypeOK /\ 0 \notin Creds
    BY PoolAssumption DEF IInv, TypeOK, BindingTypeOK, Creds
  <2>2. binding'[s] # NoBinding /\ binding'[s] # binding[s]
    BY <2>1 DEF NoBinding
  <2>3. ASSUME NEW a \in Attempts, NEW r \in Sessions \cup {NoSession}, Select(a, r)
        PROVE  FALSE
    <3>1. Chosen(r) \in Candidates(r) /\ Chosen(r) \in Creds
      BY <2>3, ChosenIsCandidate DEF Select, IInv, TypeOK
    <3>2. binding' = SetBinding(AfterGet(r), r, Chosen(r))
      BY <2>3 DEF Select
    <3>3. s = r /\ binding'[s] = [cred |-> Chosen(r), idle |-> 0]
      BY <2>1, <2>2, <3>1, <3>2, BindingKeptOrDropped
    <3>4. StickyChoice(r) = {c}
      BY <3>3 DEF StickyChoice, GetBinding
    <3>5. Chosen(r) = c
      BY <3>1, <3>4 DEF Candidates
    <3> QED
      BY <3>3, <3>5
  <2>4. ASSUME NEW a \in Attempts, NEW r \in Sessions \cup {NoSession}, SelectNone(a, r)
        PROVE  FALSE
    BY <2>1, <2>2, <2>4, BindingKeptOrDropped DEF SelectNone
  <2>5. CASE Restart
    BY <2>2, <2>5 DEF Restart
  <2>6. CASE Tick
    <3>1. binding'[s].cred = binding[s].cred
      BY <2>1, <2>6 DEF Tick, BindingTypeOK
    <3> QED
      BY <3>1
  <2>7. binding' # binding
    BY <2>2
  <2> QED
    BY <2>3, <2>4, <2>5, <2>6, <2>7
       DEF Next, Fetched, FetchFailed, Release, AnswerRefusal, RecordTokens,
           TakeRateLimited, ProbeFetched, ProbeFetchFailed, ProbeReleased,
           ProberStops, FlushHealth
<1> QED
  BY <1>1, PoolInvariant, PTL DEF Spec, StickyUntilIneligible
-----------------------------------------------------------------------------
(* CredPool implements PoolContract: every step of the pool, its callers and *)
(* its prober is a step the contract allows, or invisible to it.             *)

\* The health the contract sees, as one function.
Shown == [c \in Creds |-> ContractStatus(c)]

LEMMA ContractStatusType ==
    ASSUME NEW c
    PROVE  ContractStatus(c) \in {"free", "limited", "broken"}
BY DEF ContractStatus

\* Steps that touch neither the slots nor the health.
LEMMA Invisible ==
    ASSUME inFlight' = inFlight, state' = state, coolLeft' = coolLeft
    PROVE  UNCHANGED Contract!vars
<1>1. \A c : ContractStatus(c)' = ContractStatus(c)
  BY DEF ContractStatus, CoolingDown
<1> QED
  BY <1>1 DEF Contract!vars

\* Recovery at the head of Select shows nothing: an expired credential was
\* free already.
LEMMA RecoverInvisible ==
    ASSUME IInv, Recover
    PROVE  Shown' = Shown
<1>1. ASSUME NEW c \in Creds PROVE ContractStatus(c)' = ContractStatus(c)
  <2>1. coolLeft'[c] = coolLeft[c] /\ coolLeft[c] \in Int
    BY DEF Recover, IInv, TypeOK
  <2>2. state'[c] = IF Expired(c) THEN "healthy" ELSE state[c]
    BY DEF Recover
  <2> QED
    BY <2>1, <2>2 DEF ContractStatus, CoolingDown, Expired
<1> QED
  BY <1>1 DEF Shown

LEMMA SelectKeeps ==
    ASSUME IInv, NEW a \in Attempts, NEW s \in Sessions \cup {NoSession},
           Select(a, s)
    PROVE  Contract!Next
<1> DEFINE c == Chosen(s)
<1>1. c \in Creds /\ c \in Candidates(s)
  BY ChosenIsCandidate DEF Select, IInv, TypeOK
<1>2. ContractStatus(c) = "free"
  BY <1>1, CandidateIsAvailable
     DEF Available, ContractStatus, CoolingDown, IInv, TypeOK
<1>3. Shown' = Shown
  BY RecoverInvisible DEF Select
<1>4. inFlight' = [inFlight EXCEPT ![c] = @ + 1]
  BY DEF Select
<1> HIDE DEF c
<1>5. Contract!Take(c)
  BY <1>1, <1>2, <1>3, <1>4 DEF Contract!Take, Shown
<1> QED
  BY <1>1, <1>5 DEF Contract!Next

\* The end of a use, whatever it was.
LEMMA GiveKeeps ==
    ASSUME IInv, NEW c \in Creds, inFlight[c] > 0,
           inFlight' = [inFlight EXCEPT ![c] = @ - 1],
           \A d \in Creds \ {c} :
               state'[d] = state[d] /\ coolLeft'[d] = coolLeft[d],
           ContractStatus(c)' \in {ContractStatus(c), "limited", "broken"}
    PROVE  Contract!Next
<1> DEFINE s == ContractStatus(c)'
<1>1. \A d \in Creds \ {c} : ContractStatus(d)' = ContractStatus(d)
  BY DEF ContractStatus, CoolingDown
<1>2. s \in {"free", "limited", "broken"}
  BY DEF ContractStatus, CoolingDown
<1>3. Shown' = [Shown EXCEPT ![c] = s]
  BY <1>1 DEF Shown
<1>4. Shown[c] = ContractStatus(c)
  BY DEF Shown
<1> HIDE DEF s
<1>5. s \in {Shown[c], "limited", "broken"}
  BY <1>4 DEF s
<1>6. Contract!Give(c, s)
  BY <1>3, <1>5 DEF Contract!Give, Shown
<1> QED
  BY <1>2, <1>6 DEF Contract!Next, Contract!Statuses

\* A failure leaves a credential as it was or opens its breaker.
LEMMA FailureShows ==
    ASSUME IInv, NEW c \in Creds, CountFailure(c)
    PROVE  /\ \A d \in Creds \ {c} :
                  state'[d] = state[d] /\ coolLeft'[d] = coolLeft[d]
           /\ ContractStatus(c)' \in {ContractStatus(c), "limited", "broken"}
<1>1. CASE UNCHANGED <<state, coolLeft>>
  BY <1>1 DEF ContractStatus, CoolingDown
<1>2. CASE /\ state' = [state EXCEPT ![c] = "cooling_down"]
           /\ coolLeft' = [coolLeft EXCEPT ![c] = Cooldown]
  <2>1. Cooldown \in Nat
    BY PoolAssumption
  <2>2. state'[c] = "cooling_down" /\ coolLeft'[c] = Cooldown
    BY <1>2 DEF IInv, TypeOK
  <2>3. ContractStatus(c)' = "broken"
    BY <2>1, <2>2 DEF ContractStatus, CoolingDown
  <2> QED
    BY <1>2, <2>3 DEF IInv, TypeOK
<1> QED
  BY <1>1, <1>2 DEF CountFailure

\* A 429 or a 5xx rests a free credential and leaves a resting one alone.
LEMMA ParkShows ==
    ASSUME IInv, NEW c \in Creds, NEW ticks \in Nat, Park(c, ticks)
    PROVE  /\ \A d \in Creds \ {c} :
                  state'[d] = state[d] /\ coolLeft'[d] = coolLeft[d]
           /\ ContractStatus(c)' \in {ContractStatus(c), "limited", "broken"}
<1>1. CASE UNCHANGED <<state, coolLeft>>
  BY <1>1 DEF ContractStatus, CoolingDown
<1>2. CASE /\ state' = [state EXCEPT ![c] = "rate_limited"]
           /\ coolLeft' = [coolLeft EXCEPT ![c] = ticks]
  <2>1. state'[c] = "rate_limited" /\ coolLeft'[c] = ticks
    BY <1>2 DEF IInv, TypeOK
  <2>2. ContractStatus(c)' = "limited"
    BY <2>1 DEF ContractStatus, CoolingDown
  <2> QED
    BY <1>2, <2>2 DEF IInv, TypeOK
<1> QED
  BY <1>1, <1>2 DEF Park

\* No outcome ends a cool-down.
LEMMA SettleShows ==
    ASSUME IInv, NEW c \in Creds, NEW o, o.retryAfter \in Nat, Settle(c, o)
    PROVE  /\ \A d \in Creds \ {c} :
                  state'[d] = state[d] /\ coolLeft'[d] = coolLeft[d]
           /\ ContractStatus(c)' \in {ContractStatus(c), "limited", "broken"}
<1>1. CASE UNCHANGED <<state, coolLeft>>
  BY <1>1 DEF ContractStatus, CoolingDown
<1>2. CASE RateLimited(c, o.retryAfter)
  <2>1. rateLimitFailures[c] \in Nat
    BY PoolAssumption DEF IInv, TypeOK
  <2>2. RateLimitBackoff(rateLimitFailures[c]) \in Nat
    BY <2>1, BackoffType
  <2> QED
    BY <1>2, <2>2, ParkShows DEF RateLimited
<1>3. CASE Overloaded(c, o.retryAfter)
  BY <1>3, ParkShows, PoolAssumption DEF Overloaded
<1>4. CASE CountFailure(c)
  BY <1>4, FailureShows
<1>5. UNCHANGED health \/ NoError(c) => UNCHANGED <<state, coolLeft>>
  BY DEF health, NoError
<1> QED
  BY <1>1, <1>2, <1>3, <1>4, <1>5 DEF Settle

LEMMA ReleaseKeeps ==
    ASSUME IInv, NEW a \in Attempts, NEW o \in Outcomes, Release(a, o)
    PROVE  Contract!Next
<1> DEFINE c == attempt[a].cred
<1>1. c \in Creds /\ inFlight[c] > 0
  BY HeldIsCounted DEF Release, Occupies
<1>2. o.retryAfter \in Nat /\ Settle(c, o)
  BY OutcomeType DEF Release
<1> HIDE DEF c
<1>3. inFlight' = [inFlight EXCEPT ![c] = @ - 1]
  BY <1>1, <1>2 DEF Settle
<1> QED
  BY <1>1, <1>2, <1>3, SettleShows, GiveKeeps

LEMMA FetchFailedKeeps ==
    ASSUME IInv, NEW a \in Attempts, FetchFailed(a)
    PROVE  Contract!Next
<1> DEFINE c == attempt[a].cred
<1>1. c \in Creds /\ inFlight[c] > 0
  BY HeldIsCounted DEF FetchFailed, Occupies
<1>2. CountFailure(c) /\ inFlight' = [inFlight EXCEPT ![c] = @ - 1]
  BY DEF FetchFailed
<1> HIDE DEF c
<1> QED
  BY <1>1, <1>2, FailureShows, GiveKeeps

LEMMA ProbeReleasedKeeps ==
    ASSUME IInv, NEW o \in {Answered, StillLimited}, ProbeReleased(o)
    PROVE  Contract!Next
<1> DEFINE c == Min(prober.plans)
<1>1. c \in Creds /\ c \in prober.plans
  BY ProberHead DEF ProbeReleased
<1>2. inFlight[c] > 0
  BY <1>1, ProbedIsCounted DEF Probing
<1>3. o.retryAfter \in Nat /\ Settle(c, o)
  BY OutcomeType DEF ProbeReleased
<1> HIDE DEF c
<1>4. inFlight' = [inFlight EXCEPT ![c] = @ - 1]
  BY <1>2, <1>3 DEF Settle
<1> QED
  BY <1>1, <1>2, <1>3, <1>4, SettleShows, GiveKeeps

\* A probe whose secret cannot be had puts its credential back to rest.
LEMMA ProbeFetchFailedKeeps ==
    ASSUME IInv, ProbeFetchFailed
    PROVE  Contract!Next
<1>1. PICK c \in Creds : c = Min(prober.lifted) /\ c \in prober.lifted
  BY ProberHead DEF ProbeFetchFailed
<1>2. inFlight[c] > 0
  BY <1>1, ProbedIsCounted DEF Probing
<1>3. /\ state' = [state EXCEPT ![c] = "rate_limited"]
      /\ coolLeft' = coolLeft
      /\ inFlight' = [inFlight EXCEPT ![c] = @ - 1]
  BY <1>1 DEF ProbeFetchFailed
<1>4. /\ state'[c] = "rate_limited"
      /\ coolLeft'[c] = coolLeft[c]
      /\ \A d \in Creds \ {c} :
             state'[d] = state[d] /\ coolLeft'[d] = coolLeft[d]
  BY <1>1, <1>3 DEF IInv, TypeOK
<1>5. ContractStatus(c)' \in {ContractStatus(c), "limited", "broken"}
  <2>1. CASE coolLeft[c] >= 0
    <3>1. ContractStatus(c)' = "limited"
      BY <1>4, <2>1 DEF ContractStatus, CoolingDown
    <3> QED
      BY <3>1
  <2>2. CASE ~(coolLeft[c] >= 0)
    <3>1. ContractStatus(c)' = "free" /\ ContractStatus(c) = "free"
      BY <1>4, <2>2 DEF ContractStatus, CoolingDown
    <3> QED
      BY <3>1
  <2> QED
    BY <2>1, <2>2
<1> QED
  BY <1>1, <1>2, <1>3, <1>4, <1>5, GiveKeeps

LEMMA TakeRateLimitedKeeps ==
    ASSUME IInv, TakeRateLimited
    PROVE  Contract!Next
<1> DEFINE S == {c \in Creds : state[c] = "rate_limited"}
<1>1. /\ state' = [c \in Creds |-> IF c \in S THEN "healthy" ELSE state[c]]
      /\ inFlight' =
          [c \in Creds |-> IF c \in S THEN inFlight[c] + 1 ELSE inFlight[c]]
      /\ coolLeft' = coolLeft
  BY DEF TakeRateLimited
<1>2. \A c \in Creds : ContractStatus(c) = "limited" => c \in S
  BY DEF ContractStatus
<1>3. \A c \in S : ContractStatus(c) # "broken"
  BY DEF ContractStatus
<1> HIDE DEF S
<1>4. S \subseteq Creds
  BY DEF S
<1>5. \A c \in Creds : ContractStatus(c)' =
                          IF c \in S THEN "free" ELSE ContractStatus(c)
  BY <1>1 DEF ContractStatus, CoolingDown
<1>6. Shown' = [c \in Creds |-> IF c \in S THEN "free" ELSE Shown[c]]
  BY <1>5 DEF Shown
<1>7. Contract!Lift(Creds, S)
  BY <1>1, <1>2, <1>3, <1>4, <1>6 DEF Contract!Lift, Shown
<1> QED
  BY <1>4, <1>7 DEF Contract!Next

\* Time only frees credentials.
LEMMA TickKeeps ==
    ASSUME IInv, Tick
    PROVE  Contract!Next
<1> DEFINE S == {c \in Creds : coolLeft[c] = 0}
<1>1. \A c \in Creds : state'[c] = state[c]
  BY DEF Tick
<1>2. \A c \in Creds : /\ coolLeft[c] \in Int
                       /\ coolLeft'[c] = IF coolLeft[c] < 0 THEN coolLeft[c]
                                         ELSE coolLeft[c] - 1
  BY DEF Tick, Elapsed, IInv, TypeOK
<1>3. \A c \in Creds : ContractStatus(c)' =
                          IF c \in S THEN "free" ELSE ContractStatus(c)
  BY <1>1, <1>2 DEF ContractStatus, CoolingDown
<1>4. Shown' = [c \in Creds |-> IF c \in S THEN "free" ELSE Shown[c]]
  BY <1>3 DEF Shown
<1> HIDE DEF S
<1>5. inFlight' = inFlight
  BY DEF Tick
<1>6. Contract!Expire(S)
  BY <1>4, <1>5 DEF Contract!Expire, Shown
<1>7. S \in SUBSET Creds
  BY DEF S
<1> QED
  BY <1>6, <1>7 DEF Contract!Next

LEMMA RestartKeeps ==
    ASSUME Restart
    PROVE  Contract!Next
<1>1. inFlight' = [c \in Creds |-> 0]
  BY DEF Restart
<1>2. \A c : ContractStatus(c)' \in {"free", "limited", "broken"}
  BY DEF ContractStatus
<1>3. Shown' \in [Creds -> {"free", "limited", "broken"}]
  BY <1>2 DEF Shown
<1> QED
  BY <1>1, <1>3 DEF Contract!Next, Contract!Restart, Contract!Statuses, Shown

LEMMA NextKeeps ==
    ASSUME IInv, [Next]_vars
    PROVE  [Contract!Next]_(Contract!vars)
<1>1. CASE UNCHANGED vars
  BY <1>1, Invisible DEF vars
<1>2. CASE \E a \in Attempts, s \in Sessions \cup {NoSession} : Select(a, s)
  BY <1>2, SelectKeeps
<1>3. CASE \E a \in Attempts, s \in Sessions \cup {NoSession} : SelectNone(a, s)
  <2>1. Shown' = Shown /\ inFlight' = inFlight
    BY <1>3, RecoverInvisible DEF SelectNone
  <2> QED
    BY <2>1 DEF Contract!vars, Shown
<1>4. CASE \E a \in Attempts : Fetched(a) \/ AnswerRefusal(a)
  BY <1>4, Invisible DEF Fetched, AnswerRefusal, health
<1>5. CASE \E a \in Attempts : FetchFailed(a)
  BY <1>5, FetchFailedKeeps
<1>6. CASE \E a \in Attempts, o \in Outcomes : Release(a, o)
  BY <1>6, ReleaseKeeps
<1>7. CASE \E a \in Attempts, n \in TokenSizes : RecordTokens(a, n)
  BY <1>7, Invisible DEF RecordTokens, health
<1>8. CASE ProbeFetched \/ ProberStops \/ FlushHealth
  BY <1>8, Invisible DEF ProbeFetched, ProberStops, FlushHealth, health
<1>9. CASE TakeRateLimited \/ ProbeFetchFailed \/ Restart \/ Tick
  BY <1>9, TakeRateLimitedKeeps, ProbeFetchFailedKeeps, RestartKeeps, TickKeeps
<1>10. CASE \E o \in {Answered, StillLimited} : ProbeReleased(o)
  BY <1>10, ProbeReleasedKeeps
<1> QED
  BY <1>1, <1>2, <1>3, <1>4, <1>5, <1>6, <1>7, <1>8, <1>9, <1>10 DEF Next

LEMMA InitKeeps ==
    ASSUME Init
    PROVE  Contract!Init
<1>1. \A c \in Creds : ContractStatus(c) = "free"
  BY DEF Init, ContractStatus, CoolingDown
<1> QED
  BY <1>1 DEF Init, Contract!Init

-----------------------------------------------------------------------------

\* The pool implements its contract, for every number of credentials and
\* attempts and every configuration PoolAssumption admits: uses are counted
\* once and given back once, nothing at rest is handed out, no release ends a
\* cool-down, the prober leaves open breakers alone.
THEOREM PoolKeepsContract == Spec => ImplementsContract
<1>1. IInv /\ [Next]_vars => [Contract!Next]_(Contract!vars)
  BY NextKeeps
<1>2. Init => Contract!Init
  BY InitKeeps
<1> QED
  BY <1>1, <1>2, PoolInvariant, PTL
     DEF Spec, ImplementsContract, Contract!Spec
=============================================================================
