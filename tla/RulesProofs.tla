---------------------------- MODULE RulesProofs ----------------------------
(***************************************************************************)
(* Proofs about Rules: for every set of mappings and every payload.        *)
(***************************************************************************)
EXTENDS Rules, FiniteSetTheorems, WellFoundedInduction, TLAPS

(* Induction on numbers, in the form of a least counterexample.            *)
LEMMA LeastNumber ==
  ASSUME NEW T \in SUBSET Nat, T # {}
  PROVE  \E m \in T : \A n \in T : m <= n
<1> DEFINE R == StrictSubsetOrdering(Nat)
           U == {1..n : n \in T}
<1>1. IsWellFoundedOn(R, FiniteSubsetsOf(Nat))
  BY FS_StrictSubsetOrderingWellFounded
<1>2. U \subseteq FiniteSubsetsOf(Nat)
  <2> SUFFICES ASSUME NEW n \in T PROVE 1..n \in FiniteSubsetsOf(Nat)
    OBVIOUS
  <2>1. IsFiniteSet(1..n)
    BY FS_Interval
  <2> QED
    BY <2>1 DEF FiniteSubsetsOf
<1>3. PICK x \in U : \A y \in U : <<y, x>> \notin R
  <2>1. U # {}
    OBVIOUS
  <2> HIDE DEF R, U
  <2> QED
    BY <1>1, <1>2, <2>1, WFMin
<1>4. PICK m \in T : x = 1..m
  OBVIOUS
<1>5. ASSUME NEW n \in T, ~(m <= n) PROVE FALSE
  <2>1. 1..n \subseteq 1..m /\ m \in 1..m /\ m \notin 1..n
    BY <1>5
  <2>2. <<1..n, 1..m>> \in R
    BY <2>1 DEF StrictSubsetOrdering
  <2> QED
    BY <1>3, <1>4, <2>2
<1> QED
  BY <1>5

LEMMA LastPlace ==
  ASSUME NEW n \in Nat, NEW T \in SUBSET (1..n), T # {}
  PROVE  Max(T) \in T /\ \A i \in T : i <= Max(T)
<1> DEFINE U == {n - i : i \in T}
<1>1. \A i \in T : i \in Nat /\ n - i \in Nat
  <2> TAKE i \in T
  <2>1. i \in 1..n
    OBVIOUS
  <2> QED
    BY <2>1
<1>2. PICK m \in U : \A u \in U : m <= u
  <2>1. U \subseteq Nat /\ U # {}
    BY <1>1
  <2> HIDE DEF U
  <2> QED
    BY <2>1, LeastNumber
<1>3. PICK k \in T : m = n - k
  OBVIOUS
<1>4. ASSUME NEW i \in T PROVE i <= k
  <2>1. n - k <= n - i
    BY <1>2, <1>3
  <2> QED
    BY <1>1, <2>1
<1> QED
  BY <1>4, <1>1 DEF Max

LEMMA FirstPlace ==
  ASSUME NEW n \in Nat, NEW T \in SUBSET (1..n), T # {}
  PROVE  Min(T) \in T /\ \A i \in T : Min(T) <= i
<1>1. PICK m \in T : \A u \in T : m <= u
  BY LeastNumber
<1> QED
  BY <1>1 DEF Min
-----------------------------------------------------------------------------
(* The loop of DetectSourceID: the recursive function exists, and gives    *)
(* the best of the mappings seen so far.                                   *)
IsLoop(b, act, keys, order, n) ==
  b = [i \in 0..n |->
         IF i = 0 THEN NoMatch ELSE Improved(act, keys, b[i - 1], order[i])]

LEMMA LoopExists ==
  ASSUME NEW act, NEW keys, NEW order
  PROVE  \A n \in Nat : \E b : IsLoop(b, act, keys, order, n)
<1> DEFINE Bad == {n \in Nat : ~ \E b : IsLoop(b, act, keys, order, n)}
<1> SUFFICES Bad = {}
  OBVIOUS
<1>1. SUFFICES ASSUME Bad # {} PROVE FALSE
  OBVIOUS
<1>2. PICK m \in Bad : \A n \in Bad : m <= n
  <2>1. Bad \in SUBSET Nat
    OBVIOUS
  <2> HIDE DEF Bad
  <2> QED
    BY <1>1, <2>1, LeastNumber
<1>3. CASE m = 0
  <2> DEFINE b == [i \in 0..0 |-> NoMatch]
  <2>1. b = [i \in 0..0 |-> IF i = 0 THEN NoMatch
                           ELSE Improved(act, keys, b[i - 1], order[i])]
    OBVIOUS
  <2>2. IsLoop(b, act, keys, order, 0)
    BY <2>1 DEF IsLoop
  <2> QED
    BY <1>3, <2>2
<1>4. CASE m # 0
  <2>1. m \in Nat /\ m - 1 \in Nat /\ m - 1 \notin Bad
    BY <1>2, <1>4
  <2>2. PICK b : IsLoop(b, act, keys, order, m - 1)
    BY <2>1
  <2> DEFINE c == [i \in 0..m |->
                     IF i = m THEN Improved(act, keys, b[m - 1], order[m])
                     ELSE b[i]]
  <2>3. /\ b = [i \in 0..(m - 1) |->
                 IF i = 0 THEN NoMatch
                 ELSE Improved(act, keys, b[i - 1], order[i])]
        /\ \A i \in 0..(m - 1) :
             b[i] = IF i = 0 THEN NoMatch
                    ELSE Improved(act, keys, b[i - 1], order[i])
    BY <2>2 DEF IsLoop
  <2>4. \A i \in 0..(m - 1) : i \in 0..m /\ i # m /\ c[i] = b[i]
    BY <2>1
  <2>5. c[m] = Improved(act, keys, b[m - 1], order[m])
    BY <2>1
  <2>6. ASSUME NEW i \in 0..m
        PROVE  c[i] = IF i = 0 THEN NoMatch
                      ELSE Improved(act, keys, c[i - 1], order[i])
    <3>1. CASE i = m
      <4>1. m - 1 \in 0..(m - 1)
        BY <2>1
      <4>2. c[m - 1] = b[m - 1]
        BY <2>4, <4>1
      <4> HIDE DEF c
      <4> QED
        BY <1>4, <2>5, <3>1, <4>2
    <3>2. CASE i # m
      <4>1. i \in 0..(m - 1)
        BY <2>1, <3>2
      <4>2. i # 0 => i - 1 \in 0..(m - 1)
        BY <4>1, <2>1
      <4>3. c[i] = b[i] /\ (i # 0 => c[i - 1] = b[i - 1])
        BY <2>4, <4>1, <4>2
      <4> HIDE DEF c
      <4> QED
        BY <2>3, <4>1, <4>3
    <3> QED
      BY <3>1, <3>2
  <2>7. c = [i \in 0..m |-> c[i]]
    OBVIOUS
  <2>8. IsLoop(c, act, keys, order, m)
    <3> HIDE DEF c
    <3> QED
      BY <2>6, <2>7 DEF IsLoop
  <2> QED
    BY <2>8
<1> QED
  BY <1>3, <1>4

LEMMA LoopSteps ==
  ASSUME NEW act, NEW keys, NEW order, Len(order) \in Nat
  PROVE  LET best == BestUpTo(act, keys, order) IN
         /\ best[0] = NoMatch
         /\ \A n \in 1..Len(order) :
              best[n] = Improved(act, keys, best[n - 1], order[n])
<1> DEFINE best == BestUpTo(act, keys, order)
<1>1. IsLoop(best, act, keys, order, Len(order))
  <2>1. best = CHOOSE b : IsLoop(b, act, keys, order, Len(order))
    BY DEF BestUpTo, IsLoop
  <2>2. \E b : IsLoop(b, act, keys, order, Len(order))
    BY LoopExists
  <2> HIDE DEF best
  <2> QED
    BY <2>1, <2>2
<1> HIDE DEF best
<1>2. \A n \in 0..Len(order) :
        best[n] = IF n = 0 THEN NoMatch
                  ELSE Improved(act, keys, best[n - 1], order[n])
  BY <1>1 DEF IsLoop
<1>3. best[0] = NoMatch
  BY <1>2
<1>4. \A n \in 1..Len(order) : n \in 0..Len(order) /\ n # 0
  OBVIOUS
<1> QED
  BY <1>2, <1>3, <1>4 DEF best
-----------------------------------------------------------------------------
Suits(act, keys, s) == Eligible(act[s], keys) /\ Score(act[s], keys) > 0

BestAmong(act, keys, S, b) ==
  /\ b.score \in Nat
  /\ \A s \in S : Suits(act, keys, s) => Score(act[s], keys) <= b.score
  /\ \/ b = NoMatch
     \/ /\ b.source \in S /\ Suits(act, keys, b.source)
        /\ b.score = Score(act[b.source], keys)

LEMMA ImprovedIsBest ==
  ASSUME NEW act, NEW keys, NEW S, NEW b, NEW s,
         \A t \in S \cup {s} : Score(act[t], keys) \in Nat,
         BestAmong(act, keys, S, b)
  PROVE  BestAmong(act, keys, S \cup {s}, Improved(act, keys, b, s))
<1> DEFINE score == Score(act[s], keys)
<1>1. CASE Eligible(act[s], keys) /\ score > b.score
  <2>1. Improved(act, keys, b, s) = [source |-> s, score |-> score]
    BY <1>1 DEF Improved
  <2>2. b.score \in Nat /\ score \in Nat /\ score > 0 /\ Suits(act, keys, s)
    BY <1>1 DEF BestAmong, Suits
  <2>3. \A t \in S \cup {s} : Suits(act, keys, t) => Score(act[t], keys) <= score
    <3> TAKE t \in S \cup {s}
    <3>1. CASE t = s
      BY <2>2, <3>1
    <3>2. CASE t # s
      <4> SUFFICES ASSUME Suits(act, keys, t) PROVE Score(act[t], keys) <= score
        OBVIOUS
      <4>1. Score(act[t], keys) <= b.score
        BY <3>2 DEF BestAmong
      <4>2. Score(act[t], keys) \in Nat
        OBVIOUS
      <4> QED
        BY <1>1, <2>2, <4>1, <4>2
    <3> QED
      BY <3>1, <3>2
  <2> QED
    BY <2>1, <2>2, <2>3 DEF BestAmong
<1>2. CASE ~(Eligible(act[s], keys) /\ score > b.score)
  <2>1. Improved(act, keys, b, s) = b
    BY <1>2 DEF Improved
  <2>2. Suits(act, keys, s) => score <= b.score
    BY <1>2 DEF Suits, BestAmong
  <2> QED
    BY <2>1, <2>2 DEF BestAmong
<1> QED
  BY <1>1, <1>2

LEMMA LoopIsBest ==
  ASSUME NEW act, NEW keys, NEW order, Len(order) \in Nat,
         \A i \in 1..Len(order) : Score(act[order[i]], keys) \in Nat
  PROVE  BestAmong(act, keys, {order[i] : i \in 1..Len(order)},
                   BestUpTo(act, keys, order)[Len(order)])
<1> DEFINE best == BestUpTo(act, keys, order)
           Seen(n) == {order[i] : i \in 1..n}
           Bad == {n \in 0..Len(order) : ~BestAmong(act, keys, Seen(n), best[n])}
<1>1. /\ best[0] = NoMatch
      /\ \A n \in 1..Len(order) :
           best[n] = Improved(act, keys, best[n - 1], order[n])
  BY LoopSteps
<1> HIDE DEF best
<1>2. Bad = {}
  <2>1. SUFFICES ASSUME Bad # {} PROVE FALSE
    OBVIOUS
  <2>2. PICK m \in Bad : \A n \in Bad : m <= n
    <3>1. Bad \in SUBSET Nat
      OBVIOUS
    <3> HIDE DEF Bad
    <3> QED
      BY <2>1, <3>1, LeastNumber
  <2>3. CASE m = 0
    <3>1. Seen(0) = {} /\ best[0].score = 0
      BY <1>1 DEF NoMatch
    <3>2. BestAmong(act, keys, Seen(0), best[0])
      BY <1>1, <3>1 DEF BestAmong
    <3> QED
      BY <2>3, <3>2
  <2>4. CASE m # 0
    <3>1. m \in 1..Len(order) /\ m - 1 \in 0..Len(order) /\ m - 1 \notin Bad
      <4>1. m \in 0..Len(order) /\ m \in Nat
        OBVIOUS
      <4>2. m - 1 \in Nat /\ ~(m <= m - 1)
        BY <4>1, <2>4
      <4>3. m - 1 \notin Bad
        BY <4>2, <2>2
      <4> QED
        BY <4>1, <4>2, <4>3, <2>4
    <3>2. BestAmong(act, keys, Seen(m - 1), best[m - 1])
      BY <3>1
    <3>3. Seen(m) = Seen(m - 1) \cup {order[m]}
      <4>1. \A i : i \in 1..m <=> i \in 1..(m - 1) \/ i = m
        BY <3>1
      <4> QED
        BY <4>1
    <3>4. \A t \in Seen(m - 1) \cup {order[m]} : Score(act[t], keys) \in Nat
      BY <3>1, <3>3
    <3>5. BestAmong(act, keys, Seen(m - 1) \cup {order[m]}, best[m])
      <4> HIDE DEF Seen
      <4> QED
        BY <1>1, <3>1, <3>2, <3>4, ImprovedIsBest
    <3> QED
      BY <3>3, <3>5
  <2> QED
    BY <2>3, <2>4
<1>3. Len(order) \in 0..Len(order)
  OBVIOUS
<1> QED
  BY <1>2, <1>3 DEF best

(* An order of the mappings has each of them.                              *)
LEMMA OrderHasAll ==
  ASSUME NEW S, IsFiniteSet(S), NEW order \in SetToSeqs(S)
  PROVE  /\ Len(order) \in Nat
         /\ {order[i] : i \in 1..Len(order)} = S
         /\ \A i \in 1..Len(order) : order[i] \in S
<1> DEFINE n == Cardinality(S)
<1>1. n \in Nat
  BY FS_CardinalityType
<1>2. order \in [1..n -> S] /\ \A i, j \in 1..n : i # j => order[i] # order[j]
  BY DEF SetToSeqs
<1>3. IsFiniteSet(1..n) /\ Cardinality(1..n) = n
  BY <1>1, FS_Interval
<1>4. order \in Injection(1..n, S)
  BY <1>2 DEF Injection, IsInjective
<1>5. order \in Surjection(1..n, S)
  BY <1>3, <1>4, FS_Injection
<1>6. Len(order) = n
  <2> HIDE DEF n
  <2> QED
    BY <1>1, <1>2
<1>7. \A s \in S : \E i \in 1..n : order[i] = s
  BY <1>5 DEF Surjection
<1> QED
  BY <1>1, <1>2, <1>6, <1>7
-----------------------------------------------------------------------------
(* The loaded mappings are finitely many, as requests add one at a time.   *)
FiniteInv == IsFiniteSet(DOMAIN active)

LEMMA RangeOf ==
  ASSUME NEW f, NEW i \in DOMAIN f PROVE f[i] \in Range(f)
BY DEF Range

(* What a list of rules must have to be loaded.                            *)
Sound(rule) ==
  \/ rule.transform = << >>
  \/ Len(rule.transform) = 2 /\ rule.transform[1] \in Operation

WellFormed(list) ==
  /\ list \in Seq(Range(list)) \ {<< >>}
  /\ \A rule \in Range(list) : Sound(rule)

LEMMA TwoRules ==
  ASSUME NEW a, NEW b, Sound(a), Sound(b) PROVE WellFormed(<<a, b>>)
<1> DEFINE t == <<a, b>>
<1>1. Len(t) = 2 /\ DOMAIN t = 1..2 /\ t[1] = a /\ t[2] = b
  OBVIOUS
<1>2. Range(t) = {a, b}
  BY <1>1 DEF Range
<1>3. t \in Seq({a, b}) /\ t # << >>
  OBVIOUS
<1> QED
  BY <1>2, <1>3 DEF WellFormed

LEMMA FourRules ==
  ASSUME NEW a, NEW b, NEW c, NEW d, Sound(a), Sound(b), Sound(c), Sound(d)
  PROVE  WellFormed(<<a, b, c, d>>)
<1> DEFINE t == <<a, b, c, d>>
<1>1. /\ Len(t) = 4 /\ DOMAIN t = 1..4
      /\ t[1] = a /\ t[2] = b /\ t[3] = c /\ t[4] = d
  OBVIOUS
<1>2. Range(t) = {a, b, c, d}
  BY <1>1 DEF Range
<1>3. t \in Seq({a, b, c, d}) /\ t # << >>
  OBVIOUS
<1> QED
  BY <1>2, <1>3 DEF WellFormed

LEMMA SeedRules ==
  ASSUME NEW source, NEW target, NEW type
  PROVE  LET rule == Rule(source, target, type) IN
         /\ Sound(rule)
         /\ Sound([rule EXCEPT !.required = TRUE])
         /\ \A default : Sound([rule EXCEPT !.default = default])
         /\ Sound([rule EXCEPT !.transform = <<"divide", 10>>])
BY DEF Sound, Rule, Operation

LEMMA SeedsWellFormed ==
  ASSUME NEW seed \in {SeedUltra, SeedLegacy, SeedOptimized}
  PROVE  /\ DOMAIN seed \in {{"Inv"}, {"current_format"}, {"Inv", "current_format"}}
         /\ \A s \in DOMAIN seed : WellFormed(seed[s].rules)
<1>1. CASE seed = SeedUltra
  <2>1. DOMAIN seed = {"Inv"}
    BY <1>1 DEF SeedUltra
  <2>2. WellFormed(SeedUltra["Inv"].rules)
    BY FourRules, SeedRules DEF SeedUltra
  <2> QED
    BY <1>1, <2>1, <2>2
<1>2. CASE seed = SeedLegacy
  <2>1. DOMAIN seed = {"current_format"}
    BY <1>2 DEF SeedLegacy
  <2>2. WellFormed(SeedLegacy["current_format"].rules)
    BY TwoRules, SeedRules DEF SeedLegacy
  <2> QED
    BY <1>2, <2>1, <2>2
<1>3. CASE seed = SeedOptimized
  <2>1. DOMAIN seed = {"Inv", "current_format"}
    BY <1>3 DEF SeedOptimized
  <2>2. WellFormed(SeedOptimized["Inv"].rules)
    BY FourRules, SeedRules DEF SeedOptimized
  <2>3. WellFormed(SeedOptimized["current_format"].rules)
    BY TwoRules, SeedRules DEF SeedOptimized
  <2> QED
    BY <1>3, <2>1, <2>2, <2>3
<1> QED
  BY <1>1, <1>2, <1>3

LEMMA TypeInit == Init => TypeOK /\ FiniteInv
<1> SUFFICES ASSUME Init PROVE TypeOK /\ FiniteInv
  OBVIOUS
<1>1. /\ DOMAIN active \in {{"Inv"}, {"current_format"}, {"Inv", "current_format"}}
      /\ \A s \in DOMAIN active : WellFormed(active[s].rules)
  BY SeedsWellFormed DEF Init
<1>2. DOMAIN active \subseteq Source
  BY <1>1, SourceAssumption
<1>3. changes \in 0..MaxChanges
  BY BoundAssumption DEF Init
<1>4. FiniteInv
  <2>1. IsFiniteSet({"Inv"}) /\ IsFiniteSet({"current_format"})
    BY FS_Singleton
  <2>2. IsFiniteSet({"Inv"} \cup {"current_format"})
    BY <2>1, FS_AddElement
  <2>3. {"Inv"} \cup {"current_format"} = {"Inv", "current_format"}
    OBVIOUS
  <2> QED
    BY <1>1, <2>1, <2>2, <2>3 DEF FiniteInv
<1> QED
  BY <1>1, <1>2, <1>3, <1>4 DEF TypeOK, WellFormed, Sound, Rules

LEMMA TypeStep ==
  TypeOK /\ FiniteInv /\ [Next]_vars => (TypeOK /\ FiniteInv)'
<1> SUFFICES ASSUME TypeOK, FiniteInv, [Next]_vars PROVE (TypeOK /\ FiniteInv)'
  OBVIOUS
<1>1. \A s \in DOMAIN active : WellFormed(active[s].rules)
  BY DEF TypeOK, WellFormed, Sound, Rules
<1>2. ASSUME NEW request \in Request, SaveMapping(request)
      PROVE  (TypeOK /\ FiniteInv)'
  <2>1. changes' \in 0..MaxChanges
    BY <1>2, BoundAssumption DEF SaveMapping, TypeOK
  <2>2. CASE ~Valid(request)
    <3>1. active' = active
      BY <1>2, <2>2 DEF SaveMapping
    <3> QED
      BY <2>1, <3>1 DEF TypeOK, FiniteInv
  <2>3. CASE Valid(request)
    <3>1. active' = Saved(request)
      BY <1>2, <2>3 DEF SaveMapping
    <3>2. WellFormed(MappingOf(request).rules)
      BY <2>3, RequestAssumption DEF Valid, WellFormed, Sound, MappingOf, Rules
    <3>3. request.source_id \in Source
      BY <2>3, RequestAssumption DEF Valid
    <3>4. DOMAIN active' = DOMAIN active \cup {request.source_id}
      BY <3>1 DEF Saved
    <3>5. \A s \in DOMAIN active' : WellFormed(active'[s].rules)
      BY <1>1, <3>1, <3>2 DEF Saved
    <3>6. IsFiniteSet(DOMAIN active')
      BY <3>4, FS_AddElement DEF FiniteInv
    <3> QED
      BY <2>1, <3>3, <3>4, <3>5, <3>6 DEF TypeOK, FiniteInv, WellFormed, Sound, Rules
  <2> QED
    BY <2>2, <2>3
<1>3. ASSUME NEW s \in DOMAIN active, DeleteMapping(s)
      PROVE  (TypeOK /\ FiniteInv)'
  <2>1. active' = [x \in DOMAIN active \ {s} |-> active[x]]
    BY <1>3 DEF DeleteMapping
  <2>2. IsFiniteSet(DOMAIN active')
    BY <2>1, FS_Subset DEF FiniteInv
  <2>3. changes' \in 0..MaxChanges
    BY <1>3, BoundAssumption DEF DeleteMapping, TypeOK
  <2>4. \A x \in DOMAIN active' : WellFormed(active'[x].rules)
    BY <1>1, <2>1
  <2> QED
    BY <2>1, <2>2, <2>3, <2>4 DEF TypeOK, FiniteInv, WellFormed, Sound, Rules
<1>4. ASSUME UNCHANGED <<active, changes>> PROVE (TypeOK /\ FiniteInv)'
  BY <1>4 DEF TypeOK, FiniteInv
<1>5. ASSUME NEW payload \in Payload,
             \/ LegacyMaps(payload) \/ OptimizedMaps(payload)
             \/ UltraMaps(payload) \/ FormatMaps(payload)
             \/ \E request \in Tested : TestMapping(request, payload)
      PROVE  UNCHANGED <<active, changes>>
  BY <1>5 DEF LegacyMaps, OptimizedMaps, UltraMaps, FormatMaps, TestMapping,
              Answer
<1> QED
  BY <1>2, <1>3, <1>4, <1>5 DEF Next, vars

(* The mappings that serve are of valid requests or seeds, their rules     *)
(* have at most one transform of a known operation.                        *)
THEOREM RulesTypeCorrect == Spec => []TypeOK
<1>1. Init => TypeOK /\ FiniteInv
  BY TypeInit
<1>2. TypeOK /\ FiniteInv /\ [Next]_vars => (TypeOK /\ FiniteInv)'
  BY TypeStep
<1> QED
  BY <1>1, <1>2, PTL DEF Spec

LEMMA AlwaysTyped == Spec => [](TypeOK /\ FiniteInv)
BY TypeInit, TypeStep, PTL DEF Spec
-----------------------------------------------------------------------------
(* What a step does to last: a call of a mapper sets it, and nothing else. *)
Calls(payload) ==
  \/ LegacyMaps(payload) \/ OptimizedMaps(payload)
  \/ UltraMaps(payload) \/ FormatMaps(payload)
  \/ \E request \in Tested : TestMapping(request, payload)

LEMMA StepsOfLast ==
  [Next]_vars => \/ UNCHANGED <<active, last>>
                 \/ last' = Nothing
                 \/ \E payload \in Payload : Calls(payload)
BY DEF Next, vars, Calls, SaveMapping, DeleteMapping, Idle

LEMMA NobodyCalled ==
  ASSUME last' = Nothing
  PROVE  \A who : last'.by \in who => "nobody" \in who
BY DEF Nothing

(* Who was called: only the two that compute scores detect by keys.        *)
LEMMA ScoreCalls ==
  ASSUME NEW payload, Calls(payload), last'.by \in {"legacy", "optimized"}
  PROVE  /\ UNCHANGED active /\ last'.payload = payload
         /\ last'.source \in DetectedByKeys(active, payload)
         /\ last'.mapping = IF last'.source \in DOMAIN active
                              THEN active[last'.source] ELSE None
         /\ last'.source \in DOMAIN active \ {None} =>
              last'.fields \in {Strict(last'.mapping, payload, LegacyWritten),
                               Strict(last'.mapping, payload, OptimizedWritten)}
<1>1. CASE LegacyMaps(payload)
  BY <1>1 DEF LegacyMaps, Answer
<1>2. CASE OptimizedMaps(payload)
  BY <1>2 DEF OptimizedMaps, Answer
<1>3. CASE UltraMaps(payload)
  BY <1>3 DEF UltraMaps, Answer
<1>4. CASE FormatMaps(payload)
  BY <1>4 DEF FormatMaps, Answer
<1>5. CASE \E request \in Tested : TestMapping(request, payload)
  BY <1>5 DEF TestMapping
<1> QED
  BY <1>1, <1>2, <1>3, <1>4, <1>5 DEF Calls
-----------------------------------------------------------------------------
LEMMA ScoreNat ==
  ASSUME TypeOK, NEW s \in DOMAIN active, NEW keys
  PROVE  Score(active[s], keys) \in Nat
<1> DEFINE rules == active[s].rules
           hits == {i \in DOMAIN rules : rules[i].source \in keys}
<1>1. rules \in Seq(Range(rules))
  BY DEF TypeOK, Rules
<1>2. DOMAIN rules = 1..Len(rules) /\ Len(rules) \in Nat
  BY <1>1
<1>3. IsFiniteSet(DOMAIN rules)
  BY <1>2, FS_Interval
<1>4. Cardinality(hits) \in Nat
  BY <1>3, FS_Subset, FS_CardinalityType
<1> QED
  BY <1>4 DEF Score

(* A source detected without a hint is the best of all the mappings.       *)
LEMMA DetectedIsBest ==
  ASSUME TypeOK, FiniteInv, NEW payload, Hinted(active, payload) = {},
         NEW s \in DetectedByKeys(active, payload)
  PROVE  \E b : /\ BestAmong(active, Keys(payload), DOMAIN active, b)
                /\ s = b.source
<1> DEFINE keys == Keys(payload)
<1>1. PICK order \in SetToSeqs(DOMAIN active) : s = BestOf(active, payload, order)
  BY DEF DetectedByKeys
<1>2. /\ Len(order) \in Nat
      /\ {order[i] : i \in 1..Len(order)} = DOMAIN active
      /\ \A i \in 1..Len(order) : order[i] \in DOMAIN active
  BY OrderHasAll DEF FiniteInv
<1>3. \A i \in 1..Len(order) : Score(active[order[i]], keys) \in Nat
  BY <1>2, ScoreNat
<1>4. BestAmong(active, keys, DOMAIN active,
                BestUpTo(active, keys, order)[Len(order)])
  <2> HIDE DEF keys
  <2> QED
    BY <1>2, <1>3, LoopIsBest
<1> QED
  BY <1>1, <1>4 DEF BestOf

(* Every mapping that matches enough passes the test of the loop, whose    *)
(* threshold is the integer part of 40 %.                                  *)
LEMMA EnoughSuits ==
  ASSUME TypeOK, NEW keys, NEW s \in DOMAIN active,
         RequiredIn(active[s], keys), MatchEnough(active[s], keys)
  PROVE  Suits(active, keys, s)
<1> DEFINE n == Len(active[s].rules)
           score == Score(active[s], keys)
<1>1. score \in Nat
  BY ScoreNat
<1>2. n \in Nat /\ n >= 1
  <2>1. active[s].rules \in Seq(Rules(active[s])) /\ active[s].rules # << >>
    BY DEF TypeOK
  <2> QED
    BY <2>1
<1>3. 100 * score >= 40 * n
  BY DEF MatchEnough
<1> HIDE DEF n, score
<1>4. score > 0 /\ score >= (n * 40) \div 100
  BY <1>1, <1>2, <1>3
<1> QED
  BY <1>4 DEF Suits, Eligible, Threshold, n, score

LEMMA DetectionStep ==
  TypeOK /\ FiniteInv /\ DetectionIsBest /\ [Next]_vars => DetectionIsBest'
<1> SUFFICES ASSUME TypeOK, FiniteInv, DetectionIsBest, [Next]_vars
             PROVE  DetectionIsBest'
  OBVIOUS
<1>1. CASE UNCHANGED <<active, last>>
  BY <1>1 DEF DetectionIsBest, By
<1>2. CASE last' = Nothing
  BY <1>2, NobodyCalled DEF DetectionIsBest, By
<1>3. ASSUME NEW payload \in Payload, Calls(payload)
      PROVE  DetectionIsBest'
  <2>1. SUFFICES ASSUME last'.by \in {"legacy", "optimized"},
                        Hinted(active', last'.payload) = {}
                 PROVE  DetectionIsBest'
    BY DEF DetectionIsBest, By
  <2>2. /\ active' = active /\ last'.payload = payload
        /\ last'.source \in DetectedByKeys(active, payload)
    BY <1>3, <2>1, ScoreCalls
  <2>3. PICK b : /\ BestAmong(active, Keys(payload), DOMAIN active, b)
                 /\ last'.source = b.source
    BY <2>1, <2>2, DetectedIsBest
  <2> DEFINE keys == Keys(payload)
             considered == {s \in DOMAIN active :
                              /\ RequiredIn(active[s], keys)
                              /\ MatchEnough(active[s], keys)}
  <2>4. \A s \in considered : s \in DOMAIN active /\ Suits(active, keys, s)
    BY EnoughSuits
  <2>5. considered # {} =>
          /\ last'.source \in DOMAIN active
          /\ RequiredIn(active[last'.source], keys)
          /\ \A s \in considered :
               Score(active[s], keys) <= Score(active[last'.source], keys)
    <3> HIDE DEF considered, keys
    <3> SUFFICES ASSUME considered # {}
                 PROVE  /\ last'.source \in DOMAIN active
                        /\ RequiredIn(active[last'.source], keys)
                        /\ \A s \in considered : Score(active[s], keys)
                              <= Score(active[last'.source], keys)
      OBVIOUS
    <3>1. b # NoMatch
      <4> SUFFICES ASSUME b = NoMatch PROVE FALSE
        OBVIOUS
      <4>1. PICK s \in considered : TRUE
        OBVIOUS
      <4>2. Score(active[s], keys) <= 0 /\ Score(active[s], keys) > 0
        BY <2>3, <2>4, <4>1 DEF BestAmong, NoMatch, Suits, keys
      <4>3. Score(active[s], keys) \in Nat
        BY <2>4, <4>1, ScoreNat
      <4> QED
        BY <4>2, <4>3
    <3>2. /\ b.source \in DOMAIN active /\ Suits(active, keys, b.source)
          /\ b.score = Score(active[b.source], keys)
      BY <2>3, <3>1 DEF BestAmong, keys
    <3>3. RequiredIn(active[b.source], keys)
      BY <3>2 DEF Suits, Eligible
    <3> QED
      BY <2>3, <2>4, <3>2, <3>3 DEF BestAmong, keys
  <2> QED
    BY <2>2, <2>5 DEF DetectionIsBest
<1> QED
  BY <1>1, <1>2, <1>3, StepsOfLast

(* For any mappings, any payload and any order in which Go iterates: where *)
(* a mapping matches at least 40 %, what is detected by keys has its       *)
(* required fields and scores as high as every such mapping.               *)
THEOREM BestIsDetected == Spec => []DetectionIsBest
<1>1. Init => DetectionIsBest
  BY DEF Init, DetectionIsBest, By, Nothing
<1> QED
  BY <1>1, DetectionStep, AlwaysTyped, PTL DEF Spec
-----------------------------------------------------------------------------
(* A rule finds no value only where its field is neither in the root nor   *)
(* in the object at nested_path: what detection saw was in another one.    *)
LEMMA UnreadIsElsewhere ==
  ASSUME NEW path, NEW payload, NEW field,
         Reading(path, payload, field) = {}, field \in Keys(payload)
  PROVE  \E p \in DOMAIN payload.objects \ ({path} \ {""}) :
           field \in DOMAIN payload.objects[p]
<1>1. ~(/\ path \in DOMAIN payload.objects \ {""}
        /\ field \in DOMAIN payload.objects[path])
  BY DEF Reading
<1>2. field \notin DOMAIN Root(payload)
  BY <1>1 DEF Reading
<1> QED
  BY <1>1, <1>2 DEF Keys

LEMMA DetectedMapsStep ==
  TypeOK /\ FiniteInv /\ DetectedMaps /\ [Next]_vars => DetectedMaps'
<1> SUFFICES ASSUME TypeOK, FiniteInv, DetectedMaps, [Next]_vars
             PROVE  DetectedMaps'
  OBVIOUS
<1>1. CASE UNCHANGED <<active, last>>
  BY <1>1 DEF DetectedMaps, By, Found
<1>2. CASE last' = Nothing
  BY <1>2, NobodyCalled DEF DetectedMaps, By
<1>3. ASSUME NEW payload \in Payload, Calls(payload)
      PROVE  DetectedMaps'
  <2>1. SUFFICES ASSUME last'.by \in {"legacy", "optimized"},
                        Hinted(active', last'.payload) = {},
                        last'.mapping # None, last'.fields = {}
                 PROVE  DetectedMaps'
    BY DEF DetectedMaps, By, Found
  <2> DEFINE s == last'.source
  <2>2. /\ active' = active /\ last'.payload = payload
        /\ s \in DetectedByKeys(active, payload)
        /\ s \in DOMAIN active /\ last'.mapping = active[s]
    BY <1>3, <2>1, ScoreCalls
  <2>3. s # None
    BY <2>2, SourceAssumption DEF TypeOK
  <2>4. RequiredMissing(active[s], payload)
    <3>1. \/ last'.fields = Strict(active[s], payload, LegacyWritten)
          \/ last'.fields = Strict(active[s], payload, OptimizedWritten)
      BY <1>3, <2>1, <2>2, <2>3, ScoreCalls
    <3> QED
      BY <2>1, <3>1 DEF Strict
  <2>5. PICK rule \in Rules(active[s]) :
          rule.required /\ ReadingOrDefault(active[s], payload, rule) = {}
    BY <2>4 DEF RequiredMissing
  <2>6. Reading(active[s].path, payload, rule.source) = {}
    BY <2>5 DEF ReadingOrDefault
  <2>7. rule.source \in Keys(payload)
    <3>1. PICK b : /\ BestAmong(active, Keys(payload), DOMAIN active, b)
                   /\ s = b.source
      BY <2>1, <2>2, DetectedIsBest
    <3>2. Suits(active, Keys(payload), s)
      BY <2>3, <3>1 DEF BestAmong, NoMatch
    <3> QED
      BY <2>5, <3>2 DEF Suits, Eligible, RequiredIn
  <2>8. \E p \in DOMAIN payload.objects \ ({active[s].path} \ {""}) :
          rule.source \in DOMAIN payload.objects[p]
    BY <2>6, <2>7, UnreadIsElsewhere
  <2> QED
    BY <2>2, <2>5, <2>8 DEF DetectedMaps
<1> QED
  BY <1>1, <1>2, <1>3, StepsOfLast

(* For any mappings and payload: a source detected by its keys fails to    *)
(* map only for a required field that is in an object MapFields does not   *)
(* read.                                                                   *)
THEOREM DetectedFailsElsewhere == Spec => []DetectedMaps
<1>1. Init => DetectedMaps
  <2>1. Init => ~By({"legacy", "optimized"})
    BY DEF Init, By, Nothing
  <2> QED
    BY <2>1 DEF DetectedMaps
<1> QED
  BY <1>1, DetectedMapsStep, AlwaysTyped, PTL DEF Spec
-----------------------------------------------------------------------------
(* MapFields.  A rule that has a value and is the last with one for its    *)
(* target decides what is written there.                                   *)
NoneLater(mapping, payload, i) ==
  \A j \in (i + 1)..Len(mapping.rules) :
    mapping.rules[j].target = mapping.rules[i].target =>
      ReadingOrDefault(mapping, payload, mapping.rules[j]) = {}

LastWithValue(mapping, payload, i) ==
  i \in Given(mapping, payload) /\ NoneLater(mapping, payload, i)

LEMMA GivenPlaces ==
  ASSUME NEW mapping, NEW payload, mapping.rules \in Seq(Rules(mapping)),
         NEW target, NEW i \in Given(mapping, payload),
         mapping.rules[i].target = target
  PROVE  LET d == Deciding(mapping, payload, target) IN
         /\ d \in Given(mapping, payload) /\ mapping.rules[d].target = target
         /\ i <= d /\ d \in 1..Len(mapping.rules)
<1> DEFINE T == {j \in Given(mapping, payload) : mapping.rules[j].target = target}
<1>1. Len(mapping.rules) \in Nat /\ DOMAIN mapping.rules = 1..Len(mapping.rules)
  OBVIOUS
<1>2. T \subseteq 1..Len(mapping.rules) /\ i \in T
  BY <1>1 DEF Given
<1>3. Max(T) \in T /\ i <= Max(T)
  <2> HIDE DEF T
  <2> QED
    BY <1>1, <1>2, LastPlace
<1> QED
  BY <1>2, <1>3 DEF Deciding

LEMMA LastDecides ==
  ASSUME NEW mapping, NEW payload, mapping.rules \in Seq(Rules(mapping)),
         NEW i, LastWithValue(mapping, payload, i)
  PROVE  Deciding(mapping, payload, mapping.rules[i].target) = i
<1> DEFINE d == Deciding(mapping, payload, mapping.rules[i].target)
<1>1. i \in Given(mapping, payload) /\ i \in 1..Len(mapping.rules)
  BY DEF LastWithValue, Given
<1>2. /\ d \in Given(mapping, payload) /\ i <= d /\ d \in 1..Len(mapping.rules)
      /\ mapping.rules[d].target = mapping.rules[i].target
  BY <1>1, GivenPlaces
<1> HIDE DEF d
<1>3. ~(d \in (i + 1)..Len(mapping.rules))
  BY <1>2 DEF LastWithValue, NoneLater, Given
<1> QED
  BY <1>1, <1>2, <1>3 DEF d

LEMMA WrittenByLast ==
  ASSUME NEW mapping, NEW payload, mapping.rules \in Seq(Rules(mapping)),
         NEW i, LastWithValue(mapping, payload, i)
  PROVE  LET rule == mapping.rules[i] IN
         /\ rule.target \in DOMAIN Mapped(mapping, payload, LegacyWritten)
         /\ Mapped(mapping, payload, LegacyWritten)[rule.target] =
              LegacyWritten(mapping, payload, rule)
         /\ rule.target \in DOMAIN Mapped(mapping, payload, UltraWritten)
         /\ Mapped(mapping, payload, UltraWritten)[rule.target] =
              UltraWritten(mapping, payload, rule)
<1>1. Deciding(mapping, payload, mapping.rules[i].target) = i
  BY LastDecides
<1>2. i \in Given(mapping, payload)
  BY DEF LastWithValue
<1> QED
  BY <1>1, <1>2 DEF Mapped

(* A value that was read is the only one, and is what is converted.        *)
LEMMA ReadingIsValue ==
  ASSUME NEW mapping, NEW payload, NEW rule,
         NEW v \in Reading(mapping.path, payload, rule.source)
  PROVE  /\ Reading(mapping.path, payload, rule.source) = {v}
         /\ ReadingOrDefault(mapping, payload, rule) = {v}
         /\ ValueOf(mapping, payload, rule) = v
<1>1. Reading(mapping.path, payload, rule.source) = {v}
  BY DEF Reading
<1>2. ReadingOrDefault(mapping, payload, rule) = {v}
  BY <1>1 DEF ReadingOrDefault
<1> QED
  BY <1>1, <1>2 DEF ValueOf

LEMMA ReadingTyped ==
  ASSUME NEW payload \in Payload, NEW path, NEW field,
         NEW v \in Reading(path, payload, field)
  PROVE  v \in Value
<1>1. [type |-> "object", n |-> 0] \in Value
  BY DEF Value, ValueType
<1>2. \A x \in DOMAIN Root(payload) : Root(payload)[x] \in Value
  BY <1>1, PayloadAssumption DEF Root
<1> QED
  BY <1>2, PayloadAssumption DEF Reading
-----------------------------------------------------------------------------
(* Kept as a name, so that a rule stays a term of its own in the proofs.   *)
RuleAt(mapping, i, rule) == i \in DOMAIN mapping.rules /\ rule = mapping.rules[i]

LegacyFields(mapping, payload) == Mapped(mapping, payload, LegacyWritten)

LEMMA DecidingWrites ==
  ASSUME NEW mapping, NEW payload, mapping.rules \in Seq(Rules(mapping)),
         NEW i, NEW rule, RuleAt(mapping, i, rule),
         NEW v \in Reading(mapping.path, payload, rule.source),
         NoneLater(mapping, payload, i)
  PROVE  /\ LegacyFields(mapping, payload)[rule.target] =
              LegacyConverted(rule, v)
         /\ rule.target \in DOMAIN UltraFields(mapping, payload)
         /\ UltraFields(mapping, payload)[rule.target] = UltraConverted(rule, v)
<1>1. /\ Reading(mapping.path, payload, rule.source) = {v}
      /\ ReadingOrDefault(mapping, payload, rule) = {v}
      /\ ValueOf(mapping, payload, rule) = v
  BY ReadingIsValue
<1>2. LastWithValue(mapping, payload, i)
  BY <1>1 DEF LastWithValue, Given, RuleAt
<1>3. /\ Mapped(mapping, payload, LegacyWritten)[rule.target] =
           LegacyWritten(mapping, payload, rule)
      /\ rule.target \in DOMAIN Mapped(mapping, payload, UltraWritten)
      /\ Mapped(mapping, payload, UltraWritten)[rule.target] =
           UltraWritten(mapping, payload, rule)
  BY <1>2, WrittenByLast DEF RuleAt
<1> QED
  BY <1>1, <1>3 DEF LegacyWritten, UltraWritten, UltraFields, LegacyFields

(* A call, its mapping and its payload; and a rule of it that decides.     *)
CallOf(call, mapping, payload) ==
  call.mapping = mapping /\ call.payload = payload

LEMMA CallDecides ==
  ASSUME NEW call, NEW mapping, NEW payload, CallOf(call, mapping, payload),
         NEW i, NEW rule, RuleAt(mapping, i, rule),
         Decides(call, i), NEW v \in ReadingOf(call, rule),
         mapping.rules \in Seq(Rules(mapping))
  PROVE  /\ v \in Reading(mapping.path, payload, rule.source)
         /\ LegacyFields(mapping, payload)[rule.target] =
              LegacyConverted(rule, v)
         /\ rule.target \in DOMAIN UltraFields(mapping, payload)
         /\ UltraFields(mapping, payload)[rule.target] = UltraConverted(rule, v)
<1>1. v \in Reading(mapping.path, payload, rule.source)
  BY DEF ReadingOf, CallOf
<1>2. NoneLater(mapping, payload, i)
  BY DEF Decides, NoneLater, CallOf
<1> QED
  BY <1>1, <1>2, DecidingWrites
-----------------------------------------------------------------------------
(* How the fields of the live mapper become a record.                      *)
LEMMA OneKey ==
  ASSUME NEW data, NEW key, NEW types, NEW default,
         key \in DOMAIN data, data[key].type \in types
  PROVE  FirstOf(data, <<key>>, types, default) = data[key]
<1>1. DOMAIN <<key>> = {1} /\ <<key>>[1] = key
  OBVIOUS
<1>2. Usable(data, <<key>>, types) = {1}
  BY <1>1 DEF Usable
<1>3. Min({1}) = 1
  BY DEF Min
<1> QED
  BY <1>1, <1>2, <1>3 DEF FirstOf

LEMMA UltraCall ==
  ASSUME TypeOK, NEW payload, Calls(payload), last'.by = "ultra",
         last'.mapping # None
  PROVE  \E m : /\ CallOf(last', m, payload) /\ m.rules \in Seq(Rules(m))
                /\ last'.source \in DOMAIN active /\ m = active[last'.source]
                /\ last'.fields = {UltraFields(m, payload)}
                /\ last'.record = {RecordOf(UltraFields(m, payload), LiveKeys)}
<1>1. UltraMaps(payload)
  BY DEF Calls, LegacyMaps, OptimizedMaps, UltraMaps, FormatMaps, TestMapping,
         Answer
<1>2. PICK s : LET fields == IF s = None THEN {}
                             ELSE {UltraFields(active[s], payload)}
               IN Answer("ultra", payload, s, fields,
                         {RecordOf(data, LiveKeys) : data \in fields})
  BY <1>1 DEF UltraMaps
<1>3. /\ last'.payload = payload /\ last'.source = s
      /\ last'.mapping = IF s \in DOMAIN active THEN active[s] ELSE None
  BY <1>2 DEF Answer
<1>4. s \in DOMAIN active /\ s # None
  BY <1>3, SourceAssumption DEF TypeOK
<1>5. last'.fields = {UltraFields(active[s], payload)}
  BY <1>2, <1>4 DEF Answer
<1>6. last'.record = {RecordOf(UltraFields(active[s], payload), LiveKeys)}
  BY <1>2, <1>4 DEF Answer
<1>7. CallOf(last', active[s], payload) /\ active[s].rules \in Seq(Rules(active[s]))
  BY <1>3, <1>4 DEF CallOf, TypeOK
<1> QED
  BY <1>3, <1>4, <1>5, <1>6, <1>7

(* A number that the live mapper writes under the name of a field.         *)
LEMMA NumberReachesRecord ==
  ASSUME NEW data, NEW n \in Int, NEW field \in {"power", "pv3", "alarm"},
         StandardField[field] \in DOMAIN data,
         data[StandardField[field]] = Float(n)
  PROVE  RecordOf(data, LiveKeys)[field] =
           IF field = "alarm" THEN Truncated(n) ELSE n
<1>1. Float(n).type = "float" /\ Float(n).n = n
  BY DEF Float
<1>2. CASE field = "power"
  <2>1. FirstOf(data, <<"total_output_power">>, {"float", "int", "digits"},
                Integer(0)) = Float(n)
    BY <1>1, <1>2, OneKey DEF StandardField
  <2>2. GetFloat(data, LiveKeys.power) = n
    BY <1>1, <2>1 DEF GetFloat, LiveKeys
  <2> QED
    BY <1>2, <2>2 DEF RecordOf
<1>3. CASE field = "pv3"
  <2>1. FirstOf(data, <<"pv3_voltage">>, {"float", "int", "digits"},
                Integer(0)) = Float(n)
    BY <1>1, <1>3, OneKey DEF StandardField
  <2>2. GetFloat(data, LiveKeys.pv3) = n
    BY <1>1, <2>1 DEF GetFloat, LiveKeys
  <2> QED
    BY <1>3, <2>2 DEF RecordOf
<1>4. CASE field = "alarm"
  <2>1. FirstOf(data, <<"alarm1">>, {"float", "int"}, Integer(0)) = Float(n)
    BY <1>1, <1>4, OneKey DEF StandardField
  <2>2. GetInt(data, LiveKeys.alarm) = Truncated(n)
    BY <1>1, <2>1 DEF GetInt, LiveKeys
  <2> QED
    BY <1>4, <2>2 DEF RecordOf
<1> QED
  BY <1>2, <1>3, <1>4

LEMMA ReadingsStep ==
  TypeOK /\ ReadingsReachRecord /\ [Next]_vars => ReadingsReachRecord'
<1> SUFFICES ASSUME TypeOK, ReadingsReachRecord, [Next]_vars
             PROVE  ReadingsReachRecord'
  OBVIOUS
<1>1. CASE UNCHANGED <<active, last>>
  BY <1>1 DEF ReadingsReachRecord, By, Found
<1>2. CASE last' = Nothing
  BY <1>2, NobodyCalled DEF ReadingsReachRecord, By
<1>3. ASSUME NEW payload \in Payload, Calls(payload),
             last'.by = "ultra", last'.mapping # None
      PROVE  ReadingsReachRecord'
  <2>1. PICK m : /\ CallOf(last', m, payload) /\ m.rules \in Seq(Rules(m))
                 /\ last'.record = {RecordOf(UltraFields(m, payload), LiveKeys)}
    BY <1>3, UltraCall
  <2>2. ASSUME NEW i \in DOMAIN last'.mapping.rules,
               NEW field \in {"power", "pv3", "alarm"},
               NEW v \in ReadingOf(last', last'.mapping.rules[i]),
               NEW record \in last'.record,
               v.type = "float", last'.mapping.rules[i].type # "string",
               last'.mapping.rules[i].transform = << >>,
               last'.mapping.rules[i].target = StandardField[field],
               Decides(last', i)
        PROVE  record[field] = IF field = "alarm" THEN Truncated(v.n) ELSE v.n
    <3> DEFINE data == UltraFields(m, payload)
    <3>1. PICK rule : RuleAt(m, i, rule)
      BY <2>1 DEF RuleAt, CallOf
    <3>2. v \in ReadingOf(last', rule) /\ rule.type # "string"
          /\ rule.target = StandardField[field]
      BY <2>1, <2>2, <3>1 DEF RuleAt, CallOf
    <3>3. /\ v \in Reading(m.path, payload, rule.source)
          /\ rule.target \in DOMAIN data
          /\ data[rule.target] = UltraConverted(rule, v)
      BY <2>1, <2>2, <3>1, <3>2, CallDecides
    <3>4. v.n \in Int
      BY <3>3, ReadingTyped DEF Value
    <3>5. UltraConverted(rule, v) = Float(v.n)
      <4>1. Number(v) * ScaleFactor(rule.transform) = v.n
        BY <2>2, <3>4 DEF Number, ScaleFactor
      <4> QED
        BY <3>2, <4>1 DEF UltraConverted
    <3>6. record = RecordOf(data, LiveKeys)
      BY <2>1
    <3> HIDE DEF data
    <3> QED
      BY <3>2, <3>3, <3>4, <3>5, <3>6, NumberReachesRecord
  <2> QED
    BY <2>2 DEF ReadingsReachRecord
<1> QED
  BY <1>1, <1>2, <1>3, StepsOfLast DEF ReadingsReachRecord, By, Found

(* For any mapping and payload: a number that a rule without a transform   *)
(* maps to the name of a field is in the record of the live mapper.        *)
THEOREM ReadingsAreInRecord == Spec => []ReadingsReachRecord
<1>1. Init => ReadingsReachRecord
  BY DEF Init, ReadingsReachRecord, By, Nothing
<1> QED
  BY <1>1, ReadingsStep, AlwaysTyped, PTL DEF Spec
-----------------------------------------------------------------------------
(* What the live and the legacy mapper write, where every field of a       *)
(* mapping without transforms is there with its declared type.             *)
Plainly(mapping, payload, rule) ==
  /\ rule.transform = << >>
  /\ Reading(mapping.path, payload, rule.source) # {}
  /\ \A v \in Reading(mapping.path, payload, rule.source) :
       \/ rule.type = "float" /\ v.type = "float"
       \/ rule.type = "string"

LEMMA PlainlyAgree ==
  ASSUME NEW mapping, NEW payload \in Payload, NEW rule,
         Plainly(mapping, payload, rule)
  PROVE  /\ ReadingOrDefault(mapping, payload, rule) # {}
         /\ UltraWritten(mapping, payload, rule) =
              LegacyWritten(mapping, payload, rule)
<1>1. PICK v \in Reading(mapping.path, payload, rule.source) : TRUE
  BY DEF Plainly
<1>2. /\ Reading(mapping.path, payload, rule.source) = {v}
      /\ ReadingOrDefault(mapping, payload, rule) = {v}
      /\ ValueOf(mapping, payload, rule) = v
  BY <1>1, ReadingIsValue
<1>3. v.n \in Int
  BY <1>1, ReadingTyped DEF Value
<1>4. UltraConverted(rule, v) = LegacyConverted(rule, v)
  <2>1. LegacyConverted(rule, v) = LegacyTyped(rule.type, v)
    BY DEF Plainly, LegacyConverted
  <2>2. CASE rule.type = "string"
    BY <2>1, <2>2 DEF UltraConverted, LegacyTyped
  <2>3. CASE rule.type = "float" /\ v.type = "float"
    <3>1. Number(v) = v.n /\ Number(v) * ScaleFactor(rule.transform) = v.n
      BY <1>3, <2>3 DEF Number, ScaleFactor
    <3>2. UltraConverted(rule, v) = Float(v.n)
      BY <2>3, <3>1 DEF UltraConverted
    <3>3. LegacyTyped(rule.type, v) = Float(v.n)
      BY <2>3, <3>1 DEF LegacyTyped
    <3> QED
      BY <2>1, <3>2, <3>3
  <2> QED
    BY <1>1, <2>2, <2>3 DEF Plainly
<1> QED
  BY <1>2, <1>4 DEF UltraWritten, LegacyWritten

LEMMA PlainMappingsAgree ==
  ASSUME NEW mapping, NEW payload \in Payload,
         mapping.rules \in Seq(Rules(mapping)),
         \A rule \in Rules(mapping) : Plainly(mapping, payload, rule)
  PROVE  {UltraFields(mapping, payload)} = Strict(mapping, payload, LegacyWritten)
<1>1. ~RequiredMissing(mapping, payload)
  BY PlainlyAgree DEF RequiredMissing
<1> DEFINE Targets == {mapping.rules[i].target : i \in Given(mapping, payload)}
           u == Mapped(mapping, payload, UltraWritten)
           l == Mapped(mapping, payload, LegacyWritten)
           Of(target) == mapping.rules[Deciding(mapping, payload, target)]
<1>2. /\ u = [target \in Targets |-> UltraWritten(mapping, payload, Of(target))]
      /\ l = [target \in Targets |-> LegacyWritten(mapping, payload, Of(target))]
  BY DEF Mapped
<1>3. ASSUME NEW target \in Targets
      PROVE  UltraWritten(mapping, payload, Of(target)) =
               LegacyWritten(mapping, payload, Of(target))
  <2>1. PICK i \in Given(mapping, payload) : mapping.rules[i].target = target
    OBVIOUS
  <2>2. Deciding(mapping, payload, target) \in 1..Len(mapping.rules)
    BY <2>1, GivenPlaces
  <2>3. Of(target) \in Rules(mapping)
    BY <2>2 DEF Rules, Range
  <2> HIDE DEF Of
  <2> QED
    BY <2>3, PlainlyAgree
<1>4. u = l
  <2> HIDE DEF Targets, u, l, Of
  <2> QED
    BY <1>2, <1>3
<1> QED
  BY <1>1, <1>4 DEF Strict, UltraFields

LEMMA TestCall ==
  ASSUME NEW payload, Calls(payload), last'.by = "test"
  PROVE  \E m : /\ CallOf(last', m, payload) /\ m.rules \in Seq(Rules(m))
                /\ last'.fields = {UltraFields(m, payload)}
<1>1. PICK request \in Tested : TestMapping(request, payload)
  BY DEF Calls, LegacyMaps, OptimizedMaps, UltraMaps, FormatMaps, TestMapping,
         Answer
<1>2. /\ CallOf(last', MappingOf(request), payload)
      /\ last'.fields = {UltraFields(MappingOf(request), payload)}
  BY <1>1 DEF TestMapping, CallOf
<1>3. MappingOf(request).rules \in Seq(Rules(MappingOf(request)))
  BY RequestAssumption DEF MappingOf, Rules
<1> QED
  BY <1>2, <1>3

LEMMA AgreeStep ==
  TypeOK /\ MappersAgree /\ [Next]_vars => MappersAgree'
<1> SUFFICES ASSUME TypeOK, MappersAgree, [Next]_vars PROVE MappersAgree'
  OBVIOUS
<1>1. CASE UNCHANGED <<active, last>>
  BY <1>1 DEF MappersAgree, By, Found
<1>2. CASE last' = Nothing
  BY <1>2, NobodyCalled DEF MappersAgree, By
<1>3. ASSUME NEW payload \in Payload, Calls(payload),
             last'.by \in {"ultra", "test"}, last'.mapping # None,
             \A rule \in Rules(last'.mapping) :
               /\ rule.transform = << >> /\ ReadingOf(last', rule) # {}
               /\ \A v \in ReadingOf(last', rule) :
                    \/ rule.type = "float" /\ v.type = "float"
                    \/ rule.type = "string"
      PROVE  last'.fields = Strict(last'.mapping, last'.payload, LegacyWritten)
  <2>1. PICK m : /\ CallOf(last', m, payload) /\ m.rules \in Seq(Rules(m))
                 /\ last'.fields = {UltraFields(m, payload)}
    BY <1>3, UltraCall, TestCall
  <2>2. \A rule \in Rules(m) : Plainly(m, payload, rule)
    BY <1>3, <2>1 DEF Plainly, CallOf, ReadingOf
  <2>3. last'.fields = Strict(m, payload, LegacyWritten)
    BY <2>1, <2>2, PlainMappingsAgree
  <2> QED
    BY <2>1, <2>3 DEF CallOf
<1> QED
  BY <1>1, <1>2, <1>3, StepsOfLast DEF MappersAgree, By, Found

(* For any mapping without transforms and any payload that has all its     *)
(* fields: the live, the legacy and the test mapper answer alike.          *)
THEOREM MappersDoAgree == Spec => []MappersAgree
<1>1. Init => MappersAgree
  BY DEF Init, MappersAgree, By, Nothing
<1> QED
  BY <1>1, AgreeStep, AlwaysTyped, PTL DEF Spec
-----------------------------------------------------------------------------
(* The rules of the format mapper, and what the live mapper writes for     *)
(* them: for each rule the field of its source in "data", if it is there.  *)
Table == {Rule("sno", "serial_no", "string"),
          Rule("p", "total_output_power", "float"),
          Rule("pv3v", "pv3_voltage", "float"),
          Rule("al1", "alarm1", "int")}

OnlyData(mapping, payload) ==
  /\ mapping.rules \in Seq(Rules(mapping))
  /\ mapping.path = "data" /\ Rules(mapping) = Table
  /\ DOMAIN payload.objects = {"data"} /\ DOMAIN payload.root = {}

LEMMA TableRules ==
  ASSUME NEW rule \in Table
  PROVE  /\ rule.source # "data" /\ rule.default = {}
         /\ \A other \in Table : other.target = rule.target => other = rule
BY DEF Table, Rule

LEMMA TableReading ==
  ASSUME NEW mapping, NEW payload, OnlyData(mapping, payload),
         NEW rule \in Table
  PROVE  LET data == payload.objects["data"]
             read == IF rule.source \in DOMAIN data THEN {data[rule.source]}
                     ELSE {}
         IN /\ Reading(mapping.path, payload, rule.source) = read
            /\ ReadingOrDefault(mapping, payload, rule) = read
<1> DEFINE data == payload.objects["data"]
           read == IF rule.source \in DOMAIN data THEN {data[rule.source]}
                   ELSE {}
<1>1. mapping.path = "data" /\ "data" \in DOMAIN payload.objects
  BY DEF OnlyData
<1>2. DOMAIN Root(payload) = {"data"}
  BY DEF OnlyData, Root
<1>3. rule.source # "data" /\ rule.default = {}
  BY TableRules
<1>4. Reading(mapping.path, payload, rule.source) = read
  BY <1>1, <1>2, <1>3 DEF Reading
<1>5. ReadingOrDefault(mapping, payload, rule) = read
  <2> HIDE DEF read
  <2> QED
    BY <1>3, <1>4 DEF ReadingOrDefault
<1> QED
  BY <1>4, <1>5

LEMMA TableField ==
  ASSUME NEW mapping, NEW payload, OnlyData(mapping, payload),
         NEW rule \in Table
  PROVE  LET data == payload.objects["data"]
             fields == UltraFields(mapping, payload)
         IN /\ rule.target \in DOMAIN fields <=> rule.source \in DOMAIN data
            /\ rule.source \in DOMAIN data =>
                 fields[rule.target] = UltraConverted(rule, data[rule.source])
<1> DEFINE data == payload.objects["data"]
           fields == UltraFields(mapping, payload)
<1>1. /\ mapping.rules \in Seq(Rules(mapping)) /\ Rules(mapping) = Table
      /\ \A i \in DOMAIN mapping.rules : mapping.rules[i] \in Table
  BY DEF OnlyData, Rules, Range
<1>2. PICK i \in DOMAIN mapping.rules : mapping.rules[i] = rule
  BY <1>1 DEF Rules, Range
<1>3. DOMAIN fields = {mapping.rules[j].target : j \in Given(mapping, payload)}
  BY DEF UltraFields, Mapped
<1>4. ASSUME rule.source \in DOMAIN data
      PROVE  /\ rule.target \in DOMAIN fields
             /\ fields[rule.target] = UltraConverted(rule, data[rule.source])
  <2>1. /\ Reading(mapping.path, payload, rule.source) = {data[rule.source]}
        /\ ReadingOrDefault(mapping, payload, rule) = {data[rule.source]}
    BY <1>4, TableReading
  <2>2. i \in Given(mapping, payload)
    BY <1>2, <2>1 DEF Given
  <2>3. rule.target \in DOMAIN fields
    BY <1>2, <1>3, <2>2
  <2> DEFINE d == Deciding(mapping, payload, rule.target)
  <2>4. d \in Given(mapping, payload) /\ mapping.rules[d].target = rule.target
    BY <1>1, <1>2, <2>2, GivenPlaces
  <2>5. mapping.rules[d] = rule
    BY <1>1, <2>4, TableRules DEF Given
  <2>6. fields[rule.target] = UltraWritten(mapping, payload, mapping.rules[d])
    BY <1>3, <2>3 DEF UltraFields, Mapped
  <2>7. ValueOf(mapping, payload, rule) = data[rule.source]
    BY <2>1 DEF ValueOf
  <2>8. UltraWritten(mapping, payload, rule) = UltraConverted(rule, data[rule.source])
    BY <2>1, <2>7 DEF UltraWritten
  <2> QED
    BY <2>3, <2>5, <2>6, <2>8
<1>5. ASSUME rule.target \in DOMAIN fields PROVE rule.source \in DOMAIN data
  <2>1. PICK j \in Given(mapping, payload) : mapping.rules[j].target = rule.target
    BY <1>3, <1>5
  <2>2. mapping.rules[j] = rule
    BY <1>1, <2>1, TableRules DEF Given
  <2>3. ReadingOrDefault(mapping, payload, rule) # {}
    BY <2>1, <2>2 DEF Given
  <2> QED
    BY <2>3, TableReading
<1> QED
  BY <1>4, <1>5

LEMMA NoKey ==
  ASSUME NEW data, NEW key, NEW types, NEW default, key \notin DOMAIN data
  PROVE  FirstOf(data, <<key>>, types, default) = default
<1>1. DOMAIN <<key>> = {1} /\ <<key>>[1] = key
  OBVIOUS
<1>2. Usable(data, <<key>>, types) = {}
  BY <1>1 DEF Usable
<1> QED
  BY <1>2 DEF FirstOf

(* FormatRecord, field by field.                                           *)
FieldOf(data, field, key, zero) ==
  IF FormatField(data, field, key) = {} THEN zero
  ELSE CHOOSE x \in FormatField(data, field, key) : TRUE

LEMMA FormatParts ==
  ASSUME NEW payload, "data" \in DOMAIN payload.objects,
         payload.device_type = "Inv"
  PROVE  LET data == payload.objects["data"] IN
         FormatRecord(payload) =
           {[serial |-> FieldOf(data, "serial", "sno", Empty),
             power |-> FieldOf(data, "power", "p", 0),
             pv3 |-> FieldOf(data, "pv3", "pv3v", 0),
             alarm |-> FieldOf(data, "alarm", "al1", 0)]}
<1>1. FormatKeys(payload.device_type) =
        [serial |-> "sno", power |-> "p", pv3 |-> "pv3v", alarm |-> "al1"]
  BY DEF FormatKeys
<1> QED
  BY <1>1 DEF FormatRecord, FieldOf
-----------------------------------------------------------------------------
LEMMA SerialAgrees ==
  ASSUME NEW data, NEW fields,
         "serial_no" \in DOMAIN fields <=> "sno" \in DOMAIN data,
         "sno" \in DOMAIN data =>
           /\ data["sno"] \in Value /\ data["sno"].type \in {"digits", "text"}
           /\ fields["serial_no"] = Printed(data["sno"])
  PROVE  GetString(fields, <<"serial_no">>)
           = FieldOf(data, "serial", "sno", Empty)
<1>1. CASE "sno" \in DOMAIN data
  <2> DEFINE v == data["sno"]
  <2>1. Printed(v) = v /\ v.type \in ValueType
    BY <1>1 DEF Printed, ValueType
  <2>2. fields["serial_no"] = v
    BY <1>1, <2>1
  <2>3. FirstOf(fields, <<"serial_no">>, ValueType, Empty) = v
    BY <1>1, <2>1, <2>2, OneKey
  <2>4. v \in [type : {"digits", "text"}, n : {v.n}]
    BY <1>1 DEF Value
  <2>5. FormatField(data, "serial", "sno") = {v}
    BY <1>1, <2>4 DEF FormatField
  <2>6. FieldOf(data, "serial", "sno", Empty) = v
    BY <2>5 DEF FieldOf
  <2> QED
    BY <2>1, <2>3, <2>6 DEF GetString
<1>2. CASE "sno" \notin DOMAIN data
  <2>1. FirstOf(fields, <<"serial_no">>, ValueType, Empty) = Empty
    BY <1>2, NoKey
  <2>2. FieldOf(data, "serial", "sno", Empty) = Empty
    BY <1>2 DEF FieldOf, FormatField
  <2> QED
    BY <2>1, <2>2 DEF GetString, Printed, Empty
<1> QED
  BY <1>1, <1>2

LEMMA NumberAgrees ==
  ASSUME NEW data, NEW fields, NEW key, NEW target,
         target \in DOMAIN fields <=> key \in DOMAIN data,
         key \in DOMAIN data =>
           /\ data[key].type = "float" /\ data[key].n \in Int
           /\ fields[target] = Float(data[key].n)
  PROVE  /\ GetFloat(fields, <<target>>) = FieldOf(data, "power", key, 0)
         /\ GetFloat(fields, <<target>>) = FieldOf(data, "pv3", key, 0)
         /\ GetInt(fields, <<target>>) = FieldOf(data, "alarm", key, 0)
<1> DEFINE float == FirstOf(fields, <<target>>, {"float", "int", "digits"},
                            Integer(0))
           int == FirstOf(fields, <<target>>, {"float", "int"}, Integer(0))
<1>1. CASE key \in DOMAIN data
  <2> DEFINE v == data[key]
  <2>1. Float(v.n).type = "float" /\ Float(v.n).n = v.n
    BY DEF Float
  <2>2. float = Float(v.n) /\ int = Float(v.n)
    BY <1>1, <2>1, OneKey
  <2>3. /\ FormatField(data, "power", key) = {v.n}
        /\ FormatField(data, "pv3", key) = {v.n}
        /\ FormatField(data, "alarm", key) = {Truncated(v.n)}
    BY <1>1 DEF FormatField
  <2>4. /\ FieldOf(data, "power", key, 0) = v.n
        /\ FieldOf(data, "pv3", key, 0) = v.n
        /\ FieldOf(data, "alarm", key, 0) = Truncated(v.n)
    BY <2>3 DEF FieldOf
  <2> QED
    BY <2>1, <2>2, <2>4 DEF GetFloat, GetInt
<1>2. CASE key \notin DOMAIN data
  <2>1. float = Integer(0) /\ int = Integer(0)
    BY <1>2, NoKey
  <2>2. Integer(0).n = 0 /\ Truncated(0) = 0
    BY DEF Integer, Truncated, Unit
  <2>3. /\ FieldOf(data, "power", key, 0) = 0
        /\ FieldOf(data, "pv3", key, 0) = 0
        /\ FieldOf(data, "alarm", key, 0) = 0
    BY <1>2 DEF FieldOf, FormatField
  <2> QED
    BY <2>1, <2>2, <2>3 DEF GetFloat, GetInt
<1> QED
  BY <1>1, <1>2

Numbers(data) ==
  \A key \in DOMAIN data :
    IF key = "sno" THEN data[key].type \in {"digits", "text"}
                   ELSE data[key].type = "float"

LEMMA TableFormat ==
  ASSUME NEW mapping, NEW payload \in Payload, OnlyData(mapping, payload),
         payload.device_type = "Inv", Numbers(payload.objects["data"])
  PROVE  FormatRecord(payload) =
           {RecordOf(UltraFields(mapping, payload), LiveKeys)}
<1> DEFINE data == payload.objects["data"]
           fields == UltraFields(mapping, payload)
<1>1. "data" \in DOMAIN payload.objects
  BY DEF OnlyData
<1>2. \A key \in DOMAIN data : data[key] \in Value /\ data[key].n \in Int
  BY <1>1, PayloadAssumption DEF Value
<1>3. \A rule \in Table :
        /\ rule.target \in DOMAIN fields <=> rule.source \in DOMAIN data
        /\ rule.source \in DOMAIN data =>
             fields[rule.target] = UltraConverted(rule, data[rule.source])
  BY TableField
<1>4. Numbers(data)
  OBVIOUS
<1> HIDE DEF data, fields
<1>5. GetString(fields, <<"serial_no">>) = FieldOf(data, "serial", "sno", Empty)
  <2> DEFINE rule == Rule("sno", "serial_no", "string")
  <2>1. /\ rule \in Table /\ rule.source = "sno" /\ rule.target = "serial_no"
        /\ rule.type = "string"
    BY DEF Table, Rule
  <2> HIDE DEF rule
  <2>2. /\ "serial_no" \in DOMAIN fields <=> "sno" \in DOMAIN data
        /\ "sno" \in DOMAIN data =>
             fields["serial_no"] = UltraConverted(rule, data["sno"])
    BY <1>3, <2>1
  <2>3. \A v : UltraConverted(rule, v) = Printed(v)
    BY <2>1 DEF UltraConverted
  <2>4. "sno" \in DOMAIN data =>
          data["sno"] \in Value /\ data["sno"].type \in {"digits", "text"}
    BY <1>2, <1>4 DEF Numbers
  <2> QED
    BY <2>2, <2>3, <2>4, SerialAgrees
<1>6. ASSUME NEW key, key # "sno", NEW target, NEW rule \in Table,
             rule.source = key, rule.target = target, rule.type # "string"
      PROVE  /\ GetFloat(fields, <<target>>) = FieldOf(data, "power", key, 0)
             /\ GetFloat(fields, <<target>>) = FieldOf(data, "pv3", key, 0)
             /\ GetInt(fields, <<target>>) = FieldOf(data, "alarm", key, 0)
  <2>1. target \in DOMAIN fields <=> key \in DOMAIN data
    BY <1>3, <1>6
  <2>2. ASSUME key \in DOMAIN data
        PROVE  /\ data[key].type = "float" /\ data[key].n \in Int
               /\ fields[target] = Float(data[key].n)
    <3>1. data[key].type = "float" /\ data[key].n \in Int
      BY <1>2, <1>4, <1>6, <2>2 DEF Numbers
    <3>2. Number(data[key]) * ScaleFactor(rule.transform) = data[key].n
      BY <3>1 DEF Number, ScaleFactor
    <3>3. UltraConverted(rule, data[key]) = Float(data[key].n)
      BY <1>6, <3>2 DEF UltraConverted
    <3> QED
      BY <1>3, <1>6, <2>2, <3>1, <3>3
  <2> QED
    BY <2>1, <2>2, NumberAgrees
<1>7. GetFloat(fields, <<"total_output_power">>) = FieldOf(data, "power", "p", 0)
  BY <1>6 DEF Table, Rule
<1>8. GetFloat(fields, <<"pv3_voltage">>) = FieldOf(data, "pv3", "pv3v", 0)
  BY <1>6 DEF Table, Rule
<1>9. GetInt(fields, <<"alarm1">>) = FieldOf(data, "alarm", "al1", 0)
  BY <1>6 DEF Table, Rule
<1> QED
  BY <1>1, <1>5, <1>7, <1>8, <1>9, FormatParts DEF RecordOf, LiveKeys, data, fields

LEMMA FormatStep ==
  TypeOK /\ FormatAgrees /\ [Next]_vars => FormatAgrees'
<1> SUFFICES ASSUME TypeOK, FormatAgrees, [Next]_vars PROVE FormatAgrees'
  OBVIOUS
<1>1. CASE UNCHANGED <<active, last>>
  BY <1>1 DEF FormatAgrees, By, Found
<1>2. CASE last' = Nothing
  BY <1>2, NobodyCalled DEF FormatAgrees, By
<1>3. ASSUME NEW payload \in Payload, Calls(payload),
             last'.by = "ultra", last'.mapping # None,
             last'.mapping.path = "data", Rules(last'.mapping) = Table,
             DOMAIN last'.payload.objects = {"data"},
             Numbers(last'.payload.objects["data"]),
             DOMAIN last'.payload.root = {}, last'.payload.device_type = "Inv"
      PROVE  FormatRecord(last'.payload) = last'.record
  <2>1. PICK m : /\ CallOf(last', m, payload) /\ m.rules \in Seq(Rules(m))
                 /\ last'.record = {RecordOf(UltraFields(m, payload), LiveKeys)}
    BY <1>3, UltraCall
  <2>2. /\ OnlyData(m, payload) /\ payload.device_type = "Inv"
        /\ Numbers(payload.objects["data"])
    BY <1>3, <2>1 DEF OnlyData, CallOf
  <2>3. FormatRecord(payload) = last'.record
    BY <2>1, <2>2, TableFormat
  <2> QED
    BY <2>1, <2>3 DEF CallOf
<1> QED
  BY <1>1, <1>2, <1>3, StepsOfLast DEF FormatAgrees, By, Found, Table, Numbers

(* For any mapping with the rules of the format mapper and any payload of  *)
(* numbers: the live mapper makes the record the format mapper makes.      *)
THEOREM FormatsDoAgree == Spec => []FormatAgrees
<1>1. Init => FormatAgrees
  BY DEF Init, FormatAgrees, By, Nothing
<1> QED
  BY <1>1, FormatStep, AlwaysTyped, PTL DEF Spec
=============================================================================
