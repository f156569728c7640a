---------------------------- MODULE QueriesProofs ----------------------------
(***************************************************************************)
(* Theorems about Queries, for every set of callers, records, filters and  *)
(* addresses, both databases, and every TTL and value of the bounds.       *)
(***************************************************************************)
EXTENDS Queries, FiniteSetTheorems, TLAPS

PcLabel == {"idle", "load", "count", "set", "answered", "failed"}
CacheName == {"stats", "query"}
-----------------------------------------------------------------------------
(* What the operations of a cache return.                                  *)
LEMMA SetItems ==
  ASSUME NEW items, NEW key, NEW value, NEW ttl \in Nat \ {0}, NEW t \in Nat,
         NEW k \in DOMAIN Set(items, key, value, ttl, t)
  PROVE  IF k = key
           THEN /\ Set(items, key, value, ttl, t)[k].value = value
                /\ Set(items, key, value, ttl, t)[k].expiration = t + ttl
           ELSE /\ k \in DOMAIN items
                /\ Set(items, key, value, ttl, t)[k] = items[k]
BY DEF Set

LEMMA CleanedItems ==
  ASSUME NEW items, NEW t, NEW k \in DOMAIN Cleaned(items, t)
  PROVE  k \in DOMAIN items /\ Cleaned(items, t)[k] = items[k]
BY DEF Cleaned, Restrict

LEMMA Kinds ==
  ASSUME NEW what
  PROVE  /\ Kind(what) \in CacheName
         /\ Kind(what) = "stats" <=> what = Stats
         /\ TTL[Kind(what)] \in Nat \ {0}
BY TTLAssumption DEF Kind, CacheName, TTL

LEMMA StatsIsNoFilter == Stats \notin Filter
BY FilterAssumption DEF Stats
-----------------------------------------------------------------------------
(* What a caller does, and what every step leaves alone.                   *)
CallerStep(c) ==
  \/ \E what \in Filter \cup {Stats} : Arrive(c, what)
  \/ CountTotal(c) \/ CountFaults(c)
  \/ Query(c) \/ LoadFails(c) \/ SetAndAnswer(c)

Others(c) ==
  \A d \in Caller \ {c} :
    /\ pc'[d] = pc[d] /\ request'[d] = request[d] /\ arrived'[d] = arrived[d]
    /\ total'[d] = total[d] /\ answer'[d] = answer[d]

LEMMA StepCases ==
  ASSUME TypeOK, [Next]_vars
  PROVE  \/ \E c \in Caller : CallerStep(c)
         \/ \E n \in CacheName : Cleanup(n)
         \/ \E batch \in SUBSET Record : Insert(batch)
         \/ Tick
         \/ UNCHANGED vars
BY DEF Next, CallerStep, GetStats, GetRecords, CacheName

LEMMA CallerStepQuiet ==
  ASSUME NEW c \in Caller, CallerStep(c)
  PROVE  UNCHANGED <<dbVars, now, lengths>>
BY DEF CallerStep, Arrive, CountTotal, CountFaults, Query, LoadFails,
       SetAndAnswer

LEMMA OthersStay ==
  ASSUME TypeOK, NEW c \in Caller, CallerStep(c)
  PROVE  Others(c)
<1>1. /\ DOMAIN pc = Caller /\ DOMAIN request = Caller /\ DOMAIN arrived = Caller
      /\ DOMAIN total = Caller /\ DOMAIN answer = Caller
  BY DEF TypeOK
<1> QED
  BY <1>1 DEF CallerStep, Arrive, CountTotal, CountFaults, Query, LoadFails,
       SetAndAnswer, Others, Goto, Loaded
-----------------------------------------------------------------------------
(* Every item of a cache was there before, or is the one that a caller has *)
(* just set.                                                               *)
NewItem(c, n, k) ==
  /\ SetAndAnswer(c)
  /\ n = Kind(request[c]) /\ k = KeyOf(request[c], address[c])
  /\ cache'[n][k].value = [answer[c] EXCEPT !.loaded = now]
  /\ cache'[n][k].expiration = now + TTL[n]

LEMMA CacheStep ==
  ASSUME TypeOK, [Next]_vars, NEW n \in CacheName, NEW k \in DOMAIN cache'[n]
  PROVE  \/ k \in DOMAIN cache[n] /\ cache'[n][k] = cache[n][k]
         \/ \E c \in Caller : NewItem(c, n, k)
<1>t. DOMAIN cache = CacheName /\ now \in Nat
  BY DEF TypeOK, CacheName
<1>1. ASSUME NEW c \in Caller, SetAndAnswer(c)
      PROVE  \/ k \in DOMAIN cache[n] /\ cache'[n][k] = cache[n][k]
             \/ NewItem(c, n, k)
  <2> DEFINE value == [answer[c] EXCEPT !.loaded = now]
             kind == Kind(request[c])
             key == KeyOf(request[c], address[c])
  <2>1. kind \in CacheName /\ TTL[kind] \in Nat \ {0}
    BY Kinds
  <2>2. cache' = [cache EXCEPT ![kind] = Set(@, key, value, TTL[kind], now)]
    BY <1>1 DEF SetAndAnswer
  <2> HIDE DEF value, kind, key
  <2>3. CASE n = kind
    <3>1. cache'[n] = Set(cache[n], key, value, TTL[n], now)
      BY <1>t, <2>2, <2>3
    <3>2. IF k = key
            THEN cache'[n][k].value = value /\ cache'[n][k].expiration = now + TTL[n]
            ELSE k \in DOMAIN cache[n] /\ cache'[n][k] = cache[n][k]
      BY <1>t, <2>1, <2>3, <3>1, SetItems
    <3> QED
      BY <1>1, <2>3, <3>2 DEF NewItem, value, kind, key
  <2>4. CASE n # kind
    <3>1. cache'[n] = cache[n]
      BY <1>t, <2>2, <2>4
    <3> QED
      BY <3>1
  <2> QED
    BY <2>3, <2>4
<1>2. ASSUME NEW m \in CacheName, Cleanup(m)
      PROVE  k \in DOMAIN cache[n] /\ cache'[n][k] = cache[n][k]
  <2>1. cache' = [cache EXCEPT ![m] = Cleaned(@, now)]
    BY <1>2 DEF Cleanup
  <2>2. CASE n = m
    <3>1. cache'[n] = Cleaned(cache[n], now)
      BY <1>t, <2>1, <2>2
    <3> QED
      BY <3>1, CleanedItems
  <2>3. CASE n # m
    <3>1. cache'[n] = cache[n]
      BY <1>t, <2>1, <2>3
    <3> QED
      BY <3>1
  <2> QED
    BY <2>2, <2>3
<1>3. CASE cache' = cache
  BY <1>3
<1>4. \/ \E c \in Caller : SetAndAnswer(c)
      \/ \E m \in CacheName : Cleanup(m)
      \/ cache' = cache
  BY StepCases DEF CallerStep, Arrive, CountTotal, CountFaults, Query, LoadFails,
     Insert, Tick, vars
<1> QED
  BY <1>1, <1>2, <1>3, <1>4

(* The past does not change: the states of the collection so far, and how  *)
(* many there were at each time.                                           *)
LEMMA PastStays ==
  ASSUME TypeOK, [Next]_vars
  PROVE  /\ backend' = backend
         /\ now \in Nat \ {0} /\ now' \in {now, now + 1}
         /\ history' \in Seq(SUBSET Record)
         /\ Len(history) \in Nat \ {0}
         /\ Len(history') \in {Len(history), Len(history) + 1}
         /\ \A i \in 1..Len(history) : history'[i] = history[i]
         /\ lengths' \in Seq(Nat) /\ Len(lengths') = now'
         /\ \A t \in 1..now : lengths'[t] = lengths[t]
         /\ faults \in Nat /\ faults' \in {faults, faults + 1}
<1>t. /\ now \in Nat \ {0} /\ history \in Seq(SUBSET Record)
      /\ Len(history) \in Nat \ {0}
      /\ lengths \in Seq(Nat) /\ Len(lengths) = now
  BY DEF TypeOK
<1>f. faults \in Nat /\ faults' \in {faults, faults + 1}
  <2>1. ASSUME NEW c \in Caller, CallerStep(c)
        PROVE  faults' \in {faults, faults + 1}
    BY <2>1 DEF CallerStep, Arrive, CountTotal, CountFaults, Query, LoadFails,
       SetAndAnswer, Breaks, Fault
  <2> QED
    BY <2>1, StepCases DEF TypeOK, Cleanup, Insert, Tick, vars
<1>1. ASSUME NEW batch \in SUBSET Record, Insert(batch)
      PROVE  /\ history' \in Seq(SUBSET Record)
             /\ Len(history') = Len(history) + 1
             /\ \A i \in 1..Len(history) : history'[i] = history[i]
             /\ UNCHANGED <<backend, now, lengths>>
  <2>1. Present \cup batch \in SUBSET Record
    BY <1>t DEF Present
  <2>2. history' = Append(history, Present \cup batch)
    BY <1>1 DEF Insert
  <2>3. UNCHANGED <<backend, now, lengths>>
    BY <1>1 DEF Insert
  <2> QED
    BY <1>t, <2>1, <2>2, <2>3
<1>2. CASE Tick
  <2>1. /\ now' = now + 1 /\ lengths' = Append(lengths, Len(history))
        /\ backend' = backend /\ history' = history
    BY <1>2 DEF Tick, dbVars
  <2> QED
    BY <1>t, <1>f, <2>1
<1>3. CASE UNCHANGED <<dbVars, now, lengths>>
  BY <1>t, <1>f, <1>3 DEF dbVars
<1>4. \/ \E batch \in SUBSET Record : Insert(batch)
      \/ Tick
      \/ UNCHANGED <<dbVars, now, lengths>>
  BY StepCases, CallerStepQuiet DEF Cleanup, vars
<1> QED
  BY <1>1, <1>2, <1>3, <1>4, <1>f, <1>t

(* A caller that is not in action keeps what it has.                       *)
LEMMA CallersStep ==
  ASSUME TypeOK, [Next]_vars, NEW c \in Caller
  PROVE  \/ CallerStep(c)
         \/ /\ pc'[c] = pc[c] /\ request'[c] = request[c]
            /\ arrived'[c] = arrived[c] /\ total'[c] = total[c]
            /\ answer'[c] = answer[c]
<1>1. CASE \E d \in Caller : CallerStep(d)
  BY <1>1, OthersStay DEF Others
<1>2. CASE ~\E d \in Caller : CallerStep(d)
  <2>1. UNCHANGED callerVars
    BY <1>2, StepCases DEF Cleanup, Insert, Tick, vars
  <2> QED
    BY <2>1 DEF callerVars
<1> QED
  BY <1>1, <1>2
-----------------------------------------------------------------------------
LEMMA Counts ==
  ASSUME NEW f, NEW S \in SUBSET Record
  PROVE  /\ Count(f, S) \in Nat
         /\ IsFiniteSet(S) /\ Cardinality(S) \in Nat
         /\ Count(Stats, S) = Cardinality(S)
<1>1. IsFiniteSet(S) /\ {r \in S : Matches(r, f)} \subseteq S
  BY RecordAssumption, FS_Subset
<1>2. \A r \in S : Matches(r, Stats)
  BY DEF Matches, Stats
<1>3. {r \in S : Matches(r, Stats)} = S
  BY <1>2
<1> QED
  BY <1>1, <1>3, FS_Subset, FS_CardinalityType DEF Count

LEMMA PresentRecords ==
  ASSUME TypeOK
  PROVE  Present \in SUBSET Record /\ Len(history) \in 1..Len(history)
BY DEF TypeOK, Present

(* An answer stays one: the filters are fixed, time and history grow.      *)
LEMMA AnswerStays ==
  ASSUME TypeOK, [Next]_vars, NEW v, AnswerOK(v)
  PROVE  AnswerOK(v)'
<1>1. /\ now \in Nat /\ now' \in {now, now + 1} /\ Len(history) \in Nat
      /\ Len(history') \in {Len(history), Len(history) + 1}
  BY PastStays
<1>2. /\ \A i \in 0..now : i \in 0..now'
      /\ \A i \in 0..Len(history) : i \in 0..Len(history')
  BY <1>1
<1> QED
  BY <1>2 DEF AnswerOK

LEMMA CallerType ==
  ASSUME TypeOK, NEW c \in Caller, CallerStep(c)
  PROVE  /\ DOMAIN cache' = CacheName
         /\ pc' \in [Caller -> PcLabel]
         /\ request' \in [Caller -> Filter \cup {Stats}]
         /\ address' \in [Caller -> Address \cup {Unset}]
         /\ arrived' \in [Caller -> 0..now]
         /\ total' \in [Caller -> Nat]
         /\ DOMAIN answer' = Caller /\ AnswerOK(answer'[c])
         /\ faults' \in Nat
<1> USE DEF Goto, Released, PcLabel
<1>t. /\ pc \in [Caller -> PcLabel]
      /\ request \in [Caller -> Filter \cup {Stats}]
      /\ address \in [Caller -> Address \cup {Unset}]
      /\ arrived \in [Caller -> 0..now]
      /\ total \in [Caller -> Nat]
      /\ DOMAIN answer = Caller /\ AnswerOK(answer[c])
      /\ faults \in Nat /\ MaxFaults \in Nat /\ now \in Nat \ {0}
      /\ Len(history) \in Nat /\ DOMAIN cache = CacheName
      /\ request[c] \in Filter \cup {Stats} /\ arrived[c] \in 0..now
      /\ \A n \in CacheName : \A k \in DOMAIN cache[n] : AnswerOK(cache[n][k].value)
  BY BoundAssumption DEF TypeOK, CacheName
<1>l. ASSUME NEW result, Loaded(c, result)
      PROVE  DOMAIN answer' = Caller /\ AnswerOK(answer'[c])
  BY <1>t, <1>l DEF Loaded, AnswerOK
<1>1. ASSUME NEW what \in Filter \cup {Stats}, Arrive(c, what)
      PROVE  /\ address' \in [Caller -> Address \cup {Unset}]
             /\ DOMAIN answer' = Caller /\ AnswerOK(answer'[c])
             /\ pc' \in [Caller -> PcLabel]
  <2>1. PICK a \in Places(what) :
          LET key == KeyOf(what, a) IN
          IF Found(cache[Kind(what)], key, now)
            THEN /\ answer' = [answer EXCEPT ![c] = cache[Kind(what)][key].value]
                 /\ Goto(c, "answered") /\ UNCHANGED address
            ELSE /\ address' = [address EXCEPT ![c] = a]
                 /\ Goto(c, "load") /\ UNCHANGED answer
    BY <1>1 DEF Arrive
  <2>2. a \in Address \cup {Unset} /\ Kind(what) \in CacheName
    BY Kinds DEF Places
  <2>3. CASE Found(cache[Kind(what)], KeyOf(what, a), now)
    <3>1. AnswerOK(cache[Kind(what)][KeyOf(what, a)].value)
      BY <1>t, <2>2, <2>3 DEF Found
    <3>2. answer' = [answer EXCEPT ![c] =
                       cache[Kind(what)][KeyOf(what, a)].value]
          /\ pc' = [pc EXCEPT ![c] = "answered"] /\ address' = address
      BY <2>1, <2>3
    <3>3. answer'[c] = cache[Kind(what)][KeyOf(what, a)].value
          /\ DOMAIN answer' = Caller
      BY <1>t, <3>2
    <3>4. AnswerOK(answer'[c])
      BY <3>1, <3>3
    <3> QED
      BY <1>t, <3>2, <3>3, <3>4
  <2>4. CASE ~Found(cache[Kind(what)], KeyOf(what, a), now)
    <3>1. /\ address' = [address EXCEPT ![c] = a]
          /\ pc' = [pc EXCEPT ![c] = "load"] /\ answer' = answer
      BY <2>1, <2>4
    <3> QED
      BY <1>t, <2>2, <3>1
  <2> QED
    BY <2>3, <2>4
<1>2. ASSUME NEW what \in Filter \cup {Stats}, Arrive(c, what)
      PROVE  /\ DOMAIN cache' = CacheName
             /\ request' \in [Caller -> Filter \cup {Stats}]
             /\ arrived' \in [Caller -> 0..now]
             /\ total' \in [Caller -> Nat] /\ faults' \in Nat
  <2>1. /\ UNCHANGED <<cache, total, faults>>
        /\ request' = [request EXCEPT ![c] = what]
        /\ arrived' = [arrived EXCEPT ![c] = now]
    BY <1>2 DEF Arrive
  <2> QED
    BY <1>t, <2>1
<1>3. CASE CountTotal(c)
  <2>1. Count(Stats, Present) \in Nat
    BY Counts, PresentRecords
  <2>2. total' \in [Caller -> Nat] /\ faults' \in {faults, faults + 1}
    BY <1>3, <1>t, <2>1 DEF CountTotal, Breaks, Fault
  <2> QED
    BY <1>3, <1>t, <2>2 DEF CountTotal
<1>4. CASE CountFaults(c)
  <2>1. DOMAIN answer' = Caller /\ AnswerOK(answer'[c])
    BY <1>4, <1>l DEF CountFaults
  <2>2. /\ UNCHANGED <<cache, request, address, arrived>>
        /\ pc' = [pc EXCEPT ![c] = "set"]
        /\ total' = [total EXCEPT ![c] = 0]
        /\ faults' \in {faults, faults + 1}
    BY <1>4 DEF CountFaults, Loaded, Fault
  <2> QED
    BY <1>t, <2>1, <2>2
<1>5. CASE Query(c)
  <2>1. \E result : Loaded(c, result)
    BY <1>5 DEF Query
  <2>2. faults' \in {faults, faults + 1}
    BY <1>5 DEF Query, Breaks, Fault
  <2>3. DOMAIN answer' = Caller /\ AnswerOK(answer'[c])
    BY <1>l, <2>1
  <2>4. pc' = [pc EXCEPT ![c] = "set"]
    BY <2>1 DEF Loaded
  <2>5. UNCHANGED <<cache, request, address, arrived, total>>
    BY <1>5 DEF Query
  <2> QED
    BY <1>t, <2>2, <2>3, <2>4, <2>5
<1>6. CASE LoadFails(c)
  BY <1>6, <1>t DEF LoadFails, Fault
<1>7. CASE SetAndAnswer(c)
  <2> DEFINE value == [answer[c] EXCEPT !.loaded = now]
  <2>1. answer' = [answer EXCEPT ![c] = value]
    BY <1>7 DEF SetAndAnswer
  <2>2. AnswerOK(value)
    <3>1. answer[c] = [result |-> answer[c].result, of |-> answer[c].of,
                       asOf |-> answer[c].asOf, began |-> answer[c].began,
                       loaded |-> answer[c].loaded]
      BY <1>t DEF AnswerOK
    <3>2. value = [result |-> answer[c].result, of |-> answer[c].of,
                   asOf |-> answer[c].asOf, began |-> answer[c].began,
                   loaded |-> now]
      BY <3>1
    <3>3. /\ answer[c].of \in Filter \cup {Stats}
          /\ answer[c].asOf \in 0..Len(history) /\ answer[c].began \in 0..now
      BY <1>t DEF AnswerOK
    <3> HIDE DEF value
    <3> QED
      BY <1>t, <3>2, <3>3 DEF AnswerOK
  <2>3. DOMAIN cache' = DOMAIN cache
    BY <1>7 DEF SetAndAnswer
  <2> HIDE DEF value
  <2> QED
    BY <1>7, <1>t, <2>1, <2>2, <2>3 DEF SetAndAnswer
<1> QED
  BY <1>1, <1>2, <1>3, <1>4, <1>5, <1>6, <1>7 DEF CallerStep

LEMMA TypeInit == Init => TypeOK
<1> SUFFICES ASSUME Init PROVE TypeOK
  OBVIOUS
<1>1. history \in Seq(SUBSET Record) /\ history # << >> /\ Len(history) = 1
  BY DEF Init
<1>2. lengths \in Seq(Nat) /\ Len(lengths) = now /\ now = 1
  BY DEF Init
<1>3. AnswerOK(Nothing)
  BY <1>1, <1>2 DEF Nothing, AnswerOK
<1>4. \A n \in CacheName : cache[n] = NoItems
  BY DEF Init, CacheName
<1>5. DOMAIN NoItems = {}
  BY DEF NoItems
<1> QED
  BY <1>1, <1>2, <1>3, <1>4, <1>5 DEF Init, TypeOK, CacheName

LEMMA TypeStep == TypeOK /\ [Next]_vars => TypeOK'
<1> SUFFICES ASSUME TypeOK, [Next]_vars PROVE TypeOK'
  OBVIOUS
<1>1. /\ backend' \in Backend /\ now' \in Nat \ {0}
      /\ history' \in Seq(SUBSET Record) /\ history' # << >>
      /\ lengths' \in Seq(Nat) /\ Len(lengths') = now'
  <2>1. /\ backend' = backend /\ now' \in {now, now + 1} /\ now \in Nat \ {0}
        /\ history' \in Seq(SUBSET Record) /\ Len(history) \in Nat \ {0}
        /\ Len(history') \in {Len(history), Len(history) + 1}
        /\ lengths' \in Seq(Nat) /\ Len(lengths') = now'
    BY PastStays
  <2>2. Len(history') # 0
    BY <2>1
  <2> QED
    BY <2>1, <2>2 DEF TypeOK
<1>2. DOMAIN cache' = CacheName
  <2>1. ASSUME NEW n \in CacheName, Cleanup(n) PROVE DOMAIN cache' = DOMAIN cache
    BY <2>1 DEF Cleanup
  <2>2. DOMAIN cache = CacheName
    BY DEF TypeOK, CacheName
  <2> QED
    BY <2>1, <2>2, StepCases, CallerType DEF Insert, Tick, vars
<1>3. ASSUME NEW n \in CacheName, NEW k \in DOMAIN cache'[n]
      PROVE  /\ AnswerOK(cache[n][k].value)' /\ cache'[n][k].expiration \in Nat
             /\ n = "stats" => k = StatsKey
  <2>1. CASE k \in DOMAIN cache[n] /\ cache'[n][k] = cache[n][k]
    <3>1. /\ AnswerOK(cache[n][k].value) /\ cache[n][k].expiration \in Nat
          /\ n = "stats" => k = StatsKey
      BY <2>1 DEF TypeOK, CacheName
    <3>2. PICK v : v = cache[n][k].value
      OBVIOUS
    <3>3. AnswerOK(v)'
      BY <3>1, <3>2, AnswerStays
    <3> QED
      BY <2>1, <3>1, <3>2, <3>3 DEF AnswerOK
  <2>2. ASSUME NEW c \in Caller, NewItem(c, n, k)
        PROVE  /\ AnswerOK(cache[n][k].value)'
               /\ cache'[n][k].expiration \in Nat
               /\ n = "stats" => k = StatsKey
    <3>1. /\ cache'[n][k].value = answer'[c]
          /\ cache'[n][k].expiration = now + TTL[n]
      BY <2>2 DEF NewItem, SetAndAnswer, TypeOK
    <3>2. AnswerOK(answer'[c]) /\ UNCHANGED <<dbVars, now>>
      BY <2>2, CallerType, CallerStepQuiet DEF NewItem, CallerStep
    <3>3. now \in Nat /\ TTL[n] \in Nat
      BY <2>2, Kinds DEF NewItem, TypeOK
    <3>4. n = "stats" => k = StatsKey
      BY <2>2, Kinds DEF NewItem, KeyOf
    <3> QED
      BY <3>1, <3>2, <3>3, <3>4 DEF AnswerOK, dbVars
  <2> QED
    BY <2>1, <2>2, CacheStep
<1>4. /\ pc' \in [Caller -> PcLabel]
      /\ request' \in [Caller -> Filter \cup {Stats}]
      /\ address' \in [Caller -> Address \cup {Unset}]
      /\ arrived' \in [Caller -> 0..now']
      /\ total' \in [Caller -> Nat]
      /\ DOMAIN answer' = Caller
      /\ faults' \in Nat
  <2>1. CASE \E c \in Caller : CallerStep(c)
    BY <2>1, CallerType, CallerStepQuiet
  <2>2. CASE ~\E c \in Caller : CallerStep(c)
    <3>1. UNCHANGED <<callerVars, faults>>
      BY <2>2, StepCases DEF Cleanup, Insert, Tick, vars
    <3>2. 0..now \subseteq 0..now'
      BY PastStays
    <3>3. arrived \in [Caller -> 0..now]
      BY DEF TypeOK
    <3>4. arrived \in [Caller -> 0..now']
      BY <3>2, <3>3
    <3> QED
      BY <3>1, <3>4 DEF callerVars, TypeOK, PcLabel
  <2> QED
    BY <2>1, <2>2
<1>5. ASSUME NEW c \in Caller PROVE AnswerOK(answer[c])'
  <2>1. CASE CallerStep(c)
    <3>1. AnswerOK(answer'[c]) /\ UNCHANGED <<dbVars, now>>
      BY <2>1, CallerType, CallerStepQuiet
    <3> QED
      BY <3>1 DEF AnswerOK, dbVars
  <2>2. CASE answer'[c] = answer[c]
    <3>1. PICK v : v = answer[c]
      OBVIOUS
    <3>2. AnswerOK(v)'
      BY <3>1, AnswerStays DEF TypeOK
    <3> QED
      BY <2>2, <3>1, <3>2 DEF AnswerOK
  <2> QED
    BY <2>1, <2>2, CallersStep
<1>6. DOMAIN cache'["stats"] \subseteq {StatsKey}
  BY <1>3 DEF CacheName
<1> QED
  BY <1>1, <1>2, <1>3, <1>4, <1>5, <1>6 DEF TypeOK, CacheName, PcLabel

(* Every variable keeps its type; the cache of the counts has one key.     *)
THEOREM QueriesTypeCorrect == Spec => []TypeOK
BY TypeInit, TypeStep, PTL DEF Spec
-----------------------------------------------------------------------------
(* An answer shows a state of the collection no older than the beginning   *)
(* of the load it came from.                                               *)
ShowsRecent(v) ==
  /\ v.began \in 1..now
  /\ v.asOf \in 1..Len(history)
  /\ v.asOf >= lengths[v.began]

FreshInv ==
  /\ \A t \in 1..now : lengths[t] \in 1..Len(history)
  /\ \A c \in Caller : pc[c] \notin {"idle", "failed"} => arrived[c] \in 1..now
  /\ \A n \in CacheName : \A k \in DOMAIN cache[n] :
       /\ ShowsRecent(cache[n][k].value)
       /\ cache[n][k].expiration = cache[n][k].value.loaded + TTL[n]
  /\ \A c \in Caller : pc[c] \in {"set", "answered"} => ShowsRecent(answer[c])
  /\ \A c \in Answered :
       arrived[c] <= answer[c].loaded + TTL[Kind(request[c])]

LEMMA RecentStays ==
  ASSUME TypeOK, [Next]_vars, NEW v, ShowsRecent(v)
  PROVE  ShowsRecent(v)'
<1>1. /\ now \in Nat \ {0} /\ now' \in {now, now + 1}
      /\ Len(history) \in Nat \ {0}
      /\ Len(history') \in {Len(history), Len(history) + 1}
      /\ \A t \in 1..now : lengths'[t] = lengths[t]
  BY PastStays
<1>2. v.began \in 1..now' /\ v.asOf \in 1..Len(history')
  BY <1>1 DEF ShowsRecent
<1> QED
  BY <1>1, <1>2 DEF ShowsRecent

LEMMA LengthsStep ==
  ASSUME TypeOK, FreshInv, [Next]_vars
  PROVE  \A t \in 1..now' : lengths'[t] \in 1..Len(history')
<1>1. /\ now \in Nat \ {0} /\ now' \in {now, now + 1}
      /\ Len(history) \in Nat \ {0}
      /\ Len(history') \in {Len(history), Len(history) + 1}
      /\ \A t \in 1..now : lengths'[t] = lengths[t]
  BY PastStays
<1>2. \A t \in 1..now : lengths'[t] \in 1..Len(history')
  BY <1>1 DEF FreshInv
<1>3. CASE now' = now
  BY <1>2, <1>3
<1>4. CASE now' = now + 1
  <2>1. Tick
    BY <1>1, <1>4, StepCases, CallerStepQuiet DEF Cleanup, Insert, vars
  <2>2. lengths \in Seq(Nat) /\ Len(lengths) = now
    BY DEF TypeOK
  <2>3. lengths' = Append(lengths, Len(history)) /\ history' = history
    BY <2>1 DEF Tick, dbVars
  <2>4. lengths'[now + 1] = Len(history)
    BY <1>1, <2>2, <2>3
  <2>5. \A t \in 1..now' : t \in 1..now \/ t = now + 1
    BY <1>1, <1>4
  <2>6. lengths'[now + 1] \in 1..Len(history')
    BY <1>1, <2>3, <2>4
  <2> QED
    BY <1>2, <2>5, <2>6
<1> QED
  BY <1>1, <1>3, <1>4

(* What one caller has after a step of its own.                            *)
LEMMA FreshCaller ==
  ASSUME TypeOK, FreshInv, NEW c \in Caller, CallerStep(c)
  PROVE  /\ pc'[c] \notin {"idle", "failed"} => arrived'[c] \in 1..now
         /\ pc'[c] \in {"set", "answered"} => ShowsRecent(answer'[c])
         /\ pc'[c] = "answered" =>
              arrived'[c] <= answer'[c].loaded + TTL[Kind(request'[c])]
<1> USE DEF Goto
<1>t. /\ DOMAIN pc = Caller /\ DOMAIN request = Caller /\ DOMAIN arrived = Caller
      /\ DOMAIN answer = Caller /\ now \in Nat \ {0}
      /\ Len(history) \in Nat \ {0}
  BY DEF TypeOK
<1>i. /\ pc[c] \notin {"idle", "failed"} => arrived[c] \in 1..now
      /\ pc[c] \in {"set", "answered"} => ShowsRecent(answer[c])
  BY DEF FreshInv
<1>l. ASSUME NEW result, Loaded(c, result), pc[c] \in {"load", "count"},
             UNCHANGED arrived
      PROVE  /\ pc'[c] = "set" /\ arrived'[c] \in 1..now
             /\ ShowsRecent(answer'[c])
  <2>1. /\ pc'[c] = "set" /\ arrived'[c] = arrived[c] /\ arrived[c] \in 1..now
        /\ answer'[c].began = arrived[c] /\ answer'[c].asOf = Len(history)
    BY <1>t, <1>i, <1>l DEF Loaded
  <2>2. lengths[arrived[c]] \in 1..Len(history)
    BY <2>1 DEF FreshInv
  <2> QED
    BY <1>t, <2>1, <2>2 DEF ShowsRecent
<1>1. ASSUME NEW what \in Filter \cup {Stats}, Arrive(c, what)
      PROVE  /\ arrived'[c] \in 1..now
             /\ pc'[c] \in {"set", "answered"} => ShowsRecent(answer'[c])
             /\ pc'[c] = "answered" =>
                  arrived'[c] <= answer'[c].loaded + TTL[Kind(request'[c])]
  <2> DEFINE items == cache[Kind(what)]
  <2>1. arrived'[c] = now /\ request'[c] = what /\ Kind(what) \in CacheName
    BY <1>1, <1>t, Kinds DEF Arrive
  <2>2. PICK a \in Places(what) :
          IF Found(items, KeyOf(what, a), now)
            THEN /\ answer' = [answer EXCEPT ![c] = items[KeyOf(what, a)].value]
                 /\ Goto(c, "answered")
            ELSE Goto(c, "load")
    BY <1>1 DEF Arrive
  <2> DEFINE key == KeyOf(what, a)
  <2> HIDE DEF items, key
  <2>3. CASE Found(items, key, now)
    <3>1. pc'[c] = "answered" /\ answer'[c] = items[key].value
      BY <1>t, <2>2, <2>3 DEF key
    <3>2. key \in DOMAIN items /\ ~Expired(items[key], now)
      BY <2>3 DEF Found
    <3>3. /\ ShowsRecent(items[key].value)
          /\ items[key].expiration = items[key].value.loaded + TTL[Kind(what)]
          /\ items[key].expiration \in Nat /\ items[key].value.loaded \in 0..now
      BY <2>1, <3>2 DEF items, FreshInv, TypeOK, CacheName, AnswerOK
    <3>4. TTL[Kind(what)] \in Nat \ {0}
      BY Kinds
    <3>5. now <= items[key].value.loaded + TTL[Kind(what)]
      BY <1>t, <3>2, <3>3, <3>4 DEF Expired
    <3> QED
      BY <1>t, <2>1, <3>1, <3>3, <3>5
  <2>4. CASE ~Found(items, key, now)
    BY <1>t, <2>1, <2>2, <2>4 DEF key
  <2> QED
    BY <2>3, <2>4
<1>2. CASE CountTotal(c)
  BY <1>2, <1>t, <1>i DEF CountTotal
<1>3. CASE CountFaults(c)
  BY <1>3, <1>l DEF CountFaults
<1>4. CASE Query(c)
  <2>1. /\ \E result : Loaded(c, result)
        /\ pc[c] = "load" /\ UNCHANGED arrived
    BY <1>4 DEF Query
  <2> QED
    BY <1>l, <2>1
<1>5. CASE LoadFails(c)
  BY <1>5, <1>t DEF LoadFails
<1>6. CASE SetAndAnswer(c)
  <2> DEFINE value == [answer[c] EXCEPT !.loaded = now]
  <2>1. /\ answer'[c] = value /\ arrived'[c] = arrived[c]
        /\ request'[c] = request[c] /\ pc[c] = "set" /\ pc'[c] = "answered"
    BY <1>6, <1>t DEF SetAndAnswer
  <2>2. AnswerOK(answer[c])
    BY DEF TypeOK
  <2>3. /\ value.began = answer[c].began /\ value.asOf = answer[c].asOf
        /\ value.loaded = now
    BY <2>2 DEF AnswerOK
  <2>4. ShowsRecent(value)
    BY <1>i, <2>1, <2>3 DEF ShowsRecent
  <2>5. TTL[Kind(request[c])] \in Nat /\ arrived[c] \in 1..now
    BY <1>i, <2>1, Kinds
  <2> HIDE DEF value
  <2>6. arrived[c] <= value.loaded + TTL[Kind(request[c])]
    BY <1>t, <2>3, <2>5
  <2> QED
    BY <2>1, <2>4, <2>5, <2>6
<1> QED
  BY <1>1, <1>2, <1>3, <1>4, <1>5, <1>6 DEF CallerStep

LEMMA FreshStep == TypeOK /\ FreshInv /\ [Next]_vars => FreshInv'
<1> SUFFICES ASSUME TypeOK, FreshInv, [Next]_vars PROVE FreshInv'
  OBVIOUS
<1>n. now \in Nat \ {0} /\ now' \in {now, now + 1}
  BY PastStays
<1>1. \A t \in 1..now' : lengths'[t] \in 1..Len(history')
  BY LengthsStep
<1>2. ASSUME NEW c \in Caller
      PROVE  /\ pc'[c] \notin {"idle", "failed"} => arrived'[c] \in 1..now'
             /\ pc'[c] \in {"set", "answered"} => ShowsRecent(answer[c])'
             /\ pc'[c] = "answered" =>
                  arrived'[c] <= answer'[c].loaded + TTL[Kind(request'[c])]
  <2>1. CASE CallerStep(c)
    <3>1. UNCHANGED <<dbVars, now, lengths>>
      BY <2>1, CallerStepQuiet
    <3>2. /\ pc'[c] \notin {"idle", "failed"} => arrived'[c] \in 1..now
          /\ pc'[c] \in {"set", "answered"} => ShowsRecent(answer'[c])
          /\ pc'[c] = "answered" =>
               arrived'[c] <= answer'[c].loaded + TTL[Kind(request'[c])]
      BY <2>1, FreshCaller
    <3> QED
      BY <3>1, <3>2 DEF ShowsRecent, dbVars
  <2>2. CASE /\ pc'[c] = pc[c] /\ request'[c] = request[c]
             /\ arrived'[c] = arrived[c] /\ answer'[c] = answer[c]
    <3>1. PICK v : v = answer[c]
      OBVIOUS
    <3>2. ShowsRecent(v) => ShowsRecent(v)'
      BY RecentStays
    <3>3. /\ pc[c] \notin {"idle", "failed"} => arrived[c] \in 1..now
          /\ pc[c] \in {"set", "answered"} => ShowsRecent(answer[c])
          /\ pc[c] = "answered" =>
               arrived[c] <= answer[c].loaded + TTL[Kind(request[c])]
      BY DEF FreshInv, Answered
    <3>4. \A t \in 1..now : t \in 1..now'
      BY <1>n
    <3> QED
      BY <2>2, <3>1, <3>2, <3>3, <3>4 DEF ShowsRecent
  <2> QED
    BY <2>1, <2>2, CallersStep
<1>3. ASSUME NEW n \in CacheName, NEW k \in DOMAIN cache'[n]
      PROVE  /\ ShowsRecent(cache[n][k].value)'
             /\ cache'[n][k].expiration = cache'[n][k].value.loaded + TTL[n]
  <2>1. CASE k \in DOMAIN cache[n] /\ cache'[n][k] = cache[n][k]
    <3>1. /\ ShowsRecent(cache[n][k].value)
          /\ cache[n][k].expiration = cache[n][k].value.loaded + TTL[n]
      BY <2>1 DEF FreshInv
    <3>2. PICK v : v = cache[n][k].value
      OBVIOUS
    <3>3. ShowsRecent(v)'
      BY <3>1, <3>2, RecentStays
    <3> QED
      BY <2>1, <3>1, <3>2, <3>3 DEF ShowsRecent
  <2>2. ASSUME NEW c \in Caller, NewItem(c, n, k)
        PROVE  /\ ShowsRecent(cache[n][k].value)'
               /\ cache'[n][k].expiration = cache'[n][k].value.loaded + TTL[n]
    <3>1. /\ cache'[n][k].value = answer'[c] /\ answer'[c].loaded = now
          /\ cache'[n][k].expiration = now + TTL[n]
          /\ pc'[c] = "answered"
      BY <2>2 DEF NewItem, SetAndAnswer, TypeOK, Goto, AnswerOK
    <3>2. ShowsRecent(answer[c])'
      BY <1>2, <3>1
    <3> QED
      BY <3>1, <3>2 DEF ShowsRecent
  <2> QED
    BY <2>1, <2>2, CacheStep
<1> QED
  BY <1>1, <1>2, <1>3 DEF FreshInv, Answered

LEMMA FreshInit == Init => FreshInv
<1> SUFFICES ASSUME Init PROVE FreshInv
  OBVIOUS
<1>1. /\ \A c \in Caller : pc[c] = "idle"
      /\ \A n \in CacheName : DOMAIN cache[n] = {}
  BY DEF Init, CacheName, NoItems
<1>2. now = 1 /\ lengths = <<1>> /\ Len(history) = 1
  BY DEF Init
<1>3. \A t \in 1..now : lengths[t] \in 1..Len(history)
  BY <1>2
<1> QED
  BY <1>1, <1>3 DEF FreshInv, Answered

LEMMA FreshCorrect == Spec => []FreshInv
BY FreshInit, FreshStep, QueriesTypeCorrect, PTL DEF Spec

(* No caller gets an answer whose load ended longer than the TTL before it *)
(* asked, or one that shows a state from before that load began.           *)
THEOREM AnswersAreFresh == Spec => []FreshWithinTTL
<1>1. FreshInv => FreshWithinTTL
  BY DEF FreshInv, FreshWithinTTL, Answered, ShowsRecent
<1> QED
  BY <1>1, FreshCorrect, PTL
-----------------------------------------------------------------------------
(* The database does not change, so neither does what a filter selects.    *)
LEMMA SameSelection ==
  ASSUME backend' = backend, NEW f, NEW S
  PROVE  Count(f, S)' = Count(f, S) /\ Page(f, S)' = Page(f, S)
<1>1. \A r : Matches(r, f)' = Matches(r, f)
  BY DEF Matches
<1>2. {r \in S : Matches(r, f)}' = {r \in S : Matches(r, f)}
  BY <1>1
<1>3. Count(f, S)' = Count(f, S)
  BY <1>2 DEF Count
<1>4. Page(f, S)' = Page(f, S)
  BY <1>2 DEF Page
<1> QED
  BY <1>3, <1>4
-----------------------------------------------------------------------------
(* What the database gives for a page when n calls have failed.            *)
GivenFor(result, page, n) ==
  \/ result = page
  \/ backend = "influx" /\ n > 0 /\ result \in Prefixes(page)

(* An answer to a query: a page that the database gave for the device, the *)
(* limit and the offset.  The key of an item in the cache begins with them.*)
PageFor(v, device, limit, offset, n) ==
  /\ v.of # Stats
  /\ v.of.device = device /\ v.of.limit = limit /\ v.of.offset = offset
  /\ GivenFor(v.result, Page(v.of, history[v.asOf]), n)

(* The first count, of a load that began at a time.                        *)
TotalFor(count, began, size, n) ==
  \/ count \in Cardinality(history[lengths[began]])..size
  \/ count = 0 /\ backend = "influx" /\ n > 0

(* An answer to a request for the counts.                                  *)
CountsFor(v, n) ==
  /\ TotalFor(v.result[1], v.began, Cardinality(history[v.asOf]), n)
  /\ \/ v.result[3] = Count(AlarmFree, history[v.asOf])
     \/ v.result[3] = 0 /\ n > 0

GoodFor(v, f, n) ==
  IF f = Stats THEN CountsFor(v, n)
               ELSE PageFor(v, f.device, f.limit, f.offset, n)

ContentInv ==
  /\ \A i, j \in 1..Len(history) : i <= j => history[i] \subseteq history[j]
  /\ \A k \in DOMAIN cache["query"] :
       PageFor(cache["query"][k].value, k[1], k[2], k[3], faults)
  /\ \A k \in DOMAIN cache["stats"] : CountsFor(cache["stats"][k].value, faults)
  /\ \A c \in Caller : pc[c] = "count" =>
       /\ request[c] = Stats
       /\ TotalFor(total[c], arrived[c], Cardinality(Present), faults)
  /\ \A c \in Caller : pc[c] \in {"set", "answered"} =>
       GoodFor(answer[c], request[c], faults)

LEMMA ContentStays ==
  ASSUME TypeOK, [Next]_vars, NEW v, ShowsRecent(v), FreshInv
  PROVE  /\ CountsFor(v, faults) => CountsFor(v, faults)'
         /\ \A d, l, o : PageFor(v, d, l, o, faults) => PageFor(v, d, l, o, faults)'
         /\ \A f : GoodFor(v, f, faults) => GoodFor(v, f, faults)'
<1>1. /\ backend' = backend
      /\ \A i \in 1..Len(history) : history'[i] = history[i]
      /\ \A t \in 1..now : lengths'[t] = lengths[t]
  BY PastStays
<1>2. v.began \in 1..now /\ v.asOf \in 1..Len(history)
  BY DEF ShowsRecent
<1>3. lengths[v.began] \in 1..Len(history)
  BY <1>2 DEF FreshInv
<1>4. /\ history'[lengths'[v.began]] = history[lengths[v.began]]
      /\ history'[v.asOf] = history[v.asOf]
  BY <1>1, <1>2, <1>3
<1>5. \A f, S : Count(f, S)' = Count(f, S) /\ Page(f, S)' = Page(f, S)
  BY <1>1, SameSelection
<1>6. Count(AlarmFree, history[v.asOf])' = Count(AlarmFree, history[v.asOf])
  <2>1. PICK S : S = history[v.asOf]
    OBVIOUS
  <2>2. Count(AlarmFree, S)' = Count(AlarmFree, S)
    BY <1>5
  <2>3. {r \in history'[v.asOf] : Matches(r, AlarmFree)'}
          = {r \in S : Matches(r, AlarmFree)'}
    BY <1>4, <2>1
  <2> QED
    BY <1>4, <2>1, <2>2, <2>3 DEF Count
<1>7. Page(v.of, history[v.asOf])' = Page(v.of, history[v.asOf])
  <2>1. PICK S : S = history[v.asOf]
    OBVIOUS
  <2>2. Page(v.of, S)' = Page(v.of, S)
    BY <1>5
  <2> QED
    BY <1>1, <1>4, <2>1, <2>2 DEF Page, Matches
<1>f. faults > 0 => faults' > 0
  BY PastStays
<1>8. CountsFor(v, faults) => CountsFor(v, faults)'
  BY <1>1, <1>4, <1>6, <1>f DEF CountsFor, TotalFor
<1>9. \A d, l, o : PageFor(v, d, l, o, faults) => PageFor(v, d, l, o, faults)'
  BY <1>1, <1>4, <1>7, <1>f DEF PageFor, GivenFor
<1> QED
  BY <1>8, <1>9 DEF GoodFor
-----------------------------------------------------------------------------
LEMMA HistoryGrows ==
  ASSUME TypeOK, ContentInv, [Next]_vars
  PROVE  /\ \A i, j \in 1..Len(history') : i <= j => history'[i] \subseteq history'[j]
         /\ Present \subseteq Present'
<1>1. /\ \A i \in 1..Len(history) : history'[i] = history[i]
      /\ Len(history) \in Nat \ {0}
      /\ Len(history') \in {Len(history), Len(history) + 1}
  BY PastStays
<1>2. \A i, j \in 1..Len(history) : i <= j => history[i] \subseteq history[j]
  BY DEF ContentInv
<1>3. CASE Len(history') = Len(history)
  BY <1>1, <1>2, <1>3 DEF Present
<1>4. CASE Len(history') = Len(history) + 1
  <2>1. ~UNCHANGED history
    BY <1>1, <1>4
  <2>2. PICK batch \in SUBSET Record : Insert(batch)
    BY <2>1, StepCases, CallerStepQuiet DEF Cleanup, Tick, vars, dbVars
  <2>3. history' = Append(history, Present \cup batch)
    BY <2>2 DEF Insert
  <2>4. history'[Len(history) + 1] = Present \cup batch
    BY <1>1, <2>3 DEF TypeOK
  <2>5. \A i \in 1..Len(history) : history[i] \subseteq Present
    BY <1>1, <1>2 DEF Present
  <2>6. \A j \in 1..Len(history') : j \in 1..Len(history) \/ j = Len(history) + 1
    BY <1>1, <1>4
  <2>7. ASSUME NEW i \in 1..Len(history'), NEW j \in 1..Len(history'), i <= j
        PROVE  history'[i] \subseteq history'[j]
    <3>1. CASE j \in 1..Len(history)
      <4>1. i \in 1..Len(history)
        BY <1>1, <2>7, <3>1
      <4> QED
        BY <1>1, <1>2, <2>7, <3>1, <4>1
    <3>2. CASE j = Len(history) + 1
      <4>1. CASE i \in 1..Len(history)
        BY <1>1, <2>4, <2>5, <3>2, <4>1
      <4>2. CASE i = Len(history) + 1
        BY <3>2, <4>2
      <4> QED
        BY <2>6, <4>1, <4>2
    <3> QED
      BY <2>6, <3>1, <3>2
  <2>8. Present \subseteq Present'
    BY <1>4, <2>4 DEF Present
  <2> QED
    BY <2>7, <2>8
<1> QED
  BY <1>1, <1>3, <1>4

LEMMA HistoryFinite ==
  ASSUME TypeOK, NEW i \in 1..Len(history)
  PROVE  history[i] \in SUBSET Record /\ IsFiniteSet(history[i])
         /\ Cardinality(history[i]) \in Nat
<1>1. history[i] \in SUBSET Record
  BY DEF TypeOK
<1> QED
  BY <1>1, Counts

(* The collection has not shrunk since a load began.                       *)
LEMMA GrownSince ==
  ASSUME TypeOK, FreshInv, ContentInv, NEW t \in 1..now
  PROVE  /\ Cardinality(history[lengths[t]]) \in Nat
         /\ Cardinality(Present) \in Nat
         /\ Cardinality(history[lengths[t]]) <= Cardinality(Present)
<1>1. /\ lengths[t] \in 1..Len(history) /\ Len(history) \in 1..Len(history)
      /\ Len(history) \in Nat
  BY PresentRecords DEF FreshInv, TypeOK
<1>2. history[lengths[t]] \subseteq Present
  BY <1>1 DEF ContentInv, Present
<1> QED
  BY <1>1, <1>2, HistoryFinite, FS_Subset DEF Present

LEMMA ContentCaller ==
  ASSUME TypeOK, FreshInv, ContentInv, NEW c \in Caller, CallerStep(c)
  PROVE  /\ pc'[c] = "count" =>
              /\ request'[c] = Stats
              /\ TotalFor(total'[c], arrived'[c], Cardinality(Present), faults')
         /\ pc'[c] \in {"set", "answered"} => GoodFor(answer'[c], request'[c], faults')
<1> USE DEF Goto
<1>t. /\ DOMAIN pc = Caller /\ DOMAIN request = Caller /\ DOMAIN arrived = Caller
      /\ DOMAIN answer = Caller /\ DOMAIN total = Caller /\ now \in Nat \ {0}
      /\ Len(history) \in Nat \ {0} /\ request[c] \in Filter \cup {Stats}
      /\ faults \in Nat
  BY DEF TypeOK
<1>a. pc[c] \notin {"idle", "failed"} => arrived[c] \in 1..now
  BY DEF FreshInv
<1>1. ASSUME NEW what \in Filter \cup {Stats}, Arrive(c, what)
      PROVE  /\ pc'[c] # "count"
             /\ pc'[c] \in {"set", "answered"} => GoodFor(answer'[c], request'[c], faults')
  <2> DEFINE items == cache[Kind(what)]
  <2>1. request'[c] = what /\ Kind(what) \in CacheName /\ faults' = faults
    BY <1>1, <1>t, Kinds DEF Arrive
  <2>2. PICK a \in Places(what) :
          IF Found(items, KeyOf(what, a), now)
            THEN /\ answer' = [answer EXCEPT ![c] = items[KeyOf(what, a)].value]
                 /\ Goto(c, "answered")
            ELSE Goto(c, "load")
    BY <1>1 DEF Arrive
  <2> DEFINE key == KeyOf(what, a)
  <2> HIDE DEF items, key
  <2>3. CASE Found(items, key, now)
    <3>1. pc'[c] = "answered" /\ answer'[c] = items[key].value
      BY <1>t, <2>2, <2>3 DEF key
    <3>2. key \in DOMAIN items
      BY <2>3 DEF Found
    <3>3. CASE what = Stats
      <4>1. Kind(what) = "stats"
        BY <3>3, Kinds
      <4>2. CountsFor(items[key].value, faults)
        BY <3>2, <4>1 DEF items, ContentInv
      <4> QED
        BY <2>1, <3>1, <3>3, <4>2 DEF GoodFor
    <3>4. CASE what # Stats
      <4>1. Kind(what) = "query"
        BY <3>4 DEF Kind
      <4>2. /\ key[1] = what.device /\ key[2] = what.limit
            /\ key[3] = what.offset
        BY <3>4 DEF key, KeyOf, Key
      <4>3. PageFor(items[key].value, key[1], key[2], key[3], faults)
        BY <3>2, <4>1 DEF items, ContentInv
      <4> QED
        BY <2>1, <3>1, <3>4, <4>2, <4>3 DEF GoodFor
    <3> QED
      BY <3>1, <3>3, <3>4
  <2>4. CASE ~Found(items, key, now)
    BY <1>t, <2>2, <2>4 DEF key
  <2> QED
    BY <2>3, <2>4
<1>2. CASE CountTotal(c)
  <2>1. /\ pc'[c] = "count" /\ request'[c] = Stats /\ arrived'[c] = arrived[c]
        /\ arrived[c] \in 1..now
    BY <1>2, <1>t, <1>a DEF CountTotal
  <2>2. CASE total'[c] = Count(Stats, Present)
    <3>1. Count(Stats, Present) = Cardinality(Present)
      BY Counts, PresentRecords
    <3> QED
      BY <2>1, <2>2, <3>1, GrownSince DEF TotalFor
  <2>3. CASE total'[c] = 0 /\ Breaks
    <3>1. backend = "influx" /\ faults' > 0
      BY <2>3, <1>t DEF Breaks, Fault
    <3> QED
      BY <2>1, <2>3, <3>1 DEF TotalFor
  <2> QED
    BY <1>2, <1>t, <2>2, <2>3 DEF CountTotal
<1>3. CASE CountFaults(c)
  <2>1. /\ pc[c] = "count" /\ pc'[c] = "set" /\ request'[c] = request[c]
        /\ answer'[c].began = arrived[c] /\ answer'[c].asOf = Len(history)
        /\ answer'[c].result[1] = total[c]
        /\ \/ answer'[c].result[3] = Count(AlarmFree, Present) /\ faults' = faults
           \/ answer'[c].result[3] = 0 /\ faults' = faults + 1
    BY <1>3, <1>t DEF CountFaults, Loaded, Totals, Fault
  <2>2. /\ request[c] = Stats
        /\ TotalFor(total[c], arrived[c], Cardinality(Present), faults)
    BY <2>1 DEF ContentInv
  <2>3. faults' > 0 \/ faults' = faults
    BY <1>t, <2>1
  <2>4. TotalFor(total[c], arrived[c], Cardinality(Present), faults')
    BY <2>2, <2>3, <1>t DEF TotalFor
  <2>5. CountsFor(answer'[c], faults')
    BY <1>t, <2>1, <2>4 DEF CountsFor, Present
  <2> QED
    BY <2>1, <2>2, <2>5 DEF GoodFor
<1>4. CASE Query(c)
  <2> DEFINE page == Page(request[c], Present)
  <2>1. PICK result : /\ Loaded(c, result)
                      /\ \/ result = page
                         \/ Breaks /\ result \in Prefixes(page)
    BY <1>4 DEF Query
  <2>2. /\ pc'[c] = "set" /\ request'[c] = request[c] /\ request[c] # Stats
        /\ answer'[c].of = request[c] /\ answer'[c].asOf = Len(history)
        /\ answer'[c].result = result
    <3> HIDE DEF page
    <3> QED
      BY <1>4, <1>t, <2>1 DEF Query, Loaded
  <2>3. Breaks => backend = "influx" /\ faults' > 0
    BY <1>t DEF Breaks, Fault
  <2>4. GivenFor(result, page, faults')
    <3> HIDE DEF page
    <3> QED
      BY <2>1, <2>3 DEF GivenFor
  <2> QED
    BY <2>2, <2>4 DEF GoodFor, PageFor, Present
<1>5. CASE LoadFails(c)
  BY <1>5, <1>t DEF LoadFails
<1>6. CASE SetAndAnswer(c)
  <2>1. /\ answer'[c] = [answer[c] EXCEPT !.loaded = now]
        /\ request'[c] = request[c] /\ pc[c] = "set" /\ pc'[c] = "answered"
        /\ faults' = faults
    BY <1>6, <1>t DEF SetAndAnswer
  <2>2. AnswerOK(answer[c])
    BY DEF TypeOK
  <2>3. /\ answer'[c].began = answer[c].began /\ answer'[c].asOf = answer[c].asOf
        /\ answer'[c].of = answer[c].of /\ answer'[c].result = answer[c].result
    BY <2>1, <2>2 DEF AnswerOK
  <2>4. GoodFor(answer[c], request[c], faults)
    BY <2>1 DEF ContentInv
  <2> QED
    BY <2>1, <2>3, <2>4 DEF GoodFor, CountsFor, PageFor
<1> QED
  BY <1>1, <1>2, <1>3, <1>4, <1>5, <1>6 DEF CallerStep

LEMMA ContentStep == TypeOK /\ FreshInv /\ ContentInv /\ [Next]_vars => ContentInv'
<1> SUFFICES ASSUME TypeOK, FreshInv, ContentInv, [Next]_vars PROVE ContentInv'
  OBVIOUS
<1>1. /\ \A i, j \in 1..Len(history') : i <= j => history'[i] \subseteq history'[j]
      /\ Present \subseteq Present'
  BY HistoryGrows
<1>2. ASSUME NEW c \in Caller
      PROVE  /\ pc'[c] = "count" =>
                  /\ request'[c] = Stats
                  /\ TotalFor(total[c], arrived[c], Cardinality(Present), faults)'
             /\ pc'[c] \in {"set", "answered"} =>
                  GoodFor(answer[c], request[c], faults)'
  <2>1. CASE CallerStep(c)
    <3>1. UNCHANGED <<dbVars, now, lengths>>
      BY <2>1, CallerStepQuiet
    <3>2. /\ pc'[c] = "count" =>
               /\ request'[c] = Stats
               /\ TotalFor(total'[c], arrived'[c], Cardinality(Present), faults')
          /\ pc'[c] \in {"set", "answered"} =>
               GoodFor(answer'[c], request'[c], faults')
      BY <2>1, ContentCaller
    <3>3. backend' = backend /\ history' = history /\ lengths' = lengths
      BY <3>1 DEF dbVars
    <3>4. PICK v, f, n : v = answer'[c] /\ f = request'[c] /\ n = faults'
      OBVIOUS
    <3>5. GoodFor(v, f, n) => GoodFor(v, f, n)'
      <4>1. CountsFor(v, n) => CountsFor(v, n)'
        BY <3>3 DEF CountsFor, TotalFor, Count, Matches
      <4>2. \A d, l, o : PageFor(v, d, l, o, n) => PageFor(v, d, l, o, n)'
        BY <3>3 DEF PageFor, GivenFor, Page, Matches
      <4> QED
        BY <4>1, <4>2 DEF GoodFor
    <3>6. pc'[c] \in {"set", "answered"} => GoodFor(v, f, n)'
      BY <3>2, <3>4, <3>5
    <3>7. pc'[c] \in {"set", "answered"} =>
            GoodFor(answer[c], request[c], faults)'
      BY <3>4, <3>6 DEF GoodFor, CountsFor, TotalFor, PageFor, GivenFor
    <3>8. pc'[c] = "count" =>
            TotalFor(total[c], arrived[c], Cardinality(Present), faults)'
      BY <3>2, <3>3 DEF TotalFor, Present
    <3> QED
      BY <3>2, <3>7, <3>8
  <2>2. CASE /\ pc'[c] = pc[c] /\ request'[c] = request[c] /\ total'[c] = total[c]
             /\ arrived'[c] = arrived[c] /\ answer'[c] = answer[c]
    <3>1. PICK v, f : v = answer[c] /\ f = request[c]
      OBVIOUS
    <3>2. ASSUME pc[c] \in {"set", "answered"} PROVE GoodFor(v, f, faults)'
      BY <3>1, <3>2, ContentStays DEF FreshInv, ContentInv
    <3>3. ASSUME pc[c] = "count"
          PROVE  TotalFor(total[c], arrived[c], Cardinality(Present), faults)'
      <4>1. arrived[c] \in 1..now
        BY <3>3 DEF FreshInv
      <4>2. lengths[arrived[c]] \in 1..Len(history)
        BY <4>1 DEF FreshInv
      <4>3. history'[lengths'[arrived[c]]] = history[lengths[arrived[c]]]
        BY <4>1, <4>2, PastStays
      <4>4. TotalFor(total[c], arrived[c], Cardinality(Present), faults)
        BY <3>3 DEF ContentInv
      <4>5. Present' \in SUBSET Record
        BY TypeStep, PresentRecords DEF TypeOK, Present
      <4>6. /\ Cardinality(Present) <= Cardinality(Present')
            /\ Cardinality(Present) \in Nat /\ Cardinality(Present') \in Nat
        BY <1>1, <4>1, <4>5, GrownSince, Counts, FS_Subset
      <4>7. Cardinality(history[lengths[arrived[c]]]) \in Nat
        BY <4>1, GrownSince
      <4>8. backend' = backend /\ (faults > 0 => faults' > 0)
        BY PastStays
      <4> QED
        BY <2>2, <4>3, <4>4, <4>6, <4>7, <4>8 DEF TotalFor
    <3>4. pc[c] = "count" => request[c] = Stats
      BY DEF ContentInv
    <3>5. pc[c] \in {"set", "answered"} => GoodFor(answer[c], request[c], faults)'
      BY <2>2, <3>1, <3>2 DEF GoodFor, CountsFor, TotalFor, PageFor, GivenFor
    <3> QED
      BY <2>2, <3>3, <3>4, <3>5
  <2> QED
    BY <2>1, <2>2, CallersStep
<1>3. ASSUME NEW k \in DOMAIN cache'["query"]
      PROVE  PageFor(cache["query"][k].value, k[1], k[2], k[3], faults)'
  <2>1. CASE k \in DOMAIN cache["query"] /\ cache'["query"][k] = cache["query"][k]
    <3>1. PICK v : v = cache["query"][k].value
      OBVIOUS
    <3>2. PageFor(v, k[1], k[2], k[3], faults) /\ ShowsRecent(v)
      BY <2>1, <3>1 DEF ContentInv, FreshInv, CacheName
    <3>3. PageFor(v, k[1], k[2], k[3], faults)'
      BY <3>2, ContentStays
    <3> QED
      BY <2>1, <3>1, <3>3 DEF PageFor, GivenFor
  <2>2. ASSUME NEW c \in Caller, NewItem(c, "query", k)
        PROVE  PageFor(cache["query"][k].value, k[1], k[2], k[3], faults)'
    <3>1. /\ cache'["query"][k].value = answer'[c] /\ pc'[c] = "answered"
          /\ request'[c] = request[c] /\ request[c] # Stats
      BY <2>2, Kinds DEF NewItem, SetAndAnswer, TypeOK, Goto
    <3>2. /\ k[1] = request[c].device /\ k[2] = request[c].limit
          /\ k[3] = request[c].offset
      BY <2>2, <3>1 DEF NewItem, KeyOf, Key
    <3>3. GoodFor(answer[c], request[c], faults)'
      BY <1>2, <3>1
    <3> QED
      BY <3>1, <3>2, <3>3 DEF GoodFor, PageFor, GivenFor
  <2> QED
    BY <2>1, <2>2, CacheStep DEF CacheName
<1>4. ASSUME NEW k \in DOMAIN cache'["stats"]
      PROVE  CountsFor(cache["stats"][k].value, faults)'
  <2>1. CASE k \in DOMAIN cache["stats"] /\ cache'["stats"][k] = cache["stats"][k]
    <3>1. PICK v : v = cache["stats"][k].value
      OBVIOUS
    <3>2. CountsFor(v, faults) /\ ShowsRecent(v)
      BY <2>1, <3>1 DEF ContentInv, FreshInv, CacheName
    <3>3. CountsFor(v, faults)'
      BY <3>2, ContentStays
    <3> QED
      BY <2>1, <3>1, <3>3 DEF CountsFor, TotalFor
  <2>2. ASSUME NEW c \in Caller, NewItem(c, "stats", k)
        PROVE  CountsFor(cache["stats"][k].value, faults)'
    <3>1. /\ cache'["stats"][k].value = answer'[c] /\ pc'[c] = "answered"
          /\ request'[c] = request[c] /\ request[c] = Stats
      BY <2>2, Kinds DEF NewItem, SetAndAnswer, TypeOK, Goto
    <3>2. GoodFor(answer[c], request[c], faults)'
      BY <1>2, <3>1
    <3>3. CountsFor(answer[c], faults)'
      BY <3>1, <3>2 DEF GoodFor
    <3> QED
      BY <3>1, <3>3 DEF CountsFor, TotalFor
  <2> QED
    BY <2>1, <2>2, CacheStep DEF CacheName
<1> QED
  BY <1>1, <1>2, <1>3, <1>4 DEF ContentInv

LEMMA ContentInit == Init => ContentInv
<1> SUFFICES ASSUME Init PROVE ContentInv
  OBVIOUS
<1>1. /\ \A c \in Caller : pc[c] = "idle"
      /\ \A n \in CacheName : DOMAIN cache[n] = {}
  BY DEF Init, CacheName, NoItems
<1>2. Len(history) = 1
  BY DEF Init
<1> QED
  BY <1>1, <1>2 DEF ContentInv, CacheName

LEMMA ContentCorrect == Spec => []ContentInv
BY ContentInit, ContentStep, FreshCorrect, QueriesTypeCorrect, PTL DEF Spec

(* A caller of /api/records gets a page that the database gave for the     *)
(* device, limit and offset it asked for, whoever loaded it, or with       *)
(* InfluxDB, after a fault, the beginning of such a page.                  *)
THEOREM PagesAreAskedFor == Spec => []PageIsAskedFor
<1>1. ContentInv => PageIsAskedFor
  BY Kinds DEF ContentInv, PageIsAskedFor, Answered, GoodFor, PageFor, GivenFor,
     MayHaveBroken
<1> QED
  BY <1>1, ContentCorrect, PTL

(* The counts of an answer are those of states of the collection between   *)
(* the beginning and the end of the load; only a failed call makes one 0,  *)
(* the first one only with InfluxDB.                                       *)
THEOREM StatsAreOfLoad == Spec => []StatsAreCounts
<1>1. ContentInv => StatsAreCounts
  BY Kinds DEF ContentInv, StatsAreCounts, Answered, GoodFor, CountsFor, TotalFor,
     MayHaveBroken
<1> QED
  BY <1>1, ContentCorrect, PTL
=============================================================================
