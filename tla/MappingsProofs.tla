--------------------------- MODULE MappingsProofs ---------------------------
(***************************************************************************)
(* Theorems about Mappings, for any sets of sources, clients and readers   *)
(* and any bounds.                                                         *)
(***************************************************************************)
EXTENDS Mappings, SequenceTheorems, TLAPS

(* What TypeOK says of the history, in the form the proofs use.            *)
LEMMA HistoryType ==
  ASSUME TypeOK
  PROVE  /\ history \in Seq(Docs) /\ Len(history) \in Nat \ {0}
         /\ coll \in Docs
         /\ \A n \in 1..Len(history) : history[n] \in Docs
<1>1. history \in Seq(Docs) /\ history # << >>
  BY DEF TypeOK
<1>2. Len(history) \in Nat \ {0}
  BY <1>1
<1>3. \A n \in 1..Len(history) : history[n] \in Docs
  BY <1>1
<1> QED
  BY <1>1, <1>2, <1>3 DEF coll

(* One more state of the collection.                                       *)
Grown(states) ==
  /\ states \in Seq(Docs)
  /\ Len(states) = Len(history) + 1
  /\ \A n \in 1..Len(history) : states[n] = history[n]
  /\ states[Len(history) + 1] \in Docs

LEMMA AppendGrows ==
  ASSUME TypeOK, NEW d \in Docs
  PROVE  Grown(Append(history, d))
BY HistoryType DEF Grown

LEMMA PutGrows ==
  ASSUME TypeOK, NEW s \in Source
  PROVE  Grown(Put(s))
<1> DEFINE doc == [exists |-> TRUE, active |-> TRUE, change |-> Len(history)]
<1>1. doc \in Doc
  BY HistoryType DEF Doc
<1>2. [coll EXCEPT ![s] = doc] \in Docs
  BY <1>1, HistoryType DEF Docs
<1> QED
  BY <1>2, AppendGrows DEF Put

LEMMA DeactivatedGrows ==
  ASSUME TypeOK, NEW s \in Source
  PROVE  Grown(Deactivated(s))
<1>1. coll \in [Source -> Doc] /\ coll[s] \in Doc
  BY HistoryType DEF Docs
<1>2. [coll[s] EXCEPT !.active = FALSE] \in Doc
  BY <1>1 DEF Doc
<1>3. [coll EXCEPT ![s].active = FALSE] \in Docs
  BY <1>1, <1>2 DEF Docs
<1> QED
  BY <1>3, AppendGrows DEF Deactivated

(* A table to be filled, and one with one more document.                   *)
LEMMA UnreadTyped ==
  ASSUME NEW n \in Nat
  PROVE  IsTable(Unread(n)) /\ Unread(n).asOf = n
<1>1. None \in [{} -> Nat]
  BY DEF None
<1> QED
  BY <1>1 DEF Unread, IsTable

LEMMA NothingTyped == IsTable(Nothing) /\ Nothing.asOf = 0
BY UnreadTyped DEF Nothing

LEMMA PassedTyped ==
  ASSUME TypeOK, NEW table, IsTable(table), NEW s \in Source
  PROVE  IsTable(Passed(table, s)) /\ Passed(table, s).asOf = table.asOf
<1> DEFINE known == DOMAIN table.mappings \cup ({s} \cap Active(coll))
           m == [u \in known |-> IF u = s THEN coll[s].change
                                         ELSE table.mappings[u]]
<1>1. coll[s].change \in Nat
  BY HistoryType DEF Docs, Doc
<1>2. table.mappings \in [DOMAIN table.mappings -> Nat]
  BY DEF IsTable
<1>3. known \subseteq Source
  BY DEF IsTable
<1>4. \A u \in known : u # s => u \in DOMAIN table.mappings
  OBVIOUS
<1>5. m \in [known -> Nat]
  BY <1>1, <1>2, <1>4
<1>6. Passed(table, s) = [mappings |-> m, asOf |-> table.asOf,
                          missing |-> table.missing \ {s}]
  BY DEF Passed
<1> QED
  BY <1>3, <1>5, <1>6 DEF IsTable
-----------------------------------------------------------------------------
LEMMA TypeInit == Init => TypeOK
<1> SUFFICES ASSUME Init PROVE TypeOK
  OBVIOUS
<1> DEFINE docs(there, on) ==
             [s \in Source |-> [exists |-> s \in there, active |-> s \in on,
                               change |-> 0]]
<1>1. PICK there \in SUBSET Source, on \in SUBSET Source :
        history = <<docs(there, on)>>
  BY DEF Init
<1>2. docs(there, on) \in Docs
  BY DEF Docs, Doc
<1>3. history \in Seq(Docs) /\ Len(history) = 1
  <2> HIDE DEF docs
  <2> QED
    BY <1>1, <1>2
<1>4. /\ IsTable(memory) /\ memory.asOf <= Len(history)
      /\ found = [t \in Loader |-> found[t]]
      /\ \A t \in Loader : IsTable(found[t]) /\ found[t].asOf <= Len(history)
  BY <1>3, NothingTyped DEF Init
<1>5. /\ pc \in [Loader -> {"idle", "lock"}]
      /\ mu = {t \in Loader : pc[t] \in {"find", "read"}}
      /\ \A t, u \in mu : t = u
  BY DEF Init
<1>6. /\ written \in [Client -> 0..Len(history)]
      /\ confirmed \in 0..Len(history)
      /\ since \in [Reader -> 0..Len(history)]
      /\ rules \in [Reader -> Nat]
      /\ chosen \in [Reader -> Source]
      /\ rpc \in [Reader -> {"idle", "detect", "map", "mapped"}]
      /\ faults \in Nat /\ losses \in Nat
  BY <1>3, SourceAssumption DEF Init
<1>7. history # << >>
  BY <1>3
<1> QED
  BY <1>3, <1>4, <1>5, <1>6, <1>7 DEF TypeOK

(* What a client's write does to the history and to the client.            *)
LEMMA Writes ==
  ASSUME TypeOK, NEW c \in Client, NEW s \in Source,
         CreateMapping(c, s) \/ UpdateMapping(c, s) \/ DeleteMapping(c, s)
  PROVE  /\ Ready /\ pc[c] = "idle"
         /\ history' = history \/ Grown(history')
         /\ \/ /\ written' = [written EXCEPT ![c] = Len(history')]
               /\ pc' = [pc EXCEPT ![c] = "lock"]
            \/ UNCHANGED <<pc, written>>
         /\ faults' \in Nat
         /\ UNCHANGED <<memory, mu, found, readerVars, confirmed, losses>>
<1>1. faults \in Nat
  BY DEF TypeOK
<1>2. PICK states : /\ states = history \/ Grown(states)
                    /\ Write(c, states)
  BY PutGrows, DeactivatedGrows DEF CreateMapping, UpdateMapping, DeleteMapping
<1>3. CASE Answered(c, states)
  BY <1>1, <1>2, <1>3 DEF Write, Answered, Goto
<1>4. CASE Errored(states)
  <2>1. history' = history \/ history' = states
    BY <1>4 DEF Errored
  <2>2. faults' \in Nat /\ UNCHANGED <<pc, written>>
    BY <1>1, <1>4 DEF Errored, Fault
  <2> QED
    BY <1>2, <2>1, <2>2 DEF Write
<1> QED
  BY <1>2, <1>3, <1>4 DEF Write

LEMMA Seeds ==
  ASSUME TypeOK, Seed
  PROVE  /\ pc[Boot] = "seed" /\ pc' = [pc EXCEPT ![Boot] = "lock"]
         /\ history' = history \/ Grown(history')
         /\ faults' \in Nat
         /\ UNCHANGED <<memory, mu, found, written, readerVars, confirmed,
                        losses>>
<1>1. faults \in Nat
  BY DEF TypeOK
<1>2. history' = history \/ history' = Put(Fallback)
  BY DEF Seed
<1>3. Grown(Put(Fallback))
  BY PutGrows, SourceAssumption
<1>4. faults' \in Nat
  BY <1>1 DEF Seed, Fault
<1> QED
  BY <1>2, <1>3, <1>4 DEF Seed, Goto

(* A thread outside the lock goes on to a place outside the lock.          *)
LEMMA StaysOutside ==
  ASSUME TypeOK, NEW t \in Loader, NEW label,
         pc[t] \notin {"find", "read"},
         label \in {"idle", "lock", "seed", "ready", "failed"},
         pc' = [pc EXCEPT ![t] = label], UNCHANGED mu
  PROVE  /\ pc' \in [Loader -> {"idle", "lock", "find", "read", "seed",
                                "ready", "failed"}]
         /\ mu' = {u \in Loader : pc'[u] \in {"find", "read"}}
         /\ \A u, v \in mu' : u = v
BY DEF TypeOK

(* The conjuncts of TypeOK that speak of the history.                      *)
LEMMA GrowthKeeps ==
  ASSUME TypeOK, history' = history \/ Grown(history'),
         UNCHANGED <<memory, found, since, confirmed>>,
         written' \in [Client -> 0..Len(history')]
  PROVE  /\ history' \in Seq(Docs) /\ history' # << >>
         /\ Len(history') \in Nat /\ Len(history) <= Len(history')
         /\ IsTable(memory)' /\ memory'.asOf <= Len(history')
         /\ found' = [t \in Loader |-> found'[t]]
         /\ \A t \in Loader : IsTable(found'[t])
                             /\ found'[t].asOf <= Len(history')
         /\ since' \in [Reader -> 0..Len(history')]
         /\ confirmed' \in 0..Len(history')
<1>1. /\ history \in Seq(Docs) /\ history # << >> /\ Len(history) \in Nat
      /\ memory.asOf \in Nat /\ \A t \in Loader : found[t].asOf \in Nat
      /\ memory.asOf <= Len(history)
      /\ \A t \in Loader : found[t].asOf <= Len(history)
  BY HistoryType DEF TypeOK, IsTable
<1>2. /\ history' \in Seq(Docs) /\ history' # << >> /\ Len(history') \in Nat
      /\ Len(history) <= Len(history')
  BY <1>1 DEF Grown
<1>3. IsTable(memory)' /\ \A t \in Loader : IsTable(found'[t])
  BY DEF TypeOK, IsTable
<1>4. found' = [t \in Loader |-> found'[t]]
  BY DEF TypeOK
<1>5. since' \in [Reader -> 0..Len(history')] /\ confirmed' \in 0..Len(history')
  BY <1>1, <1>2 DEF TypeOK
<1> QED
  BY <1>1, <1>2, <1>3, <1>4, <1>5

(* A request of a reader that ends leaves the other readers alone.         *)
LEMMA LeaveKeeps ==
  ASSUME TypeOK, NEW r \in Reader, Leave(r)
  PROVE  /\ rpc' \in [Reader -> {"idle", "detect", "map", "mapped"}]
         /\ chosen' \in [Reader -> Source]
         /\ rules' \in [Reader -> Nat]
         /\ since' \in [Reader -> 0..Len(history)]
         /\ rpc'[r] = "idle" /\ since'[r] = 0
         /\ \A p \in Reader \ {r} :
              /\ rpc'[p] = rpc[p] /\ chosen'[p] = chosen[p]
              /\ rules'[p] = rules[p] /\ since'[p] = since[p]
<1>1. Len(history) \in Nat
  BY HistoryType DEF TypeOK
<1> QED
  BY <1>1, SourceAssumption DEF Leave, TypeOK

(* The call of a loader that ends: its write is forgotten.                 *)
LEMMA ForgottenKeeps ==
  ASSUME TypeOK, NEW t \in Loader, Forgotten(t)
  PROVE  /\ written' \in [Client -> 0..Len(history)]
         /\ \A c \in Client : written'[c] <= written[c]
         /\ \A c \in Client \ {t} : written'[c] = written[c]
<1>1. Len(history) \in Nat
  BY HistoryType DEF TypeOK
<1> QED
  BY <1>1 DEF Forgotten, TypeOK

LEMMA TypeStep == TypeOK /\ [Next]_vars => TypeOK'
<1> SUFFICES ASSUME TypeOK, [Next]_vars PROVE TypeOK'
  OBVIOUS
<1> USE DEF readerVars, Goto
<1>0. /\ Len(history) \in Nat \ {0}
      /\ faults \in Nat /\ confirmed \in 0..Len(history)
  BY HistoryType DEF TypeOK
<1>1. ASSUME NEW c \in Client, NEW s \in Source,
             CreateMapping(c, s) \/ UpdateMapping(c, s) \/ DeleteMapping(c, s)
      PROVE  TypeOK'
  <2>1. /\ pc[c] = "idle"
        /\ history' = history \/ Grown(history')
        /\ \/ /\ written' = [written EXCEPT ![c] = Len(history')]
              /\ pc' = [pc EXCEPT ![c] = "lock"]
           \/ UNCHANGED <<pc, written>>
        /\ faults' \in Nat
        /\ UNCHANGED <<memory, mu, found, readerVars, confirmed, losses>>
    BY <1>1, Writes
  <2>2. Len(history') \in Nat /\ Len(history) <= Len(history')
    BY <2>1, <1>0 DEF Grown
  <2>3. written' \in [Client -> 0..Len(history')]
    <3>1. /\ written \in [Client -> 0..Len(history)]
          /\ written \in [Client -> 0..Len(history')]
      BY <1>0, <2>2 DEF TypeOK
    <3>2. CASE UNCHANGED <<pc, written>>
      BY <3>1, <3>2
    <3>3. CASE written' = [written EXCEPT ![c] = Len(history')]
      BY <2>2, <3>1, <3>3
    <3> QED
      BY <2>1, <3>2, <3>3
  <2>4. /\ pc' \in [Loader -> {"idle", "lock", "find", "read", "seed",
                               "ready", "failed"}]
        /\ mu' = {u \in Loader : pc'[u] \in {"find", "read"}}
        /\ \A u, v \in mu' : u = v
    <3>1. CASE pc' = [pc EXCEPT ![c] = "lock"]
      BY <2>1, <3>1, StaysOutside DEF Loader
    <3>2. CASE UNCHANGED pc
      BY <2>1, <3>2 DEF TypeOK
    <3> QED
      BY <2>1, <3>1, <3>2
  <2> QED
    BY <2>1, <2>3, <2>4, GrowthKeeps DEF TypeOK
<1>2. ASSUME NEW t \in Loader, Lock(t) PROVE TypeOK'
  <2>1. /\ pc' \in [Loader -> {"idle", "lock", "find", "read", "seed",
                               "ready", "failed"}]
        /\ mu' = {u \in Loader : pc'[u] \in {"find", "read"}}
        /\ \A u, v \in mu' : u = v
    BY <1>2 DEF Lock, TypeOK
  <2> QED
    BY <1>2, <2>1 DEF Lock, TypeOK
<1>3. ASSUME NEW t \in Loader, NEW table, IsTable(table),
             table.asOf <= Len(history), found' = [found EXCEPT ![t] = table]
      PROVE  /\ found' = [u \in Loader |-> found'[u]]
             /\ \A u \in Loader : IsTable(found'[u])
                                 /\ found'[u].asOf <= Len(history)
  <2>1. \A u \in Loader : IsTable(found[u]) /\ found[u].asOf <= Len(history)
    BY DEF TypeOK
  <2>2. /\ found' = [u \in Loader |-> found'[u]]
        /\ \A u \in Loader : found'[u] = IF u = t THEN table ELSE found[u]
    BY <1>3 DEF TypeOK
  <2> QED
    BY <1>3, <2>1, <2>2
<1>12. ASSUME NEW t \in Loader, Find(t) PROVE TypeOK'
  <2>1. /\ pc' \in [Loader -> {"idle", "lock", "find", "read", "seed",
                               "ready", "failed"}]
        /\ mu' = {u \in Loader : pc'[u] \in {"find", "read"}}
        /\ \A u, v \in mu' : u = v
    BY <1>12 DEF Find, TypeOK
  <2>2. /\ IsTable(Unread(Len(history)))
        /\ Unread(Len(history)).asOf <= Len(history)
    BY <1>0, UnreadTyped
  <2>4. found' = [found EXCEPT ![t] = Unread(Len(history))]
    BY <1>12 DEF Find
  <2>3. /\ found' = [u \in Loader |-> found'[u]]
        /\ \A u \in Loader : IsTable(found'[u])
                            /\ found'[u].asOf <= Len(history)
    BY <1>3, <2>2, <2>4
  <2> QED
    BY <1>12, <2>1, <2>3 DEF Find, TypeOK
<1>13. ASSUME NEW t \in Loader, NEW s \in Source, Read(t, s) PROVE TypeOK'
  <2>1. IsTable(found[t]) /\ found[t].asOf <= Len(history)
    BY DEF TypeOK
  <2>2. found' = [found EXCEPT ![t] = Passed(found[t], s)]
    BY <1>13 DEF Read, TypeOK
  <2>3. /\ found' = [u \in Loader |-> found'[u]]
        /\ \A u \in Loader : IsTable(found'[u])
                            /\ found'[u].asOf <= Len(history)
    BY <1>3, <2>1, <2>2, PassedTyped
  <2> QED
    BY <1>13, <2>3 DEF Read, TypeOK
<1>4. ASSUME NEW t \in Loader, FindFails(t) PROVE TypeOK'
  <2>1. /\ pc' \in [Loader -> {"idle", "lock", "find", "read", "seed",
                               "ready", "failed"}]
        /\ mu' = {u \in Loader : pc'[u] \in {"find", "read"}}
        /\ \A u, v \in mu' : u = v
    <3>1. PICK label \in {"idle", "seed", "ready", "failed"} :
            pc' = [pc EXCEPT ![t] = label]
      BY <1>4 DEF FindFails
    <3>2. pc[t] \in {"find", "read"} /\ mu' = mu \ {t}
      BY <1>4 DEF FindFails
    <3> QED
      BY <3>1, <3>2 DEF TypeOK
  <2>2. written' \in [Client -> 0..Len(history)]
    BY <1>4, ForgottenKeeps DEF FindFails
  <2> QED
    BY <1>4, <2>1, <2>2, <1>0 DEF FindFails, Fault, TypeOK
<1>5. ASSUME NEW t \in Loader, Install(t) PROVE TypeOK'
  <2>1. /\ pc' \in [Loader -> {"idle", "lock", "find", "read", "seed",
                               "ready", "failed"}]
        /\ mu' = {u \in Loader : pc'[u] \in {"find", "read"}}
        /\ \A u, v \in mu' : u = v
    <3>1. PICK label \in {"idle", "seed", "ready", "failed"} :
            pc' = [pc EXCEPT ![t] = label]
      BY <1>5 DEF Install
    <3>2. pc[t] \in {"find", "read"} /\ mu' = mu \ {t}
      BY <1>5 DEF Install
    <3> QED
      BY <3>1, <3>2 DEF TypeOK
  <2>2. /\ memory' = found[t] /\ losses' \in Nat
        /\ IsTable(found[t]) /\ found[t].asOf <= Len(history)
    BY <1>5 DEF Install, Iterated, TypeOK
  <2>3. IsTable(memory)' /\ memory'.asOf <= Len(history)
    BY <2>2 DEF IsTable
  <2>5. /\ found' = [u \in Loader |-> found'[u]]
        /\ \A u \in Loader : IsTable(found'[u])
                            /\ found'[u].asOf <= Len(history)
    <3>1. found' = [found EXCEPT ![t] = Nothing]
      BY <1>5 DEF Install
    <3>2. IsTable(Nothing) /\ Nothing.asOf <= Len(history)
      BY <1>0, NothingTyped
    <3> QED
      BY <1>3, <3>1, <3>2
  <2>6. confirmed' \in 0..Len(history)
    BY <1>0, <1>5 DEF Install, TypeOK
  <2>7. UNCHANGED <<history, readerVars, faults>>
    BY <1>5 DEF Install
  <2>8. written' \in [Client -> 0..Len(history)]
    BY <1>5, ForgottenKeeps DEF Install
  <2> QED
    BY <2>1, <2>2, <2>3, <2>5, <2>6, <2>7, <2>8 DEF TypeOK
<1>6. CASE Seed
  <2>1. /\ pc[Boot] = "seed" /\ pc' = [pc EXCEPT ![Boot] = "lock"]
        /\ history' = history \/ Grown(history')
        /\ faults' \in Nat
        /\ UNCHANGED <<memory, mu, found, written, readerVars, confirmed,
                       losses>>
    BY <1>6, Seeds
  <2>2. /\ pc' \in [Loader -> {"idle", "lock", "find", "read", "seed",
                               "ready", "failed"}]
        /\ mu' = {u \in Loader : pc'[u] \in {"find", "read"}}
        /\ \A u, v \in mu' : u = v
    BY <2>1, StaysOutside DEF Loader
  <2>3. Len(history') \in Nat /\ Len(history) <= Len(history')
    BY <2>1, <1>0 DEF Grown
  <2>4. written' \in [Client -> 0..Len(history')]
    BY <2>1, <2>3 DEF TypeOK
  <2> QED
    BY <2>1, <2>2, <2>4, GrowthKeeps DEF TypeOK
<1>7. CASE Tick
  <2>1. /\ pc' \in [Loader -> {"idle", "lock", "find", "read", "seed",
                               "ready", "failed"}]
        /\ mu' = {u \in Loader : pc'[u] \in {"find", "read"}}
        /\ \A u, v \in mu' : u = v
    BY <1>7, StaysOutside DEF Tick, Loader
  <2> QED
    BY <1>7, <2>1 DEF Tick, TypeOK
<1>8. ASSUME NEW r \in Reader, Arrive(r) PROVE TypeOK'
  BY <1>8, <1>0 DEF Arrive, TypeOK
<1>14. ASSUME NEW r \in Reader, Leave(r),
              UNCHANGED <<history, memory, mu, pc, found, written, confirmed,
                          faults, losses>>
       PROVE  TypeOK'
  <2>1. /\ rpc' \in [Reader -> {"idle", "detect", "map", "mapped"}]
        /\ chosen' \in [Reader -> Source]
        /\ rules' \in [Reader -> Nat]
        /\ since' \in [Reader -> 0..Len(history)]
    BY <1>14, LeaveKeeps
  <2> QED
    BY <1>14, <2>1 DEF TypeOK, IsTable
<1>9. ASSUME NEW r \in Reader, NEW hint \in Source, DetectSourceID(r, hint)
      PROVE  TypeOK'
  <2>1. CASE Leave(r)
    BY <1>9, <1>14, <2>1 DEF DetectSourceID
  <2>2. CASE ~ Leave(r)
    <3>1. PICK source \in Source : chosen' = [chosen EXCEPT ![r] = source]
      BY <1>9, <2>2, SourceAssumption DEF DetectSourceID
    <3>2. chosen' \in [Reader -> Source]
      BY <3>1 DEF TypeOK
    <3> QED
      BY <1>9, <2>2, <3>2 DEF DetectSourceID, TypeOK, IsTable
  <2> QED
    BY <2>1, <2>2
<1>10. ASSUME NEW r \in Reader, MapFields(r) PROVE TypeOK'
  <2>1. CASE Leave(r)
    BY <1>10, <1>14, <2>1 DEF MapFields
  <2>2. CASE ~ Leave(r)
    <3>1. /\ chosen[r] \in DOMAIN memory.mappings
          /\ rules' = [rules EXCEPT ![r] = memory.mappings[chosen[r]]]
      BY <1>10, <2>2 DEF MapFields
    <3>2. memory.mappings[chosen[r]] \in Nat
      BY <3>1 DEF TypeOK, IsTable
    <3> QED
      BY <1>10, <2>2, <3>1, <3>2 DEF MapFields, TypeOK, IsTable
  <2> QED
    BY <2>1, <2>2
<1>15. ASSUME NEW r \in Reader, Done(r) PROVE TypeOK'
  BY <1>14, <1>15 DEF Done
<1>11. CASE UNCHANGED vars
  BY <1>11 DEF vars, TypeOK, IsTable
<1> QED
  BY <1>1, <1>2, <1>4, <1>5, <1>6, <1>7, <1>8, <1>9, <1>10, <1>11, <1>12,
     <1>13, <1>15 DEF Next, Load

(* The mapper keeps its types, and the lock is held by exactly the one     *)
(* loader that is between taking and releasing it.                         *)
THEOREM MapperTypeCorrect == SafetySpec => []TypeOK
BY TypeInit, TypeStep, PTL DEF SafetySpec
-----------------------------------------------------------------------------
(* The table is never behind what clients were told.  A client is told     *)
(* when it installs, so the invariant follows it there: between reading    *)
(* and installing, the lock keeps memory from overtaking what a loader has *)
(* read, and a client reads after it wrote.                                *)
FreshInv ==
  /\ confirmed <= memory.asOf
  /\ \A t \in Loader : pc[t] = "read" => memory.asOf <= found[t].asOf
  /\ \A c \in Client : pc[c] = "read" => written[c] <= found[c].asOf

LEMMA Ages ==
  ASSUME TypeOK
  PROVE  /\ Len(history) \in Nat \ {0}
         /\ memory.asOf \in 0..Len(history) /\ confirmed \in 0..Len(history)
         /\ \A t \in Loader : found[t].asOf \in 0..Len(history)
         /\ \A c \in Client : written[c] \in 0..Len(history)
         /\ \A r \in Reader : since[r] \in 0..Len(history)
BY HistoryType DEF TypeOK, IsTable

(* Only one loader can install.                                            *)
LEMMA OneInstalls ==
  ASSUME TypeOK, NEW t \in Loader, pc[t] = "read",
         NEW u \in Loader, u # t
  PROVE  pc[u] # "read"
BY DEF TypeOK

LEMMA FreshInit == Init => FreshInv
BY NothingTyped DEF Init, FreshInv, Loader

LEMMA FreshStep == TypeOK /\ FreshInv /\ [Next]_vars => FreshInv'
<1> SUFFICES ASSUME TypeOK, FreshInv, [Next]_vars PROVE FreshInv'
  OBVIOUS
<1> USE DEF readerVars, Goto
<1>0. /\ pc \in [Loader -> {"idle", "lock", "find", "read", "seed", "ready",
                            "failed"}]
      /\ found = [t \in Loader |-> found[t]]
      /\ written \in [Client -> 0..Len(history)]
      /\ Client \subseteq Loader /\ Boot \in Loader /\ AutoReload \in Loader
  BY DEF TypeOK, Loader
<1>1. ASSUME NEW c \in Client, NEW s \in Source,
             CreateMapping(c, s) \/ UpdateMapping(c, s) \/ DeleteMapping(c, s)
      PROVE  FreshInv'
  <2>1. /\ pc[c] = "idle"
        /\ \/ /\ written' = [written EXCEPT ![c] = Len(history')]
              /\ pc' = [pc EXCEPT ![c] = "lock"]
           \/ UNCHANGED <<pc, written>>
        /\ UNCHANGED <<memory, found, confirmed>>
    BY <1>1, Writes
  <2> QED
    BY <1>0, <2>1 DEF FreshInv
<1>2. ASSUME NEW t \in Loader, Lock(t) PROVE FreshInv'
  BY <1>0, <1>2 DEF Lock, FreshInv
<1>3. ASSUME NEW t \in Loader, Find(t) PROVE FreshInv'
  <2>1. found'[t].asOf = Len(history)
    BY <1>0, <1>3 DEF Find, Unread
  <2>2. \A u \in Loader : u # t => found'[u] = found[u] /\ pc'[u] = pc[u]
    BY <1>0, <1>3 DEF Find
  <2>3. UNCHANGED <<memory, written, confirmed>>
    BY <1>3 DEF Find
  <2>4. /\ memory.asOf <= Len(history)
        /\ \A c \in Client : written[c] <= Len(history)
    BY Ages
  <2>5. \A u \in Loader : pc'[u] = "read" => memory'.asOf <= found'[u].asOf
    BY <2>1, <2>2, <2>3, <2>4 DEF FreshInv
  <2>6. \A c \in Client : pc'[c] = "read" => written'[c] <= found'[c].asOf
    BY <1>0, <2>1, <2>2, <2>3, <2>4 DEF FreshInv
  <2> QED
    BY <2>3, <2>5, <2>6 DEF FreshInv
<1>4. ASSUME NEW t \in Loader, FindFails(t) PROVE FreshInv'
  <2>1. UNCHANGED <<memory, found, confirmed>>
    BY <1>4 DEF FindFails
  <2>2. \A u \in Loader : pc'[u] = "read" => pc[u] = "read"
    BY <1>0, <1>4 DEF FindFails
  <2>3. \A c \in Client : written'[c] <= written[c] /\ written'[c] \in Nat
    BY <1>4, ForgottenKeeps DEF FindFails
  <2>4. ASSUME NEW c \in Client, pc'[c] = "read"
        PROVE  written'[c] <= found'[c].asOf
    <3>1. pc[c] = "read" /\ c \in Loader
      BY <1>0, <2>2, <2>4
    <3>2. written[c] <= found[c].asOf
      BY <3>1 DEF FreshInv
    <3>3. written[c] \in Nat /\ found[c].asOf \in Nat
      BY <3>1, Ages
    <3> QED
      BY <2>1, <2>3, <3>2, <3>3
  <2> QED
    BY <2>1, <2>2, <2>4 DEF FreshInv
<1>5. ASSUME NEW t \in Loader, Install(t) PROVE FreshInv'
  <2>1. memory'.asOf = found[t].asOf
    BY <1>5 DEF Install
  <2>2. \A u \in Loader : pc'[u] # "read"
    BY <1>0, <1>5, OneInstalls DEF Install
  <2>3. memory.asOf <= found[t].asOf
    BY <1>5 DEF Install, FreshInv
  <2>4. confirmed' <= found[t].asOf
    <3>1. CASE t \in Client
      BY <1>5, <2>3, <3>1, Ages DEF Install, FreshInv
    <3>2. CASE t \notin Client
      BY <1>5, <2>3, <3>2, Ages DEF Install, FreshInv
    <3> QED
      BY <3>1, <3>2
  <2> QED
    BY <1>0, <2>1, <2>2, <2>4 DEF FreshInv
<1>6. CASE Seed
  BY <1>0, <1>6, Seeds DEF FreshInv
<1>7. CASE Tick
  BY <1>0, <1>7 DEF Tick, FreshInv
<1>8. ASSUME NEW r \in Reader, Arrive(r) PROVE FreshInv'
  BY <1>8 DEF Arrive, FreshInv
<1>9. ASSUME NEW r \in Reader, NEW hint \in Source, DetectSourceID(r, hint)
      PROVE  FreshInv'
  BY <1>9 DEF DetectSourceID, FreshInv
<1>10. ASSUME NEW r \in Reader, MapFields(r) \/ Done(r) PROVE FreshInv'
  BY <1>10 DEF MapFields, Done, FreshInv
<1>11. CASE UNCHANGED vars
  BY <1>11 DEF vars, FreshInv
<1>12. ASSUME NEW t \in Loader, NEW s \in Source, Read(t, s) PROVE FreshInv'
  <2>1. \A u \in Loader : found'[u].asOf = found[u].asOf
    BY <1>0, <1>12 DEF Read, Passed
  <2> QED
    BY <1>0, <1>12, <2>1 DEF Read, FreshInv
<1> QED
  BY <1>1, <1>2, <1>3, <1>4, <1>5, <1>6, <1>7, <1>8, <1>9, <1>10, <1>11, <1>12
     DEF Next, Load

-----------------------------------------------------------------------------
(* What a table says of each source was so at some moment since its query  *)
(* began; it says nothing of those that the cursor has not passed.         *)
ShowsOf(states, table, s) ==
  IF s \in table.missing THEN s \notin DOMAIN table.mappings
  ELSE \E n \in 1..Len(states) :
         n >= table.asOf /\ Agrees(table.mappings, s, states[n])

Shows(states, table) == \A s \in Source : ShowsOf(states, table, s)

TableInv ==
  Shows(history, memory) /\ \A t \in Loader : Shows(history, found[t])

LEMMA UnreadShows == ASSUME NEW states, NEW n PROVE Shows(states, Unread(n))
BY DEF Shows, ShowsOf, Unread, None

(* Passing a document shows the present rules of its source.               *)
LEMMA PassedShows ==
  ASSUME TypeOK, NEW table, IsTable(table), table.asOf <= Len(history),
         Shows(history, table), NEW s \in table.missing
  PROVE  Shows(history, Passed(table, s))
<1> DEFINE known == DOMAIN table.mappings \cup ({s} \cap Active(coll))
           m == [u \in known |-> IF u = s THEN coll[s].change
                                         ELSE table.mappings[u]]
<1>0. Len(history) \in Nat \ {0} /\ s \in Source /\ table.asOf \in Nat
  BY HistoryType DEF IsTable
<1>1. Passed(table, s) = [mappings |-> m, asOf |-> table.asOf,
                          missing |-> table.missing \ {s}]
  BY DEF Passed
<1>2. \A u \in Source : ShowsOf(history, table, u)
  BY DEF Shows
<1>3. ShowsOf(history, Passed(table, s), s)
  <2>1. s \notin DOMAIN table.mappings
    BY <1>0, <1>2 DEF ShowsOf
  <2>2. Agrees(m, s, history[Len(history)])
    BY <2>1 DEF Agrees, coll
  <2> QED
    BY <1>0, <1>1, <2>2 DEF ShowsOf
<1>4. ASSUME NEW u \in Source, u # s
      PROVE  ShowsOf(history, Passed(table, s), u)
  <2>1. \A docs : Agrees(table.mappings, u, docs) => Agrees(m, u, docs)
    BY <1>4 DEF Agrees
  <2>2. u \in DOMAIN m <=> u \in DOMAIN table.mappings
    BY <1>4
  <2>3. ShowsOf(history, table, u)
    BY <1>2
  <2> HIDE DEF m
  <2> QED
    BY <1>1, <1>4, <2>1, <2>2, <2>3 DEF ShowsOf
<1> QED
  BY <1>3, <1>4 DEF Shows

(* What was so in a state was so when the history has grown.               *)
LEMMA GrowthShows ==
  ASSUME TypeOK, history' = history \/ Grown(history'),
         NEW table, Shows(history, table)
  PROVE  Shows(history', table)
<1>1. \A n \in 1..Len(history) : /\ n \in 1..Len(history')
                                 /\ history'[n] = history[n]
  <2>1. Len(history) \in Nat
    BY HistoryType
  <2> QED
    BY <2>1 DEF Grown
<1> QED
  BY <1>1 DEF Shows, ShowsOf

LEMMA TableInit == Init => TableInv
BY UnreadShows DEF Init, TableInv, Nothing

LEMMA TableStep == TypeOK /\ TableInv /\ [Next]_vars => TableInv'
<1> SUFFICES ASSUME TypeOK, TableInv, [Next]_vars PROVE TableInv'
  OBVIOUS
<1>0. /\ Shows(history, memory) /\ \A t \in Loader : Shows(history, found[t])
      /\ found = [t \in Loader |-> found[t]]
  BY DEF TableInv, TypeOK
<1>k. ASSUME history' = history \/ Grown(history'), UNCHANGED <<memory, found>>
      PROVE  TableInv'
  BY <1>0, <1>k, GrowthShows DEF TableInv
<1>1. ASSUME NEW c \in Client, NEW s \in Source,
             CreateMapping(c, s) \/ UpdateMapping(c, s) \/ DeleteMapping(c, s)
      PROVE  TableInv'
  BY <1>1, <1>k, Writes
<1>2. CASE Seed
  BY <1>2, <1>k, Seeds
<1>3. ASSUME NEW t \in Loader, NEW table, Shows(history, table),
             found' = [found EXCEPT ![t] = table],
             UNCHANGED history, Shows(history, memory')
      PROVE  TableInv'
  BY <1>0, <1>3 DEF TableInv
<1>4. ASSUME NEW t \in Loader, Find(t) PROVE TableInv'
  <2>1. found' = [found EXCEPT ![t] = Unread(Len(history))]
    BY <1>4 DEF Find
  <2>2. UNCHANGED history /\ Shows(history, memory')
    BY <1>0, <1>4 DEF Find
  <2> QED
    BY <1>3, <2>1, <2>2, UnreadShows
<1>5. ASSUME NEW t \in Loader, NEW s \in Source, Read(t, s) PROVE TableInv'
  <2>1. found' = [found EXCEPT ![t] = Passed(found[t], s)]
    BY <1>0, <1>5 DEF Read
  <2>2. UNCHANGED history /\ Shows(history, memory')
    BY <1>0, <1>5 DEF Read
  <2>3. s \in found[t].missing /\ IsTable(found[t])
        /\ found[t].asOf <= Len(history)
    BY <1>5 DEF Read, TypeOK
  <2>4. Shows(history, Passed(found[t], s))
    BY <1>0, <2>3, PassedShows
  <2> QED
    BY <1>3, <2>1, <2>2, <2>4
<1>6. ASSUME NEW t \in Loader, Install(t) PROVE TableInv'
  <2>1. found' = [found EXCEPT ![t] = Nothing] /\ memory' = found[t]
        /\ UNCHANGED history
    BY <1>6 DEF Install
  <2>2. Shows(history, Nothing)
    BY UnreadShows DEF Nothing
  <2>3. Shows(history, memory')
    BY <1>0, <2>1
  <2> QED
    BY <1>3, <2>1, <2>2, <2>3
<1>7. CASE UNCHANGED <<history, memory, found>>
  BY <1>7, <1>k
<1>8. ASSUME NEW t \in Loader, Lock(t) \/ FindFails(t) PROVE TableInv'
  BY <1>7, <1>8 DEF Lock, FindFails
<1>9. ASSUME NEW r \in Reader, Arrive(r) \/ MapFields(r) \/ Done(r) PROVE TableInv'
  BY <1>7, <1>9 DEF Arrive, MapFields, Done
<1>10. ASSUME NEW r \in Reader, NEW hint \in Source, DetectSourceID(r, hint)
       PROVE  TableInv'
  BY <1>7, <1>10 DEF DetectSourceID
<1> QED
  BY <1>1, <1>2, <1>4, <1>5, <1>6, <1>7, <1>8, <1>9, <1>10
     DEF Next, Load, Tick, vars

(* README, "new rules are immediately reloaded": every change that a       *)
(* client was told of is in the table that payloads are mapped with, or a  *)
(* later change of the same mapping is, unless the last load left the      *)
(* mapping out.                                                            *)
THEOREM ChangesAreServed == SafetySpec => []AnswersAreServed
<1>1. TypeOK /\ FreshInv /\ TableInv => AnswersAreServed
  <2> SUFFICES ASSUME TypeOK, FreshInv, TableInv, NEW s \in Source,
                      s \notin memory.missing
               PROVE  UpToDate(s)
    BY DEF AnswersAreServed
  <2>1. PICK n \in 1..Len(history) :
          n >= memory.asOf /\ Agrees(memory.mappings, s, history[n])
    BY DEF TableInv, Shows, ShowsOf
  <2>2. n >= confirmed
    BY <2>1, Ages DEF FreshInv
  <2> QED
    BY <2>1, <2>2 DEF UpToDate
<1> QED
  BY TypeInit, TypeStep, FreshInit, FreshStep, TableInit, TableStep, <1>1, PTL
     DEF SafetySpec
-----------------------------------------------------------------------------
(* While NewUltraMapper has not returned, nobody else loads.  Hence a      *)
(* service that failed to start shows nothing new.                         *)
BootInv == ~Ready => \A t \in Loader \ {Boot} : pc[t] = "idle"

LEMMA BootInit == Init => BootInv
BY DEF Init, BootInv, Loader

LEMMA BootStep == TypeOK /\ BootInv /\ [Next]_vars => BootInv'
<1> SUFFICES ASSUME TypeOK, BootInv, [Next]_vars PROVE BootInv'
  OBVIOUS
<1> USE DEF Goto, BootInv, Ready
<1>0. /\ pc \in [Loader -> {"idle", "lock", "find", "read", "seed", "ready",
                            "failed"}]
      /\ Boot \in Loader /\ AutoReload \in Loader \ {Boot}
      /\ Client \subseteq Loader \ {Boot}
  BY LoaderAssumption DEF TypeOK, Loader
<1>1. ASSUME NEW c \in Client, NEW s \in Source,
             CreateMapping(c, s) \/ UpdateMapping(c, s) \/ DeleteMapping(c, s)
      PROVE  BootInv'
  <2>1. Ready /\ (pc' = [pc EXCEPT ![c] = "lock"] \/ UNCHANGED pc)
    BY <1>1, Writes
  <2> QED
    BY <1>0, <2>1
<1>2. ASSUME NEW t \in Loader, Load(t) PROVE BootInv'
  <2>1. pc[t] \in {"lock", "find", "read"}
    BY <1>2 DEF Load, Lock, Find, FindFails, Install, Read
  <2>2. UNCHANGED pc \/ \E label : pc' = [pc EXCEPT ![t] = label]
    BY <1>2 DEF Load, Lock, Find, FindFails, Install, Read
  <2> QED
    BY <1>0, <2>1, <2>2
<1>3. CASE Seed
  BY <1>0, <1>3, Seeds
<1>4. CASE Tick
  BY <1>0, <1>4 DEF Tick
<1>5. CASE UNCHANGED pc
  BY <1>5
<1>6. ASSUME NEW r \in Reader, NEW hint \in Source,
             Arrive(r) \/ MapFields(r) \/ DetectSourceID(r, hint)
      PROVE  BootInv'
  BY <1>5, <1>6 DEF Arrive, MapFields, DetectSourceID
<1>7. ASSUME NEW r \in Reader, Arrive(r) \/ MapFields(r) \/ Done(r) PROVE BootInv'
  BY <1>5, <1>7 DEF Arrive, MapFields, Done
<1> QED
  BY <1>1, <1>2, <1>3, <1>4, <1>5, <1>6, <1>7 DEF Next, vars
-----------------------------------------------------------------------------
(* A query begins when the collection has a state.                         *)
AgeInv == \A t \in Loader : pc[t] = "read" => found[t].asOf > 0

LEMMA AgeInit == Init => AgeInv
BY DEF Init, AgeInv

LEMMA AgeStep == TypeOK /\ AgeInv /\ [Next]_vars => AgeInv'
<1> SUFFICES ASSUME TypeOK, AgeInv, [Next]_vars PROVE AgeInv'
  OBVIOUS
<1> USE DEF Goto, AgeInv
<1>0. /\ pc \in [Loader -> {"idle", "lock", "find", "read", "seed", "ready",
                            "failed"}]
      /\ found = [t \in Loader |-> found[t]]
      /\ Len(history) \in Nat \ {0}
      /\ Client \subseteq Loader /\ Boot \in Loader /\ AutoReload \in Loader
  BY HistoryType DEF TypeOK, Loader
<1>1. ASSUME NEW c \in Client, NEW s \in Source,
             CreateMapping(c, s) \/ UpdateMapping(c, s) \/ DeleteMapping(c, s)
      PROVE  AgeInv'
  <2>1. /\ pc' = [pc EXCEPT ![c] = "lock"] \/ UNCHANGED pc
        /\ UNCHANGED found
    BY <1>1, Writes
  <2> QED
    BY <1>0, <2>1
<1>2. CASE Seed
  BY <1>0, <1>2, Seeds
<1>3. ASSUME NEW t \in Loader, Find(t) PROVE AgeInv'
  BY <1>0, <1>3 DEF Find, Unread
<1>4. ASSUME NEW t \in Loader, NEW s \in Source, Read(t, s) PROVE AgeInv'
  <2>1. \A u \in Loader : found'[u].asOf = found[u].asOf
    BY <1>0, <1>4 DEF Read, Passed
  <2> QED
    BY <1>4, <2>1 DEF Read
<1>5. ASSUME NEW t \in Loader, Install(t) PROVE AgeInv'
  <2>1. /\ pc'[t] # "read"
        /\ \A u \in Loader \ {t} : pc'[u] = pc[u] /\ found'[u] = found[u]
    BY <1>0, <1>5 DEF Install
  <2> QED
    BY <2>1
<1>6. ASSUME NEW t \in Loader, Lock(t) \/ FindFails(t) PROVE AgeInv'
  BY <1>0, <1>6 DEF Lock, FindFails
<1>7. CASE Tick
  BY <1>0, <1>7 DEF Tick
<1>8. CASE UNCHANGED <<pc, found>>
  BY <1>8
<1>9. ASSUME NEW r \in Reader, Arrive(r) \/ MapFields(r) \/ Done(r) PROVE AgeInv'
  BY <1>8, <1>9 DEF Arrive, MapFields, Done
<1>10. ASSUME NEW r \in Reader, NEW hint \in Source, DetectSourceID(r, hint)
       PROVE  AgeInv'
  BY <1>8, <1>10 DEF DetectSourceID
<1> QED
  BY <1>1, <1>2, <1>3, <1>4, <1>5, <1>6, <1>7, <1>8, <1>9, <1>10
     DEF Next, Load, vars
-----------------------------------------------------------------------------
(* The collection as the abstract specification sees it.                   *)
LEMMA ViewsSeq ==
  ASSUME NEW states \in Seq(Docs)
  PROVE  /\ Len(Views(states)) = Len(states)
         /\ \A n \in 1..Len(states) : Views(states)[n] = Compiled(states[n])
<1> DEFINE tables == {Compiled(states[n]) : n \in 1..Len(states)}
<1>1. Len(states) \in Nat
  OBVIOUS
<1>2. Views(states) \in [1..Len(states) -> tables]
  BY DEF Views
<1>3. Views(states) \in Seq(tables)
  BY <1>1, <1>2, SeqDef
<1> QED
  BY <1>1, <1>2, <1>3, LenProperties DEF Views

(* A grown history is a Change of the abstract specification.              *)
LEMMA GrowthIsChange ==
  ASSUME TypeOK, history' = history \/ Grown(history'), UNCHANGED memory,
         (pc[Boot] = "failed") = (pc'[Boot] = "failed")
  PROVE  [Cache!Next]_(Cache!cacheVars)
<1> USE DEF Cache!Next, Cache!cacheVars, Cache!tableVars
<1>1. CASE history' = history
  BY <1>1 DEF Views
<1>2. CASE Grown(history')
  <2>1. /\ history \in Seq(Docs) /\ Len(history) \in Nat
        /\ history' \in Seq(Docs) /\ Len(history') = Len(history) + 1
    BY <1>2, HistoryType DEF Grown
  <2>2. /\ Len(Views(history)) = Len(history)
        /\ \A n \in 1..Len(history) :
             Views(history)[n] = Compiled(history[n])
    BY <2>1, ViewsSeq
  <2>3. /\ Len(Views(history')) = Len(history')
        /\ \A n \in 1..Len(history') :
             Views(history')[n] = Compiled(history'[n])
    BY <2>1, ViewsSeq
  <2>4. \A n \in 1..Len(history) : Views(history')[n] = Views(history)[n]
    BY <1>2, <2>1, <2>2, <2>3 DEF Grown
  <2>5. Cache!IsValue(Views(history')[Len(history')])
    <3>1. Views(history')[Len(history')] = Compiled(history'[Len(history')])
      BY <2>1, <2>3
    <3>2. \A docs : DOMAIN Compiled(docs) \subseteq Source
      BY DEF Compiled, Active
    <3> QED
      BY <3>1, <3>2 DEF Cache!IsValue
  <2>6. Views(history)' = Views(history')
    BY DEF Views
  <2> QED
    BY <2>1, <2>2, <2>3, <2>4, <2>5, <2>6 DEF Cache!Change
<1> QED
  BY <1>1, <1>2

LEMMA RefinesInit == Init => Cache!Init
<1> SUFFICES ASSUME Init PROVE Cache!Init
  OBVIOUS
<1>1. TypeOK
  BY TypeInit
<1>2. Len(history) = 1
  BY DEF Init
<1>3. Len(Views(history)) = 1 /\ Views(history)[1] = Compiled(history[1])
  BY <1>1, <1>2, HistoryType, ViewsSeq
<1>4. Cache!IsValue(Views(history)[1])
  BY <1>3 DEF Cache!IsValue, Compiled, Active
<1>5. /\ DOMAIN memory.mappings = {} /\ memory.asOf = 0
      /\ memory.missing = Source
  BY DEF Init, Nothing, Unread, None
<1>6. pc[Boot] # "failed"
  BY DEF Init, Loader
<1> QED
  BY <1>3, <1>4, <1>5, <1>6 DEF Cache!Init

(* An installed table is what a Refresh may show.                          *)
LEMMA InstallRefreshes ==
  ASSUME TypeOK, FreshInv, TableInv, NEW t \in Loader, Install(t),
         found[t].asOf > 0, pc[Boot] # "failed", pc'[Boot] # "failed"
  PROVE  Cache!Refresh
<1>1. /\ memory' = found[t] /\ UNCHANGED history
      /\ memory.asOf <= found[t].asOf
  BY DEF Install, FreshInv
<1>2. IsTable(found[t]) /\ Shows(history, found[t])
  BY DEF TypeOK, TableInv
<1>3. /\ Len(Views(history)) = Len(history)
      /\ \A n \in 1..Len(history) : Views(history)[n] = Compiled(history[n])
  BY HistoryType, ViewsSeq
<1>4. found[t].asOf \in 1..Len(history)
  BY Ages
<1>5. /\ Cache!IsValue(found[t].mappings)
      /\ found[t].missing \subseteq Source \ DOMAIN found[t].mappings
  BY <1>2 DEF Cache!IsValue, IsTable, Shows, ShowsOf
<1>6. ASSUME NEW s \in Source \ found[t].missing
      PROVE  \E n \in found[t].asOf..Len(Views(history)) :
               Cache!Agree(found[t].mappings, Views(history)[n], s)
  <2>1. PICK n \in 1..Len(history) :
          n >= found[t].asOf /\ Agrees(found[t].mappings, s, history[n])
    BY <1>2, <1>6 DEF Shows, ShowsOf
  <2>2. Cache!Agree(found[t].mappings, Compiled(history[n]), s)
    BY <2>1 DEF Agrees, Cache!Agree, Compiled
  <2> QED
    BY <1>3, <1>4, <2>1, <2>2, Ages
<1>7. Views(history)' = Views(history)
  BY <1>1 DEF Views
<1> QED
  BY <1>1, <1>3, <1>4, <1>5, <1>6, <1>7 DEF Cache!Refresh

LEMMA RefinesStep ==
  TypeOK /\ FreshInv /\ TableInv /\ BootInv /\ AgeInv /\ [Next]_vars
    => [Cache!Next]_(Cache!cacheVars)
<1> SUFFICES ASSUME TypeOK, FreshInv, TableInv, BootInv, AgeInv, [Next]_vars
             PROVE  [Cache!Next]_(Cache!cacheVars)
  OBVIOUS
<1> USE DEF readerVars, Goto
<1>u. ASSUME UNCHANGED <<history, memory>>,
             (pc[Boot] = "failed") = (pc'[Boot] = "failed")
      PROVE  [Cache!Next]_(Cache!cacheVars)
  BY <1>u DEF Cache!cacheVars, Cache!tableVars, Views
<1>0. /\ pc \in [Loader -> {"idle", "lock", "find", "read", "seed", "ready",
                            "failed"}]
      /\ Boot \in Loader /\ AutoReload \in Loader \ {Boot}
      /\ Client \subseteq Loader \ {Boot}
  BY LoaderAssumption DEF TypeOK, Loader
<1>1. ASSUME NEW c \in Client, NEW s \in Source,
             CreateMapping(c, s) \/ UpdateMapping(c, s) \/ DeleteMapping(c, s)
      PROVE  [Cache!Next]_(Cache!cacheVars)
  <2>1. /\ history' = history \/ Grown(history')
        /\ pc' = [pc EXCEPT ![c] = "lock"] \/ UNCHANGED pc
        /\ UNCHANGED memory
    BY <1>1, Writes
  <2>2. pc'[Boot] = pc[Boot]
    BY <1>0, <2>1
  <2> QED
    BY <2>1, <2>2, GrowthIsChange
<1>2. CASE Seed
  <2>1. /\ pc[Boot] = "seed" /\ pc' = [pc EXCEPT ![Boot] = "lock"]
        /\ history' = history \/ Grown(history')
        /\ UNCHANGED memory
    BY <1>2, Seeds
  <2>2. pc[Boot] # "failed" /\ pc'[Boot] # "failed"
    BY <1>0, <2>1
  <2> QED
    BY <2>1, <2>2, GrowthIsChange
<1>3. ASSUME NEW t \in Loader, Install(t)
      PROVE  [Cache!Next]_(Cache!cacheVars)
  <2>1. found[t].asOf > 0
    BY <1>3 DEF Install, AgeInv
  <2>2. pc[Boot] # "failed"
    BY <1>0, <1>3 DEF Install, BootInv, Ready
  <2>3. pc'[Boot] # "failed"
    BY <1>0, <1>3, <2>2 DEF Install
  <2> QED
    BY <1>3, <2>1, <2>2, <2>3, InstallRefreshes DEF Cache!Next
<1>4. ASSUME NEW t \in Loader, FindFails(t)
      PROVE  [Cache!Next]_(Cache!cacheVars)
  <2>1. UNCHANGED <<history, memory>>
    BY <1>4 DEF FindFails
  <2>2. CASE t = Boot
    BY <1>0, <1>4, <2>1, <2>2
       DEF FindFails, Cache!Next, Cache!Stop, Cache!tableVars, Views
  <2>3. CASE t # Boot
    BY <1>0, <1>4, <1>u, <2>1, <2>3 DEF FindFails
  <2> QED
    BY <2>2, <2>3
<1>5. ASSUME NEW t \in Loader, NEW s \in Source,
             Lock(t) \/ Find(t) \/ Read(t, s)
      PROVE  [Cache!Next]_(Cache!cacheVars)
  <2>1. /\ UNCHANGED <<history, memory>>
        /\ pc[t] \in {"lock", "find", "read"}
        /\ \/ \E label \in {"find", "read"} : pc' = [pc EXCEPT ![t] = label]
           \/ UNCHANGED pc
    BY <1>5 DEF Lock, Find, Read
  <2> QED
    BY <1>0, <1>u, <2>1
<1>6. CASE Tick
  BY <1>0, <1>6, <1>u DEF Tick
<1>7. ASSUME NEW r \in Reader, Arrive(r) \/ MapFields(r) \/ Done(r)
      PROVE  [Cache!Next]_(Cache!cacheVars)
  BY <1>7, <1>u DEF Arrive, MapFields, Done
<1>8. ASSUME NEW r \in Reader, NEW hint \in Source, DetectSourceID(r, hint)
      PROVE  [Cache!Next]_(Cache!cacheVars)
  BY <1>8, <1>u DEF DetectSourceID
<1>9. CASE UNCHANGED vars
  BY <1>9, <1>u DEF vars
<1> QED
  BY <1>1, <1>2, <1>3, <1>4, <1>5, <1>6, <1>7, <1>8, <1>9, SourceAssumption
     DEF Next, Load

(* The mapper implements the safety part of VersionedCache: whatever loads *)
(* interleave or fail, a load shows what the collection said during it, or *)
(* leaves it out, and none falls behind an earlier one.                    *)
THEOREM RefinesCache == SafetySpec => Cache!SafetySpec
BY TypeInit, TypeStep, FreshInit, FreshStep, TableInit, TableStep, BootInit,
   BootStep, AgeInit, AgeStep, RefinesInit, RefinesStep, PTL
   DEF SafetySpec, Cache!SafetySpec
-----------------------------------------------------------------------------
InForce(states, r) ==
  rpc[r] = "mapped" =>
    \E n \in 1..Len(states) :
      /\ n >= since[r]
      /\ chosen[r] \in Active(states[n])
      /\ rules[r] = states[n][chosen[r]].change

(* A reader takes its rules from a table that is at least as new as its    *)
(* payload; that it chose the source under an earlier lock does not        *)
(* matter, because MapFields looks the source up again.                    *)
RulesInv == \A r \in Reader : since[r] <= confirmed /\ InForce(history, r)

LEMMA RulesInit == Init => RulesInv
BY DEF Init, RulesInv, InForce

LEMMA RulesStep ==
  TypeOK /\ FreshInv /\ TableInv /\ RulesInv /\ [Next]_vars => RulesInv'
<1> SUFFICES ASSUME TypeOK, FreshInv, TableInv, RulesInv, [Next]_vars
             PROVE  RulesInv'
  OBVIOUS
<1> USE DEF Goto
<1>0. \A r \in Reader : /\ since[r] <= confirmed /\ InForce(history, r)
                        /\ since[r] \in Nat
  BY Ages DEF RulesInv
<1>k. ASSUME UNCHANGED <<readerVars, history>>, confirmed <= confirmed',
             confirmed' \in Nat
      PROVE  RulesInv'
  BY <1>0, <1>k, Ages DEF RulesInv, InForce, readerVars
<1>g. ASSUME UNCHANGED <<readerVars, confirmed>>,
             history' = history \/ Grown(history')
      PROVE  RulesInv'
  <2>1. \A n \in 1..Len(history) : /\ n \in 1..Len(history')
                                   /\ history'[n] = history[n]
    BY <1>g, Ages DEF Grown
  <2> QED
    BY <1>0, <1>g, <2>1 DEF RulesInv, InForce, readerVars
<1>1. ASSUME NEW c \in Client, NEW s \in Source,
             CreateMapping(c, s) \/ UpdateMapping(c, s) \/ DeleteMapping(c, s)
      PROVE  RulesInv'
  BY <1>1, <1>g, Writes
<1>2. CASE Seed
  BY <1>2, <1>g, Seeds
<1>3. ASSUME NEW t \in Loader, Load(t) PROVE RulesInv'
  <2>1. UNCHANGED <<readerVars, history>>
    BY <1>3 DEF Load, Lock, Find, FindFails, Install, Read
  <2>2. confirmed' \in Nat /\ confirmed <= confirmed'
    <3>1. CASE UNCHANGED confirmed
      BY <3>1, Ages
    <3>2. CASE Install(t)
      BY <3>2, Ages DEF Install
    <3> QED
      BY <1>3, <3>1, <3>2 DEF Load, Lock, Find, FindFails, Read
  <2> QED
    BY <1>k, <2>1, <2>2
<1>4. CASE Tick \/ UNCHANGED vars
  BY <1>4, <1>g DEF Tick, vars
<1>5. ASSUME NEW r \in Reader, Arrive(r) PROVE RulesInv'
  <2>1. /\ UNCHANGED <<history, confirmed, chosen, rules>>
        /\ rpc' = [rpc EXCEPT ![r] = "detect"]
        /\ since' = [since EXCEPT ![r] = confirmed]
    BY <1>5 DEF Arrive
  <2>2. \A p \in Reader : since'[p] <= confirmed'
    BY <1>0, <2>1, Ages DEF TypeOK
  <2>3. \A p \in Reader : InForce(history, p)'
    BY <1>0, <2>1 DEF InForce, TypeOK
  <2> QED
    BY <2>2, <2>3 DEF RulesInv
<1>l. ASSUME NEW r \in Reader, Leave(r), UNCHANGED <<history, confirmed>>
      PROVE  RulesInv'
  <2>1. /\ rpc'[r] # "mapped" /\ since'[r] = 0
        /\ \A p \in Reader \ {r} :
             /\ rpc'[p] = rpc[p] /\ chosen'[p] = chosen[p]
             /\ rules'[p] = rules[p] /\ since'[p] = since[p]
    BY <1>l, LeaveKeeps
  <2>2. confirmed' \in Nat
    BY <1>l, Ages
  <2>3. since'[r] <= confirmed'
    BY <2>1, <2>2
  <2>4. \A p \in Reader : InForce(history, p)'
    BY <1>0, <1>l, <2>1 DEF InForce
  <2> QED
    BY <1>0, <1>l, <2>1, <2>3, <2>4 DEF RulesInv
<1>6. ASSUME NEW r \in Reader, NEW hint \in Source, DetectSourceID(r, hint),
             ~ Leave(r)
      PROVE  RulesInv'
  <2>1. /\ UNCHANGED <<history, confirmed, since, rules>>
        /\ rpc' = [rpc EXCEPT ![r] = "map"]
        /\ \A p \in Reader : p # r => chosen'[p] = chosen[p]
    BY <1>6 DEF DetectSourceID, TypeOK
  <2>2. rpc \in [Reader -> {"idle", "detect", "map", "mapped"}]
    BY DEF TypeOK
  <2>3. rpc'[r] # "mapped" /\ \A p \in Reader : p # r => rpc'[p] = rpc[p]
    BY <2>1, <2>2
  <2> QED
    BY <1>0, <2>1, <2>3 DEF RulesInv, InForce
<1>7. ASSUME NEW r \in Reader, MapFields(r), ~ Leave(r) PROVE RulesInv'
  <2>1. /\ UNCHANGED <<history, confirmed, since, chosen>>
        /\ \A p \in Reader : p # r => rpc'[p] = rpc[p] /\ rules'[p] = rules[p]
    BY <1>7 DEF MapFields, TypeOK
  <2>2. InForce(history, r)'
    <3>1. chosen[r] \in DOMAIN memory.mappings /\ chosen[r] \in Source
      BY <1>7 DEF MapFields, TypeOK
    <3>2. PICK n \in 1..Len(history) :
            /\ n >= memory.asOf
            /\ Agrees(memory.mappings, chosen[r], history[n])
      BY <3>1 DEF TableInv, Shows, ShowsOf
    <3>3. since[r] <= n
      BY <1>0, <3>2, Ages DEF FreshInv
    <3>4. rules'[r] = memory.mappings[chosen[r]]
      BY <1>7, <3>1 DEF MapFields, TypeOK
    <3> QED
      BY <2>1, <3>1, <3>2, <3>3, <3>4 DEF InForce, Agrees
  <2>3. \A p \in Reader \ {r} : InForce(history, p)'
    BY <1>0, <2>1 DEF InForce
  <2> QED
    BY <1>0, <2>1, <2>2, <2>3 DEF RulesInv
<1>8. ASSUME NEW r \in Reader, Leave(r),
             \/ MapFields(r) \/ Done(r)
             \/ \E hint \in Source : DetectSourceID(r, hint)
      PROVE  RulesInv'
  BY <1>8, <1>l DEF MapFields, Done, DetectSourceID
<1>9. ASSUME NEW r \in Reader, Done(r) PROVE Leave(r)
  BY <1>9 DEF Done
<1> QED
  BY <1>1, <1>2, <1>3, <1>4, <1>5, <1>6, <1>7, <1>8, <1>9 DEF Next

(* A payload is mapped with rules that were in force after every change    *)
(* that clients had been told of when it arrived.                          *)
THEOREM RulesStayCurrent == SafetySpec => []RulesAreCurrent
<1>1. RulesInv => RulesAreCurrent
  BY DEF RulesInv, InForce, RulesAreCurrent
<1> QED
  BY TypeInit, TypeStep, FreshInit, FreshStep, TableInit, TableStep, RulesInit,
     RulesStep, <1>1, PTL DEF SafetySpec
=============================================================================
