------------------------- MODULE BatchWriterProofs -------------------------
(***************************************************************************)
(* Theorems about BatchWriter, for every set of records and handlers and   *)
(* every batch size.                                                       *)
(***************************************************************************)
EXTENDS BatchWriter, FiniteSetTheorems, TLAPS

(* Cardinality(buffer) is a number because the buffer is finite: the types *)
(* are inductive together with that.                                       *)
Typed == TypeOK /\ IsFiniteSet(buffer)
-----------------------------------------------------------------------------
LEMMA TypedInit == Init => Typed
<1> SUFFICES ASSUME Init PROVE Typed
  OBVIOUS
<1>1. pc \in [Thread -> Label]
  BY DEF Init, Label
<1>2. IsFiniteSet(buffer)
  BY FS_EmptySet DEF Init
<1> QED
  BY <1>1, <1>2 DEF Init, Typed, TypeOK

LEMMA LoseTyped ==
  ASSUME Typed, LoseMemory, pc' \in [Thread -> Label], UNCHANGED ret
  PROVE  Typed'
<1>1. InFlight \subseteq Record
  BY DEF Typed, TypeOK, InFlight
<1>2. stored' \subseteq Record /\ lost' \subseteq Record
  BY <1>1 DEF Typed, TypeOK, LoseMemory, InMemory
<1>3. IsFiniteSet(buffer')
  BY FS_EmptySet DEF LoseMemory
<1> QED
  BY <1>2, <1>3 DEF Typed, TypeOK, LoseMemory, statsPart

LEMMA DieTyped == Typed /\ Die => Typed'
BY LoseTyped DEF Die, Typed, TypeOK

LEMMA TypedStep == Typed /\ [Next]_vars => Typed'
<1> SUFFICES ASSUME Typed, [Next]_vars PROVE Typed'
  OBVIOUS
<1> USE DEF At, Goto, CallFlush, Return, sinkPart, statsPart
<1>1. ASSUME NEW t \in Adder, NEW r \in Record, Add(t, r) PROVE Typed'
  <2>1. IsFiniteSet(buffer')
    BY <1>1, FS_AddElement DEF Add, Typed
  <2>2. pc' \in [Thread -> Label] /\ ret' \in [Thread -> Label]
    BY <1>1 DEF Add, Typed, TypeOK, Label
  <2> QED
    BY <1>1, <2>1, <2>2 DEF Add, Typed, TypeOK
<1>2. ASSUME NEW t \in Thread, FlushTake(t) PROVE Typed'
  <2>1. CASE buffer = {}
    BY <1>2, <2>1 DEF FlushTake, Typed, TypeOK
  <2>2. CASE buffer # {}
    <3>1. Cardinality(buffer) \in Nat /\ IsFiniteSet(buffer')
      BY <1>2, <2>2, FS_CardinalityType, FS_EmptySet DEF FlushTake, Typed
    <3>2. pc' \in [Thread -> Label]
      BY <1>2, <2>2 DEF FlushTake, Typed, TypeOK, Label
    <3> QED
      BY <1>2, <2>2, <3>1, <3>2 DEF FlushTake, Typed, TypeOK
  <2> QED
    BY <2>1, <2>2
<1>3. ASSUME NEW t \in Thread, InsertOK(t) PROVE Typed'
  <2>1. pc' \in [Thread -> Label]
    BY <1>3 DEF InsertOK, Typed, TypeOK, Label
  <2> QED
    BY <1>3, <2>1 DEF InsertOK, Typed, TypeOK
<1>4. ASSUME NEW t \in Thread, InsertFails(t) PROVE Typed'
  BY <1>4 DEF InsertFails, KeepOnly, Typed, TypeOK
<1>5. ASSUME NEW t \in Thread, InsertPanics(t) PROVE Typed'
  <2>1. CASE t \in Handler
    <3>1. pc' \in [Thread -> Label]
      BY <1>5, <2>1 DEF InsertPanics, KeepOnly, Typed, TypeOK, Label
    <3> QED
      BY <1>5, <2>1, <3>1 DEF InsertPanics, KeepOnly, Typed, TypeOK
  <2>2. CASE t \notin Handler
    BY <1>5, <2>2, DieTyped DEF InsertPanics, KeepOnly
  <2> QED
    BY <2>1, <2>2
<1>6. ASSUME NEW t \in Thread, CountBatch(t) PROVE Typed'
  <2>1. pc' \in [Thread -> Label]
    BY <1>6 DEF CountBatch, Typed, TypeOK, Label
  <2> QED
    BY <1>6, <2>1 DEF CountBatch, Typed, TypeOK
<1>7. ASSUME NEW t \in Thread, CountRecords(t) PROVE Typed'
  BY <1>7 DEF CountRecords, Typed, TypeOK
<1>8. CASE AutoTick \/ AutoStop \/ Signal \/ CloseBegin \/ CloseWait
  <2>1. /\ pc' \in [Thread -> Label] /\ ret' \in [Thread -> Label]
    BY <1>8 DEF AutoTick, AutoStop, Signal, CloseBegin, CloseWait, Typed, TypeOK, Label
  <2> QED
    BY <1>8, <2>1
       DEF AutoTick, AutoStop, Signal, CloseBegin, CloseWait, Typed, TypeOK
<1>9. CASE CloseStop
  <2>1. pc' \in [Thread -> Label]
    BY <1>9 DEF CloseStop, Typed, TypeOK, Label
  <2> QED
    BY <1>9, <2>1 DEF CloseStop, Typed, TypeOK
<1>10. CASE Kill \/ ShutdownTimesOut
  BY <1>10, DieTyped DEF Kill, ShutdownTimesOut
<1>12. CASE Exit
  <2>1. pc' \in [Thread -> Label]
    BY <1>12 DEF Exit, Typed, TypeOK, Label
  <2> QED
    BY <1>12, <2>1, LoseTyped DEF Exit
<1>11. CASE UNCHANGED vars
  BY <1>11 DEF vars, Typed, TypeOK
<1> QED
  BY <1>1, <1>2, <1>3, <1>4, <1>5, <1>6, <1>7, <1>8, <1>9, <1>10, <1>11,
     <1>12
     DEF Next, FlushStep, InsertReturns

LEMMA AlwaysTyped == SafetySpec => []Typed
BY TypedInit, TypedStep, PTL DEF SafetySpec

(* Every variable keeps its type, whatever the threads, Insert and the end *)
(* of the process do.                                                      *)
THEOREM TypeCorrect == SafetySpec => []TypeOK
<1>1. Typed => TypeOK
  BY DEF Typed
<1> QED
  BY <1>1, AlwaysTyped, PTL
-----------------------------------------------------------------------------
(* The bound of the buffer.  A step that leaves the buffer alone keeps it  *)
(* because no thread stops wanting to flush; a step that empties the       *)
(* buffer keeps it because BatchSize > 0; Add, which grows the buffer,     *)
(* either stays below BatchSize or makes its caller want to flush.         *)
LEMMA WantsFlushFinite ==
  IsFiniteSet(WantsFlush) /\ Cardinality(WantsFlush) \in Nat
<1>1. IsFiniteSet(Adder)
  BY ThreadAssumption, FS_AddElement DEF Adder
<1>2. WantsFlush \subseteq Adder
  BY DEF WantsFlush
<1> QED
  BY <1>1, <1>2, FS_Subset, FS_CardinalityType

LEMMA WantsFlushFinitePrime ==
  IsFiniteSet(WantsFlush') /\ Cardinality(WantsFlush') \in Nat
<1>1. IsFiniteSet(Adder)
  BY ThreadAssumption, FS_AddElement DEF Adder
<1>2. WantsFlush' \subseteq Adder
  BY DEF WantsFlush
<1> QED
  BY <1>1, <1>2, FS_Subset, FS_CardinalityType

LEMMA EmptyBufferBound == buffer' = {} => BufferBound'
BY WantsFlushFinitePrime, FS_EmptySet, BatchSizeAssumption DEF BufferBound

LEMMA SameBufferBound ==
  ASSUME Typed, BufferBound, buffer' = buffer, WantsFlush \subseteq WantsFlush'
  PROVE  BufferBound'
<1>1. Cardinality(WantsFlush) <= Cardinality(WantsFlush')
  BY WantsFlushFinitePrime, FS_Subset
<1>2. Cardinality(buffer) \in Nat
  BY FS_CardinalityType DEF Typed
<1> QED
  BY <1>1, <1>2, WantsFlushFinite, WantsFlushFinitePrime, BatchSizeAssumption
     DEF BufferBound

LEMMA BoundStep == Typed /\ BufferBound /\ [Next]_vars => BufferBound'
<1> SUFFICES ASSUME Typed, BufferBound, [Next]_vars PROVE BufferBound'
  OBVIOUS
<1> USE DEF At, Goto, CallFlush, Return
<1>1. ASSUME NEW t \in Adder, NEW r \in Record, Add(t, r) PROVE BufferBound'
  <2>1. /\ Cardinality(buffer) \in Nat
        /\ Cardinality(buffer') \in Nat
        /\ Cardinality(buffer') <= Cardinality(buffer) + 1
    <3>1. buffer' = buffer \cup {r} /\ IsFiniteSet(buffer)
      BY <1>1 DEF Add, Typed
    <3>2. Cardinality(buffer) \in Nat
      BY <3>1, FS_CardinalityType
    <3>3. Cardinality(buffer \cup {r}) =
            IF r \in buffer THEN Cardinality(buffer)
                            ELSE Cardinality(buffer) + 1
      BY <3>1, FS_AddElement
    <3> QED
      BY <3>1, <3>2, <3>3
  <2>2. CASE Cardinality(buffer') >= BatchSize
    <3>1. WantsFlush' = WantsFlush \cup {t} /\ t \notin WantsFlush
      BY <1>1, <2>2 DEF Add, Full, WantsFlush, Typed, TypeOK, Thread
    <3>2. Cardinality(WantsFlush') = Cardinality(WantsFlush) + 1
      BY <3>1, WantsFlushFinite, FS_AddElement
    <3> QED
      BY <2>1, <3>2, WantsFlushFinite, BatchSizeAssumption DEF BufferBound
  <2>3. CASE ~(Cardinality(buffer') >= BatchSize)
    BY <2>1, <2>3, WantsFlushFinitePrime, BatchSizeAssumption DEF BufferBound
  <2> QED
    BY <2>2, <2>3
<1>2. ASSUME NEW t \in Thread, FlushTake(t) PROVE BufferBound'
  BY <1>2, EmptyBufferBound DEF FlushTake
<1>3. ASSUME NEW t \in Thread,
             InsertOK(t) \/ InsertFails(t) \/ CountBatch(t) \/ CountRecords(t)
      PROVE  BufferBound'
  <2>1. pc[t] # "flush" /\ \A u \in Thread : u # t => pc'[u] = pc[u]
    BY <1>3 DEF InsertOK, InsertFails, KeepOnly, CountBatch, CountRecords,
                Typed, TypeOK
  <2>2. WantsFlush \subseteq WantsFlush'
    BY <2>1 DEF WantsFlush, Thread
  <2> QED
    BY <1>3, <2>2, SameBufferBound
       DEF InsertOK, InsertFails, KeepOnly, CountBatch, CountRecords
<1>4. ASSUME NEW t \in Thread, InsertPanics(t) PROVE BufferBound'
  <2>1. CASE t \in Handler
    <3>1. WantsFlush \subseteq WantsFlush'
      BY <1>4, <2>1
         DEF InsertPanics, KeepOnly, WantsFlush, Typed, TypeOK, Thread
    <3> QED
      BY <1>4, <2>1, <3>1, SameBufferBound DEF InsertPanics, KeepOnly
  <2>2. CASE t \notin Handler
    BY <1>4, <2>2, EmptyBufferBound DEF InsertPanics, KeepOnly, Die, LoseMemory
  <2> QED
    BY <2>1, <2>2
<1>5. CASE AutoTick \/ AutoStop \/ Signal \/ CloseBegin \/ CloseStop \/ CloseWait
  <2>1. WantsFlush \subseteq WantsFlush'
    BY <1>5 DEF AutoTick, AutoStop, Signal, CloseBegin, CloseStop, CloseWait,
                WantsFlush, Typed, TypeOK, Thread
  <2> QED
    BY <1>5, <2>1, SameBufferBound
       DEF AutoTick, AutoStop, Signal, CloseBegin, CloseStop, CloseWait
<1>6. CASE Exit \/ Kill \/ ShutdownTimesOut
  BY <1>6, EmptyBufferBound
     DEF Exit, Kill, ShutdownTimesOut, Die, LoseMemory
<1>7. CASE UNCHANGED vars
  BY <1>7, SameBufferBound DEF vars, WantsFlush
<1> QED
  BY <1>1, <1>2, <1>3, <1>4, <1>5, <1>6, <1>7
     DEF Next, FlushStep, InsertReturns

(* The memory of the buffer is bounded although Add flushes outside the    *)
(* lock: BatchSize - 1 records, and one more per caller that has decided   *)
(* to flush and has not yet entered Flush.                                 *)
THEOREM BufferIsBounded == SafetySpec => []BufferBound
<1>1. Init => BufferBound
  BY FS_EmptySet, WantsFlushFinite, BatchSizeAssumption DEF Init, BufferBound
<1> QED
  BY <1>1, BoundStep, AlwaysTyped, PTL DEF SafetySpec
-----------------------------------------------------------------------------
(* One place for each record.  ExactlyOnePlace is not inductive: FlushTake *)
(* overwrites the local copy of its thread, and is harmless only because a *)
(* thread holds a copy nowhere but at its call of Insert.                  *)
CopyOnlyInInsert == \A t \in Thread : pc[t] # "insert" => toWrite[t] = {}

PlaceInv == ExactlyOnePlace /\ CopyOnlyInInsert

LEMMA InFlightElements ==
  \A r : r \in InFlight <=> \E t \in Thread : r \in toWrite[t]
BY DEF InFlight

LEMMA InFlightElementsPrime ==
  \A r : r \in InFlight' <=> \E t \in Thread : r \in toWrite'[t]
BY DEF InFlight

(* A thread gives its batch away: W of it is stored, the rest is lost.     *)
LEMMA SettlePlace ==
  ASSUME Typed, PlaceInv, NEW t \in Thread, NEW W \in SUBSET toWrite[t],
         toWrite' = [toWrite EXCEPT ![t] = {}],
         stored' = stored \cup W,
         lost' = lost \cup (toWrite[t] \ W),
         UNCHANGED <<buffer, added>>
  PROVE  ExactlyOnePlace'
<1>1. InFlight' = InFlight \ toWrite[t]
  BY InFlightElements, InFlightElementsPrime
     DEF PlaceInv, ExactlyOnePlace, Typed, TypeOK
<1>2. toWrite[t] \subseteq InFlight
  BY InFlightElements
<1>3. toWrite[t] \cap buffer = {}
  BY DEF PlaceInv, ExactlyOnePlace
<1>4. InMemory' = InMemory \ toWrite[t] /\ toWrite[t] \subseteq InMemory
  BY <1>1, <1>2, <1>3 DEF InMemory
<1>5. /\ added' = InMemory' \cup stored' \cup lost'
      /\ stored' \cap lost' = {}
      /\ InMemory' \cap (stored' \cup lost') = {}
  BY <1>4 DEF PlaceInv, ExactlyOnePlace
<1>6. /\ \A u \in Thread : toWrite'[u] \cap buffer' = {}
      /\ \A u, v \in Thread : u # v => toWrite'[u] \cap toWrite'[v] = {}
  BY DEF PlaceInv, ExactlyOnePlace, Typed, TypeOK
<1> QED
  BY <1>5, <1>6 DEF ExactlyOnePlace

(* Steps that move no record.                                              *)
LEMMA StillPlace ==
  ASSUME ExactlyOnePlace, UNCHANGED <<buffer, toWrite, added, stored, lost>>
  PROVE  ExactlyOnePlace'
BY DEF ExactlyOnePlace, InMemory, InFlight

LEMMA LosePlace == PlaceInv /\ LoseMemory => PlaceInv'
<1> SUFFICES ASSUME PlaceInv, LoseMemory PROVE PlaceInv'
  OBVIOUS
<1>1. \A u \in Thread : toWrite'[u] = {}
  BY DEF LoseMemory
<1>2. InFlight' = {} /\ buffer' = {} /\ InMemory' = {}
  BY <1>1, InFlightElementsPrime DEF LoseMemory, InMemory
<1>3. PICK W \in SUBSET InFlight :
        stored' = stored \cup W /\ lost' = lost \cup (InMemory \ W)
  BY DEF LoseMemory
<1>4. added' = added /\ W \subseteq InMemory
  BY <1>3 DEF LoseMemory, InMemory
<1>5. /\ added' = InMemory' \cup stored' \cup lost'
      /\ stored' \cap lost' = {}
      /\ InMemory' \cap (stored' \cup lost') = {}
  BY <1>2, <1>3, <1>4 DEF PlaceInv, ExactlyOnePlace
<1> QED
  BY <1>1, <1>2, <1>5 DEF PlaceInv, ExactlyOnePlace, CopyOnlyInInsert

LEMMA PlaceStep == Typed /\ PlaceInv /\ [Next]_vars => PlaceInv'
<1> SUFFICES ASSUME Typed, PlaceInv, [Next]_vars PROVE PlaceInv'
  OBVIOUS
<1> USE DEF At, Goto, CallFlush, Return
<1>1. ASSUME NEW t \in Adder, NEW r \in Record, Add(t, r) PROVE PlaceInv'
  <2>1. /\ r \notin added /\ added' = added \cup {r}
        /\ buffer' = buffer \cup {r}
        /\ UNCHANGED <<toWrite, stored, lost>>
    BY <1>1 DEF Add
  <2>2. InMemory' = InMemory \cup {r}
    BY <2>1 DEF InMemory, InFlight
  <2>3. \A u \in Thread : r \notin toWrite[u]
    BY <2>1, InFlightElements DEF PlaceInv, ExactlyOnePlace, InMemory
  <2>4. ExactlyOnePlace'
    BY <2>1, <2>2, <2>3 DEF PlaceInv, ExactlyOnePlace
  <2>5. CopyOnlyInInsert'
    BY <1>1 DEF Add, PlaceInv, CopyOnlyInInsert, Typed, TypeOK, Thread
  <2> QED
    BY <2>4, <2>5 DEF PlaceInv
<1>2. ASSUME NEW t \in Thread, FlushTake(t) PROVE PlaceInv'
  <2>1. toWrite[t] = {}
    BY <1>2 DEF FlushTake, PlaceInv, CopyOnlyInInsert
  <2>2. CASE buffer = {}
    <3>1. ExactlyOnePlace'
      BY <1>2, <2>2, StillPlace DEF FlushTake, PlaceInv, sinkPart
    <3>2. CopyOnlyInInsert'
      BY <1>2, <2>1, <2>2 DEF FlushTake, PlaceInv, CopyOnlyInInsert, Typed,
                              TypeOK
    <3> QED
      BY <3>1, <3>2 DEF PlaceInv
  <2>3. CASE buffer # {}
    <3>1. /\ toWrite' = [toWrite EXCEPT ![t] = buffer] /\ buffer' = {}
          /\ UNCHANGED <<added, stored, lost>>
      BY <1>2, <2>3 DEF FlushTake, sinkPart
    <3>2. InFlight' = InFlight \cup buffer
      BY <2>1, <3>1, InFlightElements, InFlightElementsPrime
         DEF Typed, TypeOK
    <3>3. InMemory' = InMemory
      BY <3>1, <3>2 DEF InMemory
    <3>4. /\ \A u \in Thread : toWrite'[u] \cap buffer' = {}
          /\ \A u, v \in Thread : u # v => toWrite'[u] \cap toWrite'[v] = {}
      BY <3>1 DEF PlaceInv, ExactlyOnePlace, Typed, TypeOK
    <3>5. ExactlyOnePlace'
      BY <3>1, <3>3, <3>4 DEF PlaceInv, ExactlyOnePlace
    <3>6. CopyOnlyInInsert'
      BY <1>2, <2>3 DEF FlushTake, PlaceInv, CopyOnlyInInsert, Typed, TypeOK
    <3> QED
      BY <3>5, <3>6 DEF PlaceInv
  <2> QED
    BY <2>2, <2>3
<1>3. ASSUME NEW t \in Thread, InsertOK(t) PROVE PlaceInv'
  <2>1. ExactlyOnePlace'
    BY <1>3, SettlePlace DEF InsertOK
  <2>2. CopyOnlyInInsert'
    BY <1>3 DEF InsertOK, PlaceInv, CopyOnlyInInsert, Typed, TypeOK
  <2> QED
    BY <2>1, <2>2 DEF PlaceInv
<1>4. ASSUME NEW t \in Thread, InsertFails(t) PROVE PlaceInv'
  <2>1. ExactlyOnePlace'
    BY <1>4, SettlePlace DEF InsertFails, KeepOnly
  <2>2. CopyOnlyInInsert'
    BY <1>4 DEF InsertFails, KeepOnly, PlaceInv, CopyOnlyInInsert, Typed,
                TypeOK
  <2> QED
    BY <2>1, <2>2 DEF PlaceInv
<1>5. ASSUME NEW t \in Thread, InsertPanics(t) PROVE PlaceInv'
  <2>1. CASE t \in Handler
    <3>1. ExactlyOnePlace'
      BY <1>5, <2>1, SettlePlace DEF InsertPanics, KeepOnly
    <3>2. CopyOnlyInInsert'
      BY <1>5, <2>1
         DEF InsertPanics, KeepOnly, PlaceInv, CopyOnlyInInsert, Typed, TypeOK
    <3> QED
      BY <3>1, <3>2 DEF PlaceInv
  <2>2. CASE t \notin Handler
    BY <1>5, <2>2, LosePlace DEF InsertPanics, Die
  <2> QED
    BY <2>1, <2>2
<1>6. ASSUME NEW t \in Thread, CountBatch(t) \/ CountRecords(t)
      PROVE  PlaceInv'
  <2>1. ExactlyOnePlace'
    BY <1>6, StillPlace DEF CountBatch, CountRecords, PlaceInv, sinkPart
  <2>2. CopyOnlyInInsert'
    BY <1>6 DEF CountBatch, CountRecords, PlaceInv, CopyOnlyInInsert, Typed,
                TypeOK
  <2> QED
    BY <2>1, <2>2 DEF PlaceInv
<1>7. CASE AutoTick \/ AutoStop \/ Signal \/ CloseBegin \/ CloseStop \/ CloseWait
  <2>1. ExactlyOnePlace'
    BY <1>7, StillPlace
       DEF AutoTick, AutoStop, Signal, CloseBegin, CloseStop, CloseWait, PlaceInv,
           sinkPart
  <2>2. CopyOnlyInInsert'
    BY <1>7 DEF AutoTick, AutoStop, Signal, CloseBegin, CloseStop, CloseWait, PlaceInv,
                CopyOnlyInInsert, Typed, TypeOK, Thread
  <2> QED
    BY <2>1, <2>2 DEF PlaceInv
<1>8. CASE Exit \/ Kill \/ ShutdownTimesOut
  BY <1>8, LosePlace DEF Exit, Kill, ShutdownTimesOut, Die
<1>9. CASE UNCHANGED vars
  BY <1>9, StillPlace DEF vars, PlaceInv, CopyOnlyInInsert, sinkPart
<1> QED
  BY <1>1, <1>2, <1>3, <1>4, <1>5, <1>6, <1>7, <1>8, <1>9
     DEF Next, FlushStep, InsertReturns

LEMMA PlaceInit == Init => PlaceInv
<1> SUFFICES ASSUME Init PROVE PlaceInv
  OBVIOUS
<1>1. \A t \in Thread : toWrite[t] = {}
  BY DEF Init
<1>2. InFlight = {}
  BY <1>1, InFlightElements
<1> QED
  BY <1>1, <1>2
     DEF Init, PlaceInv, ExactlyOnePlace, CopyOnlyInInsert, InMemory

LEMMA AlwaysPlace == SafetySpec => []PlaceInv
BY PlaceInit, PlaceStep, AlwaysTyped, PTL DEF SafetySpec

(* No record passed to Add vanishes or is inserted twice, however many     *)
(* flushes overlap, fail, or end with the process.                         *)
THEOREM EachRecordInOnePlace == SafetySpec => []ExactlyOnePlace
<1>1. PlaceInv => ExactlyOnePlace
  BY DEF PlaceInv
<1> QED
  BY <1>1, AlwaysPlace, PTL
-----------------------------------------------------------------------------
(* Close drains.  The final flush of autoFlush comes after the stop channel*)
(* is closed, so from its lock region on the buffer holds only records     *)
(* added later; Close goes past wg.Wait only when autoFlush is done; and   *)
(* the handlers were idle before Close began and stay so.                  *)
NothingOld == buffer \cap beforeStop = {}

DrainInv ==
  /\ beforeStop \subseteq added
  /\ ~stop => ret[AutoFlush] # "done" /\ pc[AutoFlush] # "done"
  /\ pc[Main] # "wait" /\ ret[Main] # "closed" => ~stop
  /\ pc[Main] \in {"run", "stop"} => ret[Main] = pc[Main]
  /\ pc[Main] = "drain" => ret[Main] = "run"
  /\ ret[Main] # "drain"
  /\ ~Serving => \A h \in Handler : pc[h] = "idle"
  /\ pc[AutoFlush] = "done" => ret[AutoFlush] = "done"
  /\ pc[Main] = "closed" \/ ret[Main] = "closed" => pc[AutoFlush] = "done"
  /\ ret[AutoFlush] = "done" /\ pc[AutoFlush] # "flush" => NothingOld

LEMMA DrainInit == Init => DrainInv
BY ThreadAssumption
   DEF Init, DrainInv, NothingOld, Thread, Adder, Serving

(* A step inside Flush, or its return.                                     *)
Inside == {"insert", "batches", "records"}

LEMMA FlushDrain ==
  ASSUME Typed, DrainInv, NEW t \in Thread, NEW l,
         pc[t] \in Inside \cup {"flush"},
         l \in Inside \cup {ret[t]} \/ (t \in Handler /\ l = "idle"),
         pc' = [pc EXCEPT ![t] = l],
         UNCHANGED <<ret, stop, beforeStop, added>>,
         buffer' \subseteq buffer,
         pc[t] = "flush" => buffer' = {}
  PROVE  DrainInv'
<1> USE ThreadAssumption DEF DrainInv, Thread, Adder, Serving, Inside
<1>1. NothingOld => NothingOld'
  BY DEF NothingOld
<1>2. pc[t] = "flush" => NothingOld'
  BY DEF NothingOld
<1>3. CASE t = Main
  BY <1>1, <1>3 DEF Typed, TypeOK
<1>4. CASE t = AutoFlush
  BY <1>1, <1>2, <1>4 DEF Typed, TypeOK
<1>5. CASE t \in Handler
  BY <1>1, <1>5 DEF Typed, TypeOK
<1>6. CASE t = RawLoop
  BY <1>1, <1>6 DEF Typed, TypeOK
<1> QED
  BY <1>3, <1>4, <1>5, <1>6

LEMMA DrainStep == Typed /\ DrainInv /\ [Next]_vars => DrainInv'
<1> SUFFICES ASSUME Typed, DrainInv, [Next]_vars PROVE DrainInv'
  OBVIOUS
<1> USE ThreadAssumption DEF At, Goto, CallFlush, Return, DrainInv, Thread,
                             Adder, Serving
<1>1. ASSUME NEW t \in Adder, NEW r \in Record, Add(t, r) PROVE DrainInv'
  <2>1. t # Main /\ t # AutoFlush
    BY <1>1
  <2>2. NothingOld => NothingOld'
    BY <1>1 DEF Add, NothingOld
  <2> QED
    BY <1>1, <2>1, <2>2 DEF Add, Typed, TypeOK
<1>2. ASSUME NEW t \in Thread, FlushTake(t) PROVE DrainInv'
  BY <1>2, FlushDrain DEF FlushTake, Inside, sinkPart
<1>3. ASSUME NEW t \in Thread, InsertOK(t) PROVE DrainInv'
  BY <1>3, FlushDrain DEF InsertOK, Inside
<1>4. ASSUME NEW t \in Thread, InsertFails(t) PROVE DrainInv'
  BY <1>4, FlushDrain DEF InsertFails, KeepOnly, Inside
<1>5. CASE Die
  BY <1>5 DEF Die, LoseMemory, NothingOld
<1>6. ASSUME NEW t \in Thread, InsertPanics(t) PROVE DrainInv'
  <2>1. CASE t \in Handler
    BY <1>6, <2>1, FlushDrain DEF InsertPanics, KeepOnly, Inside
  <2>2. CASE t \notin Handler
    BY <1>5, <1>6, <2>2 DEF InsertPanics
  <2> QED
    BY <2>1, <2>2
<1>7. ASSUME NEW t \in Thread, CountBatch(t) PROVE DrainInv'
  BY <1>7, FlushDrain DEF CountBatch, Inside, sinkPart
<1>8. ASSUME NEW t \in Thread, CountRecords(t) PROVE DrainInv'
  BY <1>8, FlushDrain DEF CountRecords, Inside, sinkPart
<1>9. CASE AutoTick
  BY <1>9 DEF AutoTick, NothingOld, Typed, TypeOK, sinkPart
<1>10. CASE AutoStop
  BY <1>10 DEF AutoStop, NothingOld, Typed, TypeOK, sinkPart
<1>11. CASE Signal
  BY <1>11 DEF Signal, NothingOld, Typed, TypeOK, sinkPart
<1>12. CASE CloseBegin
  BY <1>12 DEF CloseBegin, NothingOld, Typed, TypeOK, sinkPart
<1>13. CASE CloseStop
  BY <1>13 DEF CloseStop, NothingOld, Typed, TypeOK, sinkPart
<1>14. CASE CloseWait
  BY <1>14 DEF CloseWait, NothingOld, Typed, TypeOK, sinkPart
<1>15. CASE Kill \/ ShutdownTimesOut
  BY <1>5, <1>15 DEF Kill, ShutdownTimesOut
<1>16. CASE Exit
  BY <1>16 DEF Exit, LoseMemory, NothingOld, Typed, TypeOK
<1>17. CASE UNCHANGED vars
  BY <1>17 DEF vars, NothingOld, sinkPart
<1> QED
  BY <1>1, <1>2, <1>3, <1>4, <1>6, <1>7, <1>8, <1>9, <1>10, <1>11, <1>12,
     <1>13, <1>14, <1>15, <1>16, <1>17
     DEF Next, FlushStep, InsertReturns

(* When Close returns, nothing that was added before it closed the stop    *)
(* channel is left with the buffer, a handler, autoFlush or Close itself;  *)
(* only the loop, which nothing stops, may still be inserting some of it.  *)
THEOREM CloseDrains == SafetySpec => []ClosedIsDrained
<1>1. DrainInv /\ PlaceInv => ClosedIsDrained
  <2> SUFFICES ASSUME DrainInv, PlaceInv, pc[Main] = "closed",
                      NEW r \in beforeStop, r \in InMemory
               PROVE  r \in toWrite[RawLoop]
    BY DEF ClosedIsDrained
  <2>1. r \notin buffer
    BY DEF DrainInv, NothingOld
  <2>2. PICK t \in Thread : r \in toWrite[t]
    BY <2>1, InFlightElements DEF InMemory
  <2>3. pc[t] = "insert"
    BY <2>2 DEF PlaceInv, CopyOnlyInInsert
  <2>4. t \notin Handler /\ t # AutoFlush /\ t # Main
    BY <2>3 DEF DrainInv, Serving
  <2> QED
    BY <2>2, <2>4 DEF Thread, Adder
<1> QED
  BY <1>1, DrainInit, DrainStep, AlwaysTyped, AlwaysPlace, PTL DEF SafetySpec
-----------------------------------------------------------------------------
(* The writer implements the safety part of RecordSink: Add is Accept, an  *)
(* answer of Insert and the end of the process are Settle, and every other *)
(* step leaves the sink as it is.                                          *)
LEMMA SettleRefines ==
  ASSUME Typed, PlaceInv, NEW t \in Thread, NEW W \in SUBSET toWrite[t],
         toWrite' = [toWrite EXCEPT ![t] = {}],
         stored' = stored \cup W,
         lost' = lost \cup (toWrite[t] \ W),
         UNCHANGED buffer
  PROVE  [Sink!Next]_(Sink!sinkVars)
<1>1. InFlight' = InFlight \ toWrite[t] /\ toWrite[t] \subseteq InFlight
  BY InFlightElements, InFlightElementsPrime
     DEF PlaceInv, ExactlyOnePlace, Typed, TypeOK
<1>2. InMemory' = InMemory \ toWrite[t] /\ toWrite[t] \subseteq InMemory
  BY <1>1 DEF PlaceInv, ExactlyOnePlace, InMemory
<1>3. CASE toWrite[t] = {}
  BY <1>2, <1>3 DEF Sink!sinkVars
<1>4. CASE toWrite[t] # {}
  <2> DEFINE L == toWrite[t] \ W
  <2>1. W \cup L = toWrite[t]
    OBVIOUS
  <2>2. W \in SUBSET InMemory /\ L \in SUBSET (InMemory \ W)
    BY <1>2
  <2>3. Sink!Settle(W, L)
    BY <1>2, <1>4, <2>1, <2>2 DEF Sink!Settle
  <2> QED
    BY <2>2, <2>3 DEF Sink!Next
<1> QED
  BY <1>3, <1>4

LEMMA LoseRefines == LoseMemory => [Sink!Next]_(Sink!sinkVars)
<1> SUFFICES ASSUME LoseMemory PROVE [Sink!Next]_(Sink!sinkVars)
  OBVIOUS
<1>1. \A u \in Thread : toWrite'[u] = {}
  BY DEF LoseMemory
<1>2. InMemory' = {}
  BY <1>1, InFlightElementsPrime DEF LoseMemory, InMemory
<1>3. PICK W \in SUBSET InFlight :
        stored' = stored \cup W /\ lost' = lost \cup (InMemory \ W)
  BY DEF LoseMemory
<1>4. W \in SUBSET InMemory
  BY <1>3 DEF InMemory
<1>5. CASE InMemory = {}
  BY <1>2, <1>3, <1>4, <1>5 DEF Sink!sinkVars
<1>6. CASE InMemory # {}
  <2> DEFINE L == InMemory \ W
  <2>1. W \cup L = InMemory /\ L \in SUBSET (InMemory \ W)
    BY <1>4
  <2>2. Sink!Settle(W, L)
    BY <1>2, <1>3, <1>4, <1>6, <2>1 DEF Sink!Settle
  <2> QED
    BY <1>4, <2>1, <2>2 DEF Sink!Next
<1> QED
  BY <1>5, <1>6

LEMMA QuietRefines ==
  UNCHANGED <<buffer, toWrite, stored, lost>> => UNCHANGED Sink!sinkVars
BY DEF Sink!sinkVars, InMemory, InFlight

LEMMA StepRefines ==
  Typed /\ PlaceInv /\ [Next]_vars => [Sink!Next]_(Sink!sinkVars)
<1> SUFFICES ASSUME Typed, PlaceInv, [Next]_vars
             PROVE  [Sink!Next]_(Sink!sinkVars)
  OBVIOUS
<1>1. ASSUME NEW t \in Adder, NEW r \in Record, Add(t, r)
      PROVE  [Sink!Next]_(Sink!sinkVars)
  <2>1. /\ r \notin added
        /\ buffer' = buffer \cup {r}
        /\ UNCHANGED <<toWrite, stored, lost>>
    BY <1>1 DEF Add
  <2>2. InMemory' = InMemory \cup {r}
    BY <2>1 DEF InMemory, InFlight
  <2>3. Sink!Accept(r)
    BY <2>1, <2>2 DEF Sink!Accept, PlaceInv, ExactlyOnePlace
  <2> QED
    BY <2>3 DEF Sink!Next
<1>2. ASSUME NEW t \in Thread, FlushTake(t) PROVE UNCHANGED Sink!sinkVars
  <2>1. CASE buffer = {}
    BY <1>2, <2>1, QuietRefines DEF FlushTake, sinkPart
  <2>2. CASE buffer # {}
    <3>1. /\ toWrite' = [toWrite EXCEPT ![t] = buffer] /\ buffer' = {}
          /\ UNCHANGED <<stored, lost>>
      BY <1>2, <2>2 DEF FlushTake, sinkPart
    <3>2. toWrite[t] = {}
      BY <1>2 DEF FlushTake, At, PlaceInv, CopyOnlyInInsert
    <3>3. InFlight' = InFlight \cup buffer
      BY <3>1, <3>2, InFlightElements, InFlightElementsPrime
         DEF Typed, TypeOK
    <3> QED
      BY <3>1, <3>3 DEF InMemory, Sink!sinkVars
  <2> QED
    BY <2>1, <2>2
<1>3. ASSUME NEW t \in Thread, InsertOK(t) \/ InsertFails(t)
      PROVE  [Sink!Next]_(Sink!sinkVars)
  <2>1. CASE InsertOK(t)
    BY <2>1, SettleRefines DEF InsertOK
  <2>2. CASE InsertFails(t)
    BY <2>2, SettleRefines DEF InsertFails, KeepOnly
  <2> QED
    BY <1>3, <2>1, <2>2
<1>4. ASSUME NEW t \in Thread, InsertPanics(t)
      PROVE  [Sink!Next]_(Sink!sinkVars)
  <2>1. CASE t \in Handler
    BY <1>4, <2>1, SettleRefines DEF InsertPanics, KeepOnly
  <2>2. CASE t \notin Handler
    BY <1>4, <2>2, LoseRefines DEF InsertPanics, Die
  <2> QED
    BY <2>1, <2>2
<1>5. ASSUME NEW t \in Thread, CountBatch(t) \/ CountRecords(t)
      PROVE  UNCHANGED Sink!sinkVars
  BY <1>5, QuietRefines DEF CountBatch, CountRecords, sinkPart
<1>6. CASE AutoTick \/ AutoStop \/ Signal \/ CloseBegin \/ CloseStop \/ CloseWait
  BY <1>6, QuietRefines
     DEF AutoTick, AutoStop, Signal, CloseBegin, CloseStop, CloseWait, sinkPart
<1>7. CASE Exit \/ Kill \/ ShutdownTimesOut
  BY <1>7, LoseRefines DEF Exit, Kill, ShutdownTimesOut, Die
<1>8. CASE UNCHANGED vars
  BY <1>8, QuietRefines DEF vars, sinkPart
<1> QED
  BY <1>1, <1>2, <1>3, <1>4, <1>5, <1>6, <1>7, <1>8
     DEF Next, FlushStep, InsertReturns

(* Every behaviour of the writer is a behaviour of the sink.               *)
THEOREM RefinesSink == SafetySpec => Sink!SafetySpec
<1>1. Init => Sink!Init
  <2> SUFFICES ASSUME Init PROVE Sink!Init
    OBVIOUS
  <2>1. \A t \in Thread : toWrite[t] = {}
    BY DEF Init
  <2>2. InMemory = {}
    BY <2>1, InFlightElements DEF Init, InMemory
  <2> QED
    BY <2>2 DEF Init, Sink!Init
<1> QED
  BY <1>1, StepRefines, AlwaysTyped, AlwaysPlace, PTL
     DEF SafetySpec, Sink!SafetySpec
-----------------------------------------------------------------------------
(* The written records.  RecordsWrittenBacked adds up over overlapping     *)
(* flushes because their batches are disjoint, and because recordCount is  *)
(* still the size of the batch when the counter is raised by it.           *)
Counting == {"batches", "records"}

CountInv ==
  /\ \A t \in Thread : ret[t] \notin {"insert"} \cup Counting
  /\ \A t \in Thread :
       up /\ pc[t] = "insert" => recordCount[t] = Cardinality(toWrite[t])
  /\ \A t \in Thread :
       IF pc[t] \in Counting
         THEN recordCount[t] = Cardinality(uncounted[t])
         ELSE uncounted[t] = {}
  /\ \A t \in Thread : uncounted[t] \subseteq stored
  /\ \A t, u \in Thread : t # u => uncounted[t] \cap uncounted[u] = {}

LEMMA CountInit == Init => CountInv
BY ThreadAssumption DEF Init, CountInv, Counting, Thread, Adder

(* Only Add adds records, and one at a time; every other place holds some  *)
(* of them.                                                                *)
AddedFinite == IsFiniteSet(added)

LEMMA AddedFiniteStep ==
  AddedFinite /\ [Next]_vars => AddedFinite'
<1> SUFFICES ASSUME IsFiniteSet(added), [Next]_vars PROVE IsFiniteSet(added')
  BY DEF AddedFinite
<1>1. ASSUME NEW t \in Adder, NEW r \in Record, Add(t, r)
      PROVE  IsFiniteSet(added')
  <2>1. IsFiniteSet(added \cup {r})
    BY FS_AddElement
  <2> QED
    BY <1>1, <2>1 DEF Add
<1>2. (\E t \in Adder, r \in Record : Add(t, r)) \/ added' = added
  BY DEF Next, FlushStep, InsertReturns, FlushTake, InsertOK, InsertFails,
         InsertPanics, CountBatch, CountRecords, AutoTick, AutoStop, Signal,
         ShutdownTimesOut, CloseBegin, CloseStop, CloseWait, Exit, Kill, Die,
         LoseMemory, vars, sinkPart
<1> QED
  BY <1>1, <1>2

LEMMA PlacesFinite ==
  ASSUME PlaceInv, IsFiniteSet(added)
  PROVE  IsFiniteSet(stored) /\ \A t \in Thread : IsFiniteSet(toWrite[t])
<1>1. stored \subseteq added
  BY DEF PlaceInv, ExactlyOnePlace
<1>2. \A t \in Thread : toWrite[t] \subseteq added
  BY InFlightElements DEF PlaceInv, ExactlyOnePlace, InMemory
<1> QED
  BY <1>1, <1>2, FS_Subset

LEMMA UncountedElements ==
  /\ \A r : r \in Uncounted <=> \E t \in Thread : r \in uncounted[t]
  /\ \A r : r \in Uncounted' <=> \E t \in Thread : r \in uncounted'[t]
BY DEF Uncounted

(* A step that neither inserts a whole batch nor counts one.               *)
LEMMA SameCounted ==
  ASSUME PlaceInv', IsFiniteSet(added'), RecordsWrittenBacked,
         recordsWritten \in Nat,
         stored \subseteq stored', UNCHANGED <<uncounted, recordsWritten>>
  PROVE  RecordsWrittenBacked'
<1>1. stored' \subseteq added'
  BY DEF PlaceInv, ExactlyOnePlace
<1>2. IsFiniteSet(stored')
  BY <1>1, FS_Subset
<1>3. IsFiniteSet(stored' \ Uncounted)
  BY <1>2, FS_Difference
<1>4. stored \ Uncounted \subseteq stored' \ Uncounted
  OBVIOUS
<1>5. /\ Cardinality(stored \ Uncounted) <= Cardinality(stored' \ Uncounted)
      /\ IsFiniteSet(stored \ Uncounted)
  BY <1>3, <1>4, FS_Subset
<1>6. /\ Cardinality(stored \ Uncounted) \in Nat
      /\ Cardinality(stored' \ Uncounted) \in Nat
  BY <1>3, <1>5, FS_CardinalityType
<1>7. recordsWritten <= Cardinality(stored' \ Uncounted)
  BY <1>5, <1>6 DEF RecordsWrittenBacked
<1>8. Uncounted' = Uncounted
  BY DEF Uncounted
<1> QED
  BY <1>7, <1>8 DEF RecordsWrittenBacked

(* Moving pc of a thread outside of the part of Flush that counts.         *)
LEMMA SameCount ==
  ASSUME Typed, CountInv, stored \subseteq stored',
         UNCHANGED <<uncounted, recordCount>>,
         \A t \in Thread : ret'[t] \notin {"insert"} \cup Counting,
         \A t \in Thread :
           up' /\ pc'[t] = "insert" =>
             up /\ pc[t] = "insert" /\ toWrite'[t] = toWrite[t],
         \A t \in Thread : pc'[t] \in Counting <=> pc[t] \in Counting
  PROVE  CountInv'
BY DEF CountInv

LEMMA CountStep ==
  /\ Typed /\ PlaceInv /\ PlaceInv' /\ AddedFinite /\ AddedFinite'
  /\ CountInv /\ RecordsWrittenBacked /\ [Next]_vars
  => CountInv' /\ RecordsWrittenBacked'
<1> SUFFICES ASSUME Typed, PlaceInv, PlaceInv', IsFiniteSet(added),
                    IsFiniteSet(added'), CountInv, RecordsWrittenBacked,
                    [Next]_vars
             PROVE  CountInv' /\ RecordsWrittenBacked'
  BY DEF AddedFinite
<1> USE DEF At, Goto, CallFlush, Return, statsPart, sinkPart
<1>a. recordsWritten \in Nat
  BY DEF Typed, TypeOK
<1>b. IsFiniteSet(stored) /\ \A t \in Thread : IsFiniteSet(toWrite[t])
  BY PlacesFinite
<1>c. \A t \in Thread : ret[t] \notin {"insert"} \cup Counting
  BY DEF CountInv
<1>1. ASSUME NEW t \in Adder, NEW r \in Record, Add(t, r)
      PROVE  CountInv' /\ RecordsWrittenBacked'
  <2>1. RecordsWrittenBacked'
    BY <1>1, <1>a, SameCounted DEF Add
  <2>2. \A u \in Thread : ret'[u] \notin {"insert"} \cup Counting
    BY <1>1, <1>c DEF Add, Typed, TypeOK, Counting
  <2>3. CountInv'
    BY <1>1, <2>2, SameCount DEF Add, Typed, TypeOK, Counting
  <2> QED
    BY <2>1, <2>3
<1>2. ASSUME NEW t \in Thread, FlushTake(t)
      PROVE  CountInv' /\ RecordsWrittenBacked'
  <2>1. RecordsWrittenBacked'
    BY <1>2, <1>a, SameCounted DEF FlushTake
  <2>2. CASE buffer = {}
    <3>1. CountInv'
      BY <1>2, <1>c, <2>2, SameCount DEF FlushTake, Typed, TypeOK, Counting
    <3> QED
      BY <2>1, <3>1
  <2>3. CASE buffer # {}
    <3>1. /\ toWrite'[t] = buffer /\ recordCount'[t] = Cardinality(buffer)
          /\ \A u \in Thread : u # t => /\ toWrite'[u] = toWrite[u]
                                        /\ recordCount'[u] = recordCount[u]
                                        /\ pc'[u] = pc[u]
          /\ pc[t] = "flush" /\ pc'[t] = "insert"
          /\ UNCHANGED <<ret, up, stored, uncounted>>
      BY <1>2, <2>3 DEF FlushTake, Typed, TypeOK
    <3>2. CountInv'
      BY <3>1 DEF CountInv, Counting
    <3> QED
      BY <2>1, <3>2
  <2> QED
    BY <2>2, <2>3
<1>3. ASSUME NEW t \in Thread, InsertOK(t)
      PROVE  CountInv' /\ RecordsWrittenBacked'
  <2>1. /\ up /\ pc[t] = "insert" /\ pc'[t] = "batches"
        /\ stored' = stored \cup toWrite[t]
        /\ uncounted'[t] = toWrite[t]
        /\ \A u \in Thread : u # t => /\ toWrite'[u] = toWrite[u]
                                      /\ uncounted'[u] = uncounted[u]
                                      /\ pc'[u] = pc[u]
        /\ UNCHANGED <<up, ret, recordCount, recordsWritten>>
    BY <1>3 DEF InsertOK, Typed, TypeOK
  <2>2. toWrite[t] \cap stored = {}
    BY InFlightElements DEF PlaceInv, ExactlyOnePlace, InMemory
  <2>3. \A u \in Thread : uncounted[u] \subseteq stored
    BY DEF CountInv
  <2>4. recordCount[t] = Cardinality(toWrite[t]) /\ uncounted[t] = {}
    BY <2>1 DEF CountInv, Counting
  <2>5. CountInv'
    BY <2>1, <2>2, <2>3, <2>4 DEF CountInv, Counting
  <2>6. Uncounted' = Uncounted \cup toWrite[t]
    BY <2>1, <2>4, UncountedElements
  <2>7. stored' \ Uncounted' = stored \ Uncounted
    BY <2>1, <2>2, <2>6
  <2>8. RecordsWrittenBacked'
    BY <2>1, <2>7 DEF RecordsWrittenBacked
  <2> QED
    BY <2>5, <2>8
<1>4. ASSUME NEW t \in Thread, InsertFails(t)
      PROVE  CountInv' /\ RecordsWrittenBacked'
  <2>1. RecordsWrittenBacked'
    BY <1>4, <1>a, SameCounted DEF InsertFails, KeepOnly
  <2>2. CountInv'
    BY <1>4, <1>c, SameCount DEF InsertFails, KeepOnly, Typed, TypeOK, Counting
  <2> QED
    BY <2>1, <2>2
<1>5. ASSUME LoseMemory, pc' = pc \/ pc' = [pc EXCEPT ![Main] = "exited"],
             pc' = pc \/ pc[Main] = "closed", UNCHANGED ret
      PROVE  CountInv' /\ RecordsWrittenBacked'
  <2>1. stored \subseteq stored' /\ UNCHANGED <<uncounted, recordsWritten>>
    BY <1>5 DEF LoseMemory
  <2>2. RecordsWrittenBacked'
    BY <1>a, <2>1, SameCounted
  <2>3. \A t \in Thread : pc'[t] \in Counting <=> pc[t] \in Counting
    BY <1>5 DEF Typed, TypeOK, Counting, Thread
  <2>4. CountInv'
    BY <1>5, <1>c, <2>1, <2>3, SameCount DEF LoseMemory
  <2> QED
    BY <2>2, <2>4
<1>6. ASSUME NEW t \in Thread, InsertPanics(t)
      PROVE  CountInv' /\ RecordsWrittenBacked'
  <2>1. CASE t \in Handler
    <3>1. RecordsWrittenBacked'
      BY <1>6, <1>a, <2>1, SameCounted DEF InsertPanics, KeepOnly
    <3>2. CountInv'
      BY <1>6, <1>c, <2>1, SameCount
         DEF InsertPanics, KeepOnly, Typed, TypeOK, Counting
    <3> QED
      BY <3>1, <3>2
  <2>2. CASE t \notin Handler
    BY <1>5, <1>6, <2>2 DEF InsertPanics, Die
  <2> QED
    BY <2>1, <2>2
<1>7. ASSUME NEW t \in Thread, CountBatch(t)
      PROVE  CountInv' /\ RecordsWrittenBacked'
  <2>1. RecordsWrittenBacked'
    BY <1>7, <1>a, SameCounted DEF CountBatch
  <2>2. CountInv'
    BY <1>7, <1>c, SameCount DEF CountBatch, Typed, TypeOK, Counting
  <2> QED
    BY <2>1, <2>2
<1>8. ASSUME NEW t \in Thread, CountRecords(t)
      PROVE  CountInv' /\ RecordsWrittenBacked'
  <2>1. /\ pc[t] = "records" /\ pc'[t] = ret[t]
        /\ recordsWritten' = recordsWritten + recordCount[t]
        /\ uncounted'[t] = {}
        /\ \A u \in Thread : u # t => /\ uncounted'[u] = uncounted[u]
                                      /\ pc'[u] = pc[u]
        /\ UNCHANGED <<up, ret, toWrite, recordCount, stored>>
    BY <1>8 DEF CountRecords, Typed, TypeOK
  <2>2. CountInv'
    BY <1>c, <2>1 DEF CountInv, Counting
  <2>3. /\ recordCount[t] = Cardinality(uncounted[t])
        /\ uncounted[t] \subseteq stored
        /\ \A u \in Thread : u # t => uncounted[t] \cap uncounted[u] = {}
    BY <2>1 DEF CountInv, Counting
  <2> DEFINE A == stored \ Uncounted
             B == uncounted[t]
  <2>4. stored' \ Uncounted' = A \cup B /\ A \cap B = {}
    BY <2>1, <2>3, UncountedElements
  <2>5. IsFiniteSet(A) /\ IsFiniteSet(B)
    BY <1>b, <2>3, FS_Difference, FS_Subset
  <2>6. /\ Cardinality(A \cup B)
             = Cardinality(A) + Cardinality(B) - Cardinality(A \cap B)
        /\ Cardinality(A) \in Nat /\ Cardinality(B) \in Nat
    BY <2>5, FS_Union, FS_CardinalityType
  <2>7. Cardinality(A \cap B) = 0
    BY <2>4, FS_EmptySet
  <2>8. recordsWritten <= Cardinality(A)
    BY DEF RecordsWrittenBacked
  <2>9. recordsWritten' <= Cardinality(stored' \ Uncounted')
    <3> HIDE DEF A, B
    <3>1. recordsWritten' = recordsWritten + Cardinality(B)
      BY <2>1, <2>3 DEF B
    <3>2. \A w, a, b \in Nat : w <= a => w + b <= a + b - 0
      OBVIOUS
    <3> QED
      BY <1>a, <2>4, <2>6, <2>7, <2>8, <3>1, <3>2
  <2> QED
    BY <2>2, <2>9 DEF RecordsWrittenBacked
<1>9. CASE AutoTick \/ AutoStop \/ Signal \/ CloseBegin \/ CloseStop \/ CloseWait
  <2>1. UNCHANGED <<up, toWrite, recordCount, uncounted, recordsWritten, stored>>
    BY <1>9 DEF AutoTick, AutoStop, Signal, CloseBegin, CloseStop, CloseWait
  <2>2. RecordsWrittenBacked'
    BY <1>a, <2>1, SameCounted
  <2>3. \A t \in Thread : ret'[t] \notin {"insert"} \cup Counting
    BY <1>9, <1>c
       DEF AutoTick, AutoStop, Signal, CloseBegin, CloseStop, CloseWait,
           Typed, TypeOK, Counting
  <2>4. \A t \in Thread : /\ pc'[t] = "insert" => pc[t] = "insert"
                          /\ pc'[t] \in Counting <=> pc[t] \in Counting
    BY <1>9
       DEF AutoTick, AutoStop, Signal, CloseBegin, CloseStop, CloseWait,
           Typed, TypeOK, Counting
  <2>5. CountInv'
    BY <2>1, <2>3, <2>4, SameCount
  <2> QED
    BY <2>2, <2>5
<1>10. CASE Kill \/ ShutdownTimesOut \/ Exit
  BY <1>5, <1>10 DEF Kill, ShutdownTimesOut, Exit, Die
<1>11. CASE UNCHANGED vars
  <2>1. UNCHANGED <<up, pc, ret, toWrite, recordCount, uncounted,
                    recordsWritten, stored>>
    BY <1>11 DEF vars
  <2>2. RecordsWrittenBacked'
    BY <1>a, <2>1, SameCounted
  <2>3. CountInv'
    BY <1>c, <2>1, SameCount
  <2> QED
    BY <2>2, <2>3
<1> QED
  BY <1>1, <1>2, <1>3, <1>4, <1>6, <1>7, <1>8, <1>9, <1>10, <1>11
     DEF Next, FlushStep, InsertReturns

(* records_written claims no record that is not in the collection, however *)
(* many flushes overlap and whatever fails: the records it claims and the  *)
(* batches still to be counted are different stored records.               *)
THEOREM WrittenAreStored == SafetySpec => []RecordsWrittenBacked
<1>1. Init => AddedFinite /\ CountInv /\ RecordsWrittenBacked
  <2> SUFFICES ASSUME Init
               PROVE  AddedFinite /\ RecordsWrittenBacked
    BY CountInit
  <2>1. stored \ Uncounted = {} /\ added = {} /\ recordsWritten = 0
    BY DEF Init
  <2> QED
    BY <2>1, FS_EmptySet DEF RecordsWrittenBacked, AddedFinite
<1> QED
  BY <1>1, AddedFiniteStep, CountStep, AlwaysTyped, AlwaysPlace, PTL
     DEF SafetySpec
=============================================================================
