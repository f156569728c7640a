---------------------------- MODULE IngestProofs ----------------------------
(***************************************************************************)
(* Theorems about Ingest, for every set of handlers and requests and every *)
(* value of the bounds.                                                    *)
(***************************************************************************)
EXTENDS Ingest, RawStoreProofs, FiniteSetTheorems

-----------------------------------------------------------------------------
(* Facts about a step.                                                     *)
LEMMA RawType ==
  ASSUME TypeOK
  PROVE  /\ raw \in Seq(RawDoc)
         /\ Len(raw) \in Nat /\ Len(raw) <= MaxDocs /\ MaxDocs \in Nat
         /\ DOMAIN raw = 1..Len(raw)
         /\ \A d \in DOMAIN raw : raw[d] \in RawDoc
<1>1. raw \in Seq(RawDoc) /\ Len(raw) <= MaxDocs
  BY DEF TypeOK
<1>2. MaxDocs \in Nat
  BY BoundsAssumption
<1> QED
  BY <1>1, <1>2

LEMMA MarkDocs ==
  ASSUME TypeOK, NEW d \in DOMAIN raw, NEW p \in BOOLEAN, NEW e \in ErrorField,
         UpdateRaw(Updated(raw, d, p, e))
  PROVE  /\ SameDocs(raw, raw')
         /\ faults' \in Nat
         /\ \A i \in DOMAIN raw : raw'[i].present = raw[i].present
         /\ \A i \in DOMAIN raw : i # d => raw'[i] = raw[i]
         /\ raw'[d].processed = raw[d].processed \/ raw'[d].processed = p
<1>1. raw \in Seq(RawDoc) /\ faults \in Nat
  BY DEF TypeOK
<1>2. raw' = raw \/ raw' = Updated(raw, d, p, e)
  BY DEF UpdateRaw
<1>3. faults' \in Nat
  BY <1>1 DEF UpdateRaw, Fault
<1>4. CASE raw' = raw
  BY <1>1, <1>3, <1>4 DEF SameDocs
<1>5. CASE raw' = Updated(raw, d, p, e)
  <2>1. raw[d].present \/ Updated(raw, d, p, e) = raw
    BY DEF Updated
  <2> QED
    BY <1>1, <1>3, <1>5, <2>1, UpdatedDocs
<1> QED
  BY <1>2, <1>4, <1>5

LEMMA MarkedDocs ==
  ASSUME TypeOK, NEW d \in DOMAIN raw,
         \/ UpdateRaw(MarkedProcessed(raw, d))
         \/ UpdateRaw(MarkedError(raw, d))
         \/ UpdateRaw(Reprocessed(raw, d))
  PROVE  SameDocs(raw, raw') /\ faults' \in Nat
<1>1. raw[d].error \in ErrorField
  BY RawType DEF RawDoc
<1>2. CASE UpdateRaw(MarkedProcessed(raw, d))
  BY <1>1, <1>2, MarkDocs DEF MarkedProcessed
<1>3. CASE UpdateRaw(MarkedError(raw, d))
  BY <1>3, MarkDocs DEF MarkedError, ErrorField
<1>4. CASE UpdateRaw(Reprocessed(raw, d))
  BY <1>4, MarkDocs DEF Reprocessed, ErrorField
<1> QED
  BY <1>2, <1>3, <1>4

(* Only the sink changes the sets of records, and it forgets none.         *)
LEMMA HandOverRecords ==
  ASSUME TypeOK, NEW d, HandOver(d)
  PROVE  /\ pending' \subseteq Record /\ stored' \subseteq Record
         /\ lost' \subseteq Record
         /\ Records \subseteq Records'
         /\ RecordsOf(d)' # {}
<1> DEFINE r == <<d, HandOvers(d) + 1>>
<1>1. /\ r \in Record
      /\ pending' = pending \cup {r} /\ stored' = stored /\ lost' = lost
  BY DEF HandOver, Sink!Accept
<1>2. r \in Records' /\ r[1] = d
  BY <1>1 DEF Records
<1>3. r \in RecordsOf(d)'
  BY <1>2 DEF RecordsOf
<1> QED
  BY <1>1, <1>3 DEF Records, TypeOK

LEMMA FlushRecords ==
  ASSUME TypeOK, NEW S, NEW L, Sink!Settle(S, L)
  PROVE  /\ pending' \subseteq Record /\ stored' \subseteq Record
         /\ lost' \subseteq Record
         /\ Records \subseteq Records'
<1>1. /\ S \subseteq pending /\ L \subseteq pending
      /\ pending' = pending \ (S \cup L)
      /\ stored' = stored \cup S /\ lost' = lost \cup L
  BY DEF Sink!Settle
<1>2. pending \subseteq Record /\ stored \subseteq Record /\ lost \subseteq Record
  BY DEF TypeOK
<1> QED
  BY <1>1, <1>2 DEF Records

LEMMA CrashRecords ==
  ASSUME TypeOK, Crash
  PROVE  /\ pending' \subseteq Record /\ stored' \subseteq Record
         /\ lost' \subseteq Record
         /\ Records \subseteq Records'
<1>1. PICK S \in SUBSET pending :
        stored' = stored \cup S /\ lost' = lost \cup (pending \ S)
  BY DEF Crash
<1>2. pending' = {}
  BY DEF Crash
<1>3. pending \subseteq Record /\ stored \subseteq Record /\ lost \subseteq Record
  BY DEF TypeOK
<1> QED
  BY <1>1, <1>2, <1>3 DEF Records
-----------------------------------------------------------------------------
LEMMA TypeInit == Init => TypeOK
BY BoundsAssumption DEF Init, TypeOK, Sink!Init, Busy, RawDoc

LEMMA TypeStep == TypeOK /\ [Next]_vars => TypeOK'
<1> SUFFICES ASSUME TypeOK, [Next]_vars PROVE TypeOK'
  OBVIOUS
<1> USE DEF handlerVars, loopVars, counters, records, budget, HandlerGoto,
           HandlerReturns
<1>1. ASSUME NEW h \in Handler, NEW q \in Request, StoreRaw(h, q)
      PROVE  TypeOK'
  <2>1. /\ raw' \in Seq(RawDoc) /\ Len(raw') = Len(raw) + 1
        /\ DOMAIN raw' = DOMAIN raw \cup {Len(raw) + 1}
    BY <1>1, InsertedDocs DEF StoreRaw, TypeOK
  <2>2. Len(raw) \in Nat /\ Len(raw') <= MaxDocs
    BY <1>1, <2>1, RawType DEF StoreRaw
  <2>3. \A g \in Busy' : hdoc'[g] \in DOMAIN raw'
    BY <1>1, <2>1 DEF StoreRaw, TypeOK, Busy
  <2>4. hpc' \in [Handler -> {"idle", "process", "mark", "markError"}]
    BY <1>1 DEF StoreRaw, TypeOK
  <2>5. hdoc' \in [Handler -> Nat]
    BY <1>1, <2>2 DEF StoreRaw, TypeOK
  <2>6. receivedCount' \in Nat /\ rawCount' \in Nat
    BY <1>1 DEF StoreRaw, TypeOK
  <2>7. todo' \subseteq DOMAIN raw' /\ asked' \subseteq DOMAIN raw'
    BY <1>1, <2>1 DEF StoreRaw, TypeOK
  <2> QED
    BY <1>1, <2>1, <2>2, <2>3, <2>4, <2>5, <2>6, <2>7 DEF StoreRaw, TypeOK
<1>2. ASSUME NEW h \in Handler, NEW q \in Request, StoreRawFails(h, q)
      PROVE  TypeOK'
  <2>1. raw' = raw \/ (Len(raw) < MaxDocs /\ raw' = Inserted(raw, q))
    BY <1>2 DEF StoreRawFails
  <2>2. /\ raw' \in Seq(RawDoc) /\ Len(raw') <= MaxDocs
        /\ DOMAIN raw \subseteq DOMAIN raw'
    <3>1. CASE raw' = raw
      BY <3>1, RawType
    <3>2. CASE Len(raw) < MaxDocs /\ raw' = Inserted(raw, q)
      <4>1. raw \in Seq(RawDoc) /\ Len(raw) \in Nat /\ MaxDocs \in Nat
        BY RawType
      <4>2. /\ raw' \in Seq(RawDoc) /\ Len(raw') = Len(raw) + 1
            /\ DOMAIN raw' = DOMAIN raw \cup {Len(raw) + 1}
        BY <3>2, <4>1, InsertedDocs
      <4> QED
        BY <3>2, <4>1, <4>2
    <3> QED
      BY <2>1, <3>1, <3>2
  <2>3. receivedCount' \in Nat /\ failedCount' \in Nat /\ faults' \in Nat
    BY <1>2 DEF StoreRawFails, TypeOK, Fault
  <2>4. \A g \in Busy' : hdoc'[g] \in DOMAIN raw'
    BY <1>2, <2>2 DEF StoreRawFails, TypeOK, Busy
  <2>5. todo' \subseteq DOMAIN raw' /\ asked' \subseteq DOMAIN raw'
    BY <1>2, <2>2 DEF StoreRawFails, TypeOK
  <2> QED
    BY <1>2, <2>2, <2>3, <2>4, <2>5 DEF StoreRawFails, TypeOK
<1>3. ASSUME NEW h \in Handler, Process(h) PROVE TypeOK'
  <2>1. /\ pending' \subseteq Record /\ stored' \subseteq Record
        /\ lost' \subseteq Record
    BY <1>3, HandOverRecords DEF Process
  <2> QED
    BY <1>3, <2>1 DEF Process, TypeOK, Busy
<1>4. ASSUME NEW h \in Handler, ProcessFails(h) PROVE TypeOK'
  BY <1>4 DEF ProcessFails, TypeOK, Busy
<1>5. ASSUME NEW h \in Handler, HandlerPanics(h) PROVE TypeOK'
  BY <1>5 DEF HandlerPanics, Fault, TypeOK, Busy
<1>6. ASSUME NEW h \in Handler, Finish(h) \/ FinishFailed(h) PROVE TypeOK'
  <2>1. hdoc[h] \in DOMAIN raw
    BY <1>6 DEF Finish, FinishFailed, TypeOK, Busy
  <2>2. SameDocs(raw, raw') /\ faults' \in Nat
    BY <1>6, <2>1, MarkedDocs DEF Finish, FinishFailed
  <2>3. acked' \subseteq Request
    BY <1>6, <2>1, RawType DEF Finish, FinishFailed, TypeOK, RawDoc
  <2>4. processedCount' \in Nat /\ failedCount' \in Nat
    BY <1>6 DEF Finish, FinishFailed, TypeOK
  <2>5. hpc' \in [Handler -> {"idle", "process", "mark", "markError"}]
    BY <1>6 DEF Finish, FinishFailed, TypeOK
  <2>6. /\ hdoc' \in [Handler -> Nat]
        /\ \A g \in Busy' : hdoc'[g] = hdoc[g] /\ g \in Busy
    BY <1>6 DEF Finish, FinishFailed, TypeOK, Busy
  <2> QED
    BY <1>6, <2>2, <2>3, <2>4, <2>5, <2>6
       DEF Finish, FinishFailed, TypeOK, SameDocs
<1>7. CASE Fetch
  <2>1. todo' \subseteq DOMAIN raw
    BY <1>7 DEF Fetch, GetUnprocessed, Unprocessed, Present
  <2> QED
    BY <1>7, <2>1 DEF Fetch, TypeOK, Busy
<1>8. ASSUME NEW d \in todo, LoopProcess(d) PROVE TypeOK'
  <2>1. /\ pending' \subseteq Record /\ stored' \subseteq Record
        /\ lost' \subseteq Record
    BY <1>8, HandOverRecords DEF LoopProcess
  <2> QED
    BY <1>8, <2>1 DEF LoopProcess, LoopAt, TypeOK, Busy
<1>9. ASSUME NEW d \in todo, LoopProcessFails(d) PROVE TypeOK'
  BY <1>9 DEF LoopProcessFails, LoopAt, TypeOK, Busy
<1>10. ASSUME NEW d \in todo, LoopFinish(d) \/ LoopFinishFailed(d)
       PROVE  TypeOK'
  <2>1. d \in DOMAIN raw
    BY DEF TypeOK
  <2>2. SameDocs(raw, raw') /\ faults' \in Nat
    BY <1>10, <2>1, MarkedDocs DEF LoopFinish, LoopFinishFailed
  <2>3. /\ lpc' \in {"wait", "process", "mark", "markError"}
        /\ lpc' # "wait" <=> todo' # {}
        /\ todo' \subseteq todo
    BY <1>10 DEF LoopFinish, LoopFinishFailed, LoopNext
  <2>4. processedCount' \in Nat
    BY <1>10 DEF LoopFinish, LoopFinishFailed, TypeOK
  <2> QED
    BY <1>10, <2>2, <2>3, <2>4
       DEF LoopFinish, LoopFinishFailed, TypeOK, SameDocs, Busy
<1>11. CASE Cleanup
  <2>1. SameDocs(raw, raw')
    BY <1>11, CleanedDocs, RawType DEF Cleanup
  <2> QED
    BY <1>11, <2>1 DEF Cleanup, TypeOK, SameDocs, Busy
<1>12. ASSUME NEW d \in DOMAIN raw, ReprocessRawData(d) PROVE TypeOK'
  <2>1. SameDocs(raw, raw') /\ faults' \in Nat
    BY <1>12, MarkedDocs DEF ReprocessRawData
  <2>2. reprocesses' \in Nat /\ asked' \subseteq DOMAIN raw
    BY <1>12 DEF ReprocessRawData, TypeOK
  <2> QED
    BY <1>12, <2>1, <2>2 DEF ReprocessRawData, TypeOK, SameDocs, Busy
<1>13. ASSUME NEW S, NEW L, Flush(S, L) PROVE TypeOK'
  <2>1. /\ pending' \subseteq Record /\ stored' \subseteq Record
        /\ lost' \subseteq Record
    BY <1>13, FlushRecords DEF Flush
  <2>2. faults' \in Nat
    BY <1>13 DEF Flush, Fault, TypeOK
  <2> QED
    BY <1>13, <2>1, <2>2 DEF Flush, TypeOK, Busy
<1>14. CASE MappingLost \/ MappingBack \/ Restart
  <2>1. gaps' \in Nat
    BY <1>14 DEF MappingLost, MappingBack, Restart, TypeOK
  <2>3. up' \in BOOLEAN /\ active' \in BOOLEAN
    BY <1>14, Zenon DEF MappingLost, MappingBack, Restart, TypeOK
  <2>2. UNCHANGED <<raw, handlerVars, loopVars, counters, records, faults,
                    crashes, reprocesses, acked, asked>>
    BY <1>14 DEF MappingLost, MappingBack, Restart
  <2> QED
    BY <2>1, <2>2, <2>3 DEF TypeOK, Busy
<1>15. CASE Crash
  <2>1. /\ pending' \subseteq Record /\ stored' \subseteq Record
        /\ lost' \subseteq Record
    BY <1>15, CrashRecords
  <2>2. Busy' = {} /\ hpc' \in [Handler -> {"idle", "process", "mark",
                                             "markError"}]
    BY <1>15 DEF Crash, Busy
  <2>3. crashes' \in Nat
    BY <1>15 DEF Crash, TypeOK
  <2>4. /\ up' \in BOOLEAN
        /\ lpc' = "wait" /\ todo' = {}
        /\ receivedCount' = 0 /\ rawCount' = 0
        /\ processedCount' = 0 /\ failedCount' = 0
        /\ UNCHANGED <<raw, active, faults, gaps, reprocesses, acked, asked>>
    BY <1>15, Zenon DEF Crash
  <2>5. hdoc' \in [Handler -> Nat]
    BY <1>15 DEF Crash
  <2> QED
    BY <2>1, <2>2, <2>3, <2>4, <2>5 DEF TypeOK
<1>16. CASE UNCHANGED vars
  BY <1>16 DEF vars, TypeOK, Busy
<1> QED
  BY <1>1, <1>2, <1>3, <1>4, <1>5, <1>6, <1>7, <1>8, <1>9, <1>10, <1>11,
     <1>12, <1>13, <1>14, <1>15, <1>16
     DEF Next, HandlerStep, LoopStep

(* Every variable keeps its type.                                          *)
THEOREM IngestTypeCorrect == SafetySpec => []TypeOK
BY TypeInit, TypeStep, PTL DEF SafetySpec
-----------------------------------------------------------------------------
(* No step forgets a record: the sink only moves them.                     *)
LEMMA RecordsGrow ==
  ASSUME TypeOK, [Next]_vars
  PROVE  \A d : RecordsOf(d) \subseteq RecordsOf(d)'
<1>1. Records \subseteq Records'
  <2> USE DEF records, Records
  <2>1. ASSUME NEW h \in Handler, NEW q \in Request,
               StoreRaw(h, q) \/ StoreRawFails(h, q)
        PROVE  Records \subseteq Records'
    BY <2>1 DEF StoreRaw, StoreRawFails
  <2>2. ASSUME NEW h \in Handler, HandlerStep(h) \/ HandlerPanics(h)
        PROVE  Records \subseteq Records'
    BY <2>2, HandOverRecords
       DEF HandlerStep, Process, ProcessFails, Finish, FinishFailed,
           HandlerPanics
  <2>3. ASSUME NEW d \in todo, LoopStep(d) PROVE Records \subseteq Records'
    BY <2>3, HandOverRecords
       DEF LoopStep, LoopProcess, LoopProcessFails, LoopFinish,
           LoopFinishFailed
  <2>4. CASE Fetch \/ Cleanup \/ MappingLost \/ MappingBack \/ Restart
    BY <2>4 DEF Fetch, Cleanup, MappingLost, MappingBack, Restart
  <2>5. ASSUME NEW d \in DOMAIN raw, ReprocessRawData(d)
        PROVE  Records \subseteq Records'
    BY <2>5 DEF ReprocessRawData
  <2>6. ASSUME NEW S, NEW L, Flush(S, L) PROVE Records \subseteq Records'
    BY <2>6, FlushRecords DEF Flush
  <2>7. CASE Crash
    BY <2>7, CrashRecords
  <2>8. CASE UNCHANGED vars
    BY <2>8 DEF vars
  <2> QED
    BY <2>1, <2>2, <2>3, <2>4, <2>5, <2>6, <2>7, <2>8 DEF Next
<1> QED
  BY <1>1 DEF RecordsOf

(* Replayable is not inductive: MarkProcessed does not look whether there  *)
(* is a record.  It is called only where there is one.                     *)
MarkInv ==
  /\ \A h \in Handler : hpc[h] = "mark" => RecordsOf(hdoc[h]) # {}
  /\ lpc = "mark" => \A d \in todo : Oldest(d) => RecordsOf(d) # {}

ReplayInv == Replayable /\ MarkInv

(* A step that makes no document processed or absent, but for the          *)
(* processed ones and those with a record, keeps Replayable.               *)
LEMMA ReplayKept ==
  ASSUME TypeOK, Replayable, [Next]_vars,
         DOMAIN raw \subseteq DOMAIN raw',
         \A d \in DOMAIN raw : d \in Unprocessed(raw) =>
           d \in Unprocessed(raw') \/ RecordsOf(d) # {},
         \A d \in DOMAIN raw' \ DOMAIN raw : d \in Unprocessed(raw')
  PROVE  Replayable'
BY RecordsGrow DEF Replayable

LEMMA ReplayStep ==
  TypeOK /\ TypeOK' /\ ReplayInv /\ [Next]_vars => ReplayInv'
<1> SUFFICES ASSUME TypeOK, TypeOK', ReplayInv, [Next]_vars PROVE ReplayInv'
  OBVIOUS
<1>a. \A d : RecordsOf(d) \subseteq RecordsOf(d)'
  BY RecordsGrow
<1> USE DEF handlerVars, loopVars, HandlerGoto, HandlerReturns, ReplayInv
<1>b. ASSUME UNCHANGED raw PROVE Replayable'
  BY <1>b, ReplayKept
<1>c. ASSUME UNCHANGED <<hpc, hdoc, lpc, todo>> PROVE MarkInv'
  BY <1>a, <1>c DEF MarkInv, Oldest
<1>d. ASSUME NEW d \in DOMAIN raw,
             UpdateRaw(MarkedError(raw, d)) \/ UpdateRaw(Reprocessed(raw, d))
      PROVE  Replayable'
  <2>1. /\ SameDocs(raw, raw')
        /\ \A i \in DOMAIN raw : raw'[i].present = raw[i].present
        /\ \A i \in DOMAIN raw : i # d => raw'[i] = raw[i]
        /\ raw'[d].processed = raw[d].processed \/ raw'[d].processed = FALSE
    BY <1>d, MarkDocs DEF MarkedError, Reprocessed, ErrorField
  <2>2. \A i \in DOMAIN raw : i \in Unprocessed(raw) => i \in Unprocessed(raw')
    BY <2>1 DEF SameDocs, Unprocessed, Present
  <2> QED
    BY <2>1, <2>2, ReplayKept DEF SameDocs
<1>e. ASSUME NEW d \in DOMAIN raw, UpdateRaw(MarkedProcessed(raw, d)),
             RecordsOf(d) # {}
      PROVE  Replayable'
  <2>1. raw[d].error \in ErrorField
    BY RawType DEF RawDoc
  <2>2. /\ SameDocs(raw, raw')
        /\ \A i \in DOMAIN raw : i # d => raw'[i] = raw[i]
    BY <1>e, <2>1, MarkDocs DEF MarkedProcessed
  <2>3. \A i \in DOMAIN raw : i # d /\ i \in Unprocessed(raw)
                              => i \in Unprocessed(raw')
    BY <2>2 DEF SameDocs, Unprocessed, Present
  <2> QED
    BY <1>e, <2>2, <2>3, ReplayKept DEF SameDocs
<1>f. ASSUME NEW q \in Request, raw' = Inserted(raw, q) PROVE Replayable'
  <2>1. /\ DOMAIN raw' = DOMAIN raw \cup {Len(raw) + 1}
        /\ \A i \in DOMAIN raw : raw'[i] = raw[i]
        /\ raw'[Len(raw) + 1].present /\ ~raw'[Len(raw) + 1].processed
    <3>1. /\ DOMAIN raw' = DOMAIN raw \cup {Len(raw) + 1}
          /\ \A i \in DOMAIN raw : raw'[i] = raw[i]
          /\ raw'[Len(raw) + 1] = NewDoc(q)
      BY <1>f, InsertedDocs, RawType
    <3> QED
      BY <3>1 DEF NewDoc
  <2>2. \A i \in DOMAIN raw : i \in Unprocessed(raw) => i \in Unprocessed(raw')
    BY <2>1 DEF Unprocessed, Present
  <2>3. \A i \in DOMAIN raw' \ DOMAIN raw : i \in Unprocessed(raw')
    BY <2>1 DEF Unprocessed, Present
  <2> QED
    BY <2>1, <2>2, <2>3, ReplayKept
<1>1. ASSUME NEW h \in Handler, NEW q \in Request, StoreRaw(h, q)
      PROVE  ReplayInv'
  <2>1. Replayable'
    BY <1>1, <1>f DEF StoreRaw
  <2>2. MarkInv'
    BY <1>1, <1>a DEF StoreRaw, MarkInv, Oldest, TypeOK
  <2> QED
    BY <2>1, <2>2
<1>2. ASSUME NEW h \in Handler, NEW q \in Request, StoreRawFails(h, q)
      PROVE  ReplayInv'
  <2>1. raw' = raw \/ raw' = Inserted(raw, q)
    BY <1>2 DEF StoreRawFails
  <2> QED
    BY <1>2, <2>1, <1>b, <1>c, <1>f DEF StoreRawFails
<1>3. ASSUME NEW h \in Handler, Process(h) PROVE ReplayInv'
  <2>1. RecordsOf(hdoc[h])' # {}
    BY <1>3, HandOverRecords DEF Process, RecordsOf
  <2>2. MarkInv'
    BY <1>3, <2>1, <1>a DEF Process, MarkInv, Oldest, TypeOK
  <2> QED
    BY <1>3, <2>2, <1>b DEF Process
<1>4. ASSUME NEW h \in Handler, ProcessFails(h) \/ HandlerPanics(h)
      PROVE  ReplayInv'
  <2>1. MarkInv'
    BY <1>4, <1>a DEF ProcessFails, HandlerPanics, MarkInv, Oldest, TypeOK
  <2> QED
    BY <1>4, <2>1, <1>b DEF ProcessFails, HandlerPanics
<1>5. ASSUME NEW h \in Handler, Finish(h) \/ FinishFailed(h) PROVE ReplayInv'
  <2>1. hdoc[h] \in DOMAIN raw
    BY <1>5 DEF Finish, FinishFailed, TypeOK, Busy
  <2>2. Replayable'
    BY <1>5, <2>1, <1>d, <1>e DEF Finish, FinishFailed, MarkInv
  <2>3. MarkInv'
    BY <1>5, <1>a DEF Finish, FinishFailed, MarkInv, Oldest, TypeOK
  <2> QED
    BY <2>2, <2>3
<1>6. CASE Fetch
  <2>1. MarkInv'
    BY <1>6, <1>a DEF Fetch, MarkInv
  <2> QED
    BY <1>6, <2>1, <1>b DEF Fetch
<1>7. ASSUME NEW d \in todo, LoopProcess(d) PROVE ReplayInv'
  <2>1. RecordsOf(d)' # {}
    BY <1>7, HandOverRecords DEF LoopProcess, RecordsOf
  <2>2. \A e \in todo : Oldest(e) => e = d
    BY <1>7, RawType DEF LoopProcess, LoopAt, Oldest, TypeOK
  <2>3. MarkInv'
    BY <1>7, <2>1, <2>2, <1>a DEF LoopProcess, MarkInv, Oldest
  <2> QED
    BY <1>7, <2>3, <1>b DEF LoopProcess
<1>8. ASSUME NEW d \in todo, LoopProcessFails(d) PROVE ReplayInv'
  <2>1. MarkInv'
    BY <1>8, <1>a DEF LoopProcessFails, MarkInv
  <2> QED
    BY <1>8, <2>1, <1>b DEF LoopProcessFails
<1>9. ASSUME NEW d \in todo, LoopFinish(d) \/ LoopFinishFailed(d)
      PROVE  ReplayInv'
  <2>1. d \in DOMAIN raw
    BY DEF TypeOK
  <2>2. Replayable'
    BY <1>9, <2>1, <1>d, <1>e
       DEF LoopFinish, LoopFinishFailed, LoopAt, MarkInv
  <2>3. MarkInv'
    BY <1>9, <1>a DEF LoopFinish, LoopFinishFailed, LoopNext, MarkInv
  <2> QED
    BY <2>2, <2>3
<1>10. CASE Cleanup
  <2>1. PICK c \in DOMAIN raw : raw' = Cleaned(raw, c)
    BY <1>10 DEF Cleanup
  <2>2. /\ SameDocs(raw, raw')
        /\ \A i \in DOMAIN raw :
             /\ raw'[i].processed = raw[i].processed
             /\ ~raw[i].processed => raw'[i].present = raw[i].present
    BY <2>1, CleanedDocs, RawType
  <2>3. \A i \in DOMAIN raw : i \in Unprocessed(raw) => i \in Unprocessed(raw')
    BY <2>2 DEF SameDocs, Unprocessed, Present
  <2>4. Replayable'
    BY <2>2, <2>3, ReplayKept DEF SameDocs
  <2> QED
    BY <1>10, <2>4, <1>c DEF Cleanup
<1>11. ASSUME NEW d \in DOMAIN raw, ReprocessRawData(d) PROVE ReplayInv'
  BY <1>11, <1>c, <1>d DEF ReprocessRawData
<1>12. ASSUME NEW S, NEW L, Flush(S, L) PROVE ReplayInv'
  BY <1>12, <1>b, <1>c DEF Flush
<1>13. CASE MappingLost \/ MappingBack \/ Restart
  BY <1>13, <1>b, <1>c DEF MappingLost, MappingBack, Restart
<1>14. CASE Crash
  <2>1. MarkInv'
    BY <1>14 DEF Crash, MarkInv
  <2> QED
    BY <1>14, <2>1, <1>b DEF Crash
<1>15. CASE UNCHANGED vars
  BY <1>15, <1>b, <1>c DEF vars
<1> QED
  BY <1>1, <1>2, <1>3, <1>4, <1>5, <1>6, <1>7, <1>8, <1>9, <1>10, <1>11,
     <1>12, <1>13, <1>14, <1>15
     DEF Next, HandlerStep, LoopStep

(* Whatever the number of handlers, failures, crashes and requests to      *)
(* reprocess: a stored payload without a record is still there to be       *)
(* fetched.                                                                *)
THEOREM StoredIsReplayable == SafetySpec => []Replayable
<1>1. Init => ReplayInv
  BY DEF Init, ReplayInv, Replayable, MarkInv
<1>2. ReplayInv => Replayable
  BY DEF ReplayInv
<1> QED
  BY <1>1, <1>2, ReplayStep, IngestTypeCorrect, PTL DEF SafetySpec
-----------------------------------------------------------------------------
(* No document changes its request or its position.                        *)
LEMMA DocsStay ==
  ASSUME TypeOK, [Next]_vars
  PROVE  \A d \in DOMAIN raw : d \in DOMAIN raw' /\ raw'[d].req = raw[d].req
<1> DEFINE Stay == \A d \in DOMAIN raw : d \in DOMAIN raw'
                                        /\ raw'[d].req = raw[d].req
<1>1. ASSUME NEW h \in Handler, NEW q \in Request,
             StoreRaw(h, q) \/ StoreRawFails(h, q)
      PROVE  Stay
  <2>1. raw' = raw \/ raw' = Inserted(raw, q)
    BY <1>1 DEF StoreRaw, StoreRawFails
  <2>2. CASE raw' = raw
    BY <2>2
  <2>3. CASE raw' = Inserted(raw, q)
    <3>1. raw \in Seq(RawDoc)
      BY RawType
    <3>2. /\ DOMAIN raw' = DOMAIN raw \cup {Len(raw) + 1}
          /\ \A i \in DOMAIN raw : raw'[i] = raw[i]
      BY <2>3, <3>1, InsertedDocs
    <3> QED
      BY <3>2
  <2> QED
    BY <2>1, <2>2, <2>3
<1>2. ASSUME NEW h \in Handler, HandlerStep(h) \/ HandlerPanics(h) PROVE Stay
  <2>1. CASE Process(h) \/ ProcessFails(h) \/ HandlerPanics(h)
    BY <2>1 DEF Process, ProcessFails, HandlerPanics
  <2>2. CASE Finish(h) \/ FinishFailed(h)
    <3>1. hdoc[h] \in DOMAIN raw
      BY <2>2 DEF Finish, FinishFailed, TypeOK, Busy
    <3> QED
      BY <2>2, <3>1, MarkedDocs DEF Finish, FinishFailed, SameDocs
  <2> QED
    BY <1>2, <2>1, <2>2 DEF HandlerStep
<1>3. ASSUME NEW d \in todo, LoopStep(d) PROVE Stay
  <2>1. CASE LoopProcess(d) \/ LoopProcessFails(d)
    BY <2>1 DEF LoopProcess, LoopProcessFails
  <2>2. CASE LoopFinish(d) \/ LoopFinishFailed(d)
    <3>1. d \in DOMAIN raw
      BY DEF TypeOK
    <3> QED
      BY <2>2, <3>1, MarkedDocs DEF LoopFinish, LoopFinishFailed, SameDocs
  <2> QED
    BY <1>3, <2>1, <2>2 DEF LoopStep
<1>4. CASE Cleanup
  <2>1. PICK c \in DOMAIN raw : raw' = Cleaned(raw, c)
    BY <1>4 DEF Cleanup
  <2>2. c \in Nat /\ raw \in Seq(RawDoc)
    BY RawType
  <2>3. SameDocs(raw, raw')
    BY <2>1, <2>2, CleanedDocs
  <2> QED
    BY <2>3 DEF SameDocs
<1>5. ASSUME NEW d \in DOMAIN raw, ReprocessRawData(d) PROVE Stay
  BY <1>5, MarkedDocs DEF ReprocessRawData, SameDocs
<1>6. ASSUME NEW S, NEW L, Flush(S, L) PROVE Stay
  BY <1>6 DEF Flush
<1>7. CASE Fetch \/ MappingLost \/ MappingBack \/ Crash \/ Restart
  BY <1>7 DEF Fetch, MappingLost, MappingBack, Crash, Restart
<1>8. CASE UNCHANGED vars
  BY <1>8 DEF vars
<1> QED
  BY <1>1, <1>2, <1>3, <1>4, <1>5, <1>6, <1>7, <1>8 DEF Next

LEMMA AckedStep ==
  TypeOK /\ MarkInv /\ AckedIsBacked /\ [Next]_vars => AckedIsBacked'
<1> SUFFICES ASSUME TypeOK, MarkInv, AckedIsBacked, [Next]_vars,
                    NEW q \in acked'
             PROVE  \E d \in DOMAIN raw' :
                      raw'[d].req = q /\ (StrictMode => RecordsOf(d)' # {})
  BY DEF AckedIsBacked
<1>1. CASE q \in acked
  BY <1>1, DocsStay, RecordsGrow DEF AckedIsBacked
<1>2. CASE q \notin acked
  <2>1. PICK h \in Handler : Finish(h) \/ FinishFailed(h)
    BY <1>2
       DEF Next, vars, StoreRaw, StoreRawFails, HandlerStep, Process,
           ProcessFails, HandlerPanics, Fetch, LoopStep, LoopProcess,
           LoopProcessFails, LoopFinish, LoopFinishFailed, Cleanup,
           ReprocessRawData, Flush, MappingLost, MappingBack, Crash, Restart
  <2>2. hdoc[h] \in DOMAIN raw
    BY <2>1 DEF Finish, FinishFailed, TypeOK, Busy
  <2>3. raw[hdoc[h]].req = q
    BY <1>2, <2>1 DEF Finish, FinishFailed
  <2>4. StrictMode => RecordsOf(hdoc[h]) # {}
    BY <1>2, <2>1 DEF Finish, FinishFailed, MarkInv
  <2> QED
    BY <2>2, <2>3, <2>4, DocsStay, RecordsGrow
<1> QED
  BY <1>1, <1>2

(* A success told to a client is backed by a document, and under           *)
(* StrictMode by a record, for ever.                                       *)
THEOREM SuccessIsBacked == SafetySpec => []AckedIsBacked
<1>1. Init => AckedIsBacked /\ ReplayInv
  BY DEF Init, AckedIsBacked, ReplayInv, Replayable, MarkInv
<1>2. ReplayInv => MarkInv
  BY DEF ReplayInv
<1> QED
  BY <1>1, <1>2, AckedStep, ReplayStep, IngestTypeCorrect, PTL DEF SafetySpec
-----------------------------------------------------------------------------
(* Duplicates.  The set of records is finite, each step adds at most one   *)
(* record, and only batch.Add does.                                        *)
FiniteInv ==
  /\ IsFiniteSet(Records)
  /\ \A r \in Records : r[1] \in DOMAIN raw

LEMMA HandOverAdds ==
  ASSUME NEW d, HandOver(d)
  PROVE  \E r : r \notin Records /\ r[1] = d /\ Records' = Records \cup {r}
<1> DEFINE r == <<d, HandOvers(d) + 1>>
<1>1. /\ r \notin Records
      /\ pending' = pending \cup {r} /\ stored' = stored /\ lost' = lost
  BY DEF HandOver, Sink!Accept, Records
<1>2. r[1] = d /\ Records' = Records \cup {r}
  BY <1>1 DEF Records
<1> QED
  BY <1>1, <1>2

LEMMA RecordsKept ==
  ASSUME [Next]_vars,
         \A h \in Handler : ~Process(h),
         \A d \in todo : ~LoopProcess(d)
  PROVE  Records' = Records
<1> USE DEF records, Records
<1>1. ASSUME NEW h \in Handler, NEW q \in Request,
             StoreRaw(h, q) \/ StoreRawFails(h, q)
      PROVE  Records' = Records
  BY <1>1 DEF StoreRaw, StoreRawFails
<1>2. ASSUME NEW h \in Handler, HandlerStep(h) \/ HandlerPanics(h)
      PROVE  Records' = Records
  BY <1>2 DEF HandlerStep, ProcessFails, Finish, FinishFailed, HandlerPanics
<1>3. ASSUME NEW d \in todo, LoopStep(d) PROVE Records' = Records
  BY <1>3 DEF LoopStep, LoopProcessFails, LoopFinish, LoopFinishFailed
<1>4. CASE Fetch \/ Cleanup \/ MappingLost \/ MappingBack \/ Restart
  BY <1>4 DEF Fetch, Cleanup, MappingLost, MappingBack, Restart
<1>5. ASSUME NEW d \in DOMAIN raw, ReprocessRawData(d)
      PROVE  Records' = Records
  BY <1>5 DEF ReprocessRawData
<1>6. ASSUME NEW S, NEW L, Flush(S, L) PROVE Records' = Records
  BY <1>6 DEF Flush, Sink!Settle
<1>7. CASE Crash
  <2>1. PICK S \in SUBSET pending :
          stored' = stored \cup S /\ lost' = lost \cup (pending \ S)
    BY <1>7 DEF Crash
  <2> QED
    BY <1>7, <2>1 DEF Crash
<1>8. CASE UNCHANGED vars
  BY <1>8 DEF vars
<1> QED
  BY <1>1, <1>2, <1>3, <1>4, <1>5, <1>6, <1>7, <1>8 DEF Next

LEMMA FiniteStep == TypeOK /\ FiniteInv /\ [Next]_vars => FiniteInv'
<1> SUFFICES ASSUME TypeOK, FiniteInv, [Next]_vars PROVE FiniteInv'
  OBVIOUS
<1>1. \A d \in DOMAIN raw : d \in DOMAIN raw'
  BY DocsStay
<1>2. ASSUME NEW d \in DOMAIN raw, HandOver(d) PROVE FiniteInv'
  <2>1. PICK r : r[1] = d /\ Records' = Records \cup {r}
    BY <1>2, HandOverAdds
  <2>2. IsFiniteSet(Records \cup {r})
    BY FS_AddElement DEF FiniteInv
  <2> QED
    BY <1>1, <2>1, <2>2 DEF FiniteInv
<1>3. ASSUME NEW h \in Handler, Process(h) PROVE FiniteInv'
  <2>1. hdoc[h] \in DOMAIN raw
    BY <1>3 DEF Process, TypeOK, Busy
  <2> QED
    BY <1>2, <1>3, <2>1 DEF Process
<1>4. ASSUME NEW d \in todo, LoopProcess(d) PROVE FiniteInv'
  BY <1>2, <1>4 DEF LoopProcess, TypeOK
<1>5. CASE Records' = Records
  BY <1>1, <1>5 DEF FiniteInv
<1> QED
  BY <1>3, <1>4, <1>5, RecordsKept

LEMMA FiniteInit == Init => FiniteInv
<1> SUFFICES ASSUME Init PROVE FiniteInv
  OBVIOUS
<1>1. Records = {}
  BY DEF Init, Sink!Init, Records
<1> QED
  BY <1>1, FS_EmptySet DEF FiniteInv

LEMMA HandOversNat ==
  ASSUME FiniteInv PROVE \A d : IsFiniteSet(RecordsOf(d)) /\ HandOvers(d) \in Nat
<1>1. \A d : RecordsOf(d) \subseteq Records
  BY DEF RecordsOf
<1>2. \A d : IsFiniteSet(RecordsOf(d))
  BY <1>1, FS_Subset DEF FiniteInv
<1> QED
  BY <1>2, FS_CardinalityType DEF HandOvers

(* A hand-over makes one record more of its document, and of no other.     *)
LEMMA HandOversStep ==
  ASSUME FiniteInv, NEW d, HandOver(d)
  PROVE  /\ HandOvers(d)' = HandOvers(d) + 1
         /\ \A e : e # d => HandOvers(e)' = HandOvers(e)
<1>1. PICK r : r \notin Records /\ r[1] = d /\ Records' = Records \cup {r}
  BY HandOverAdds
<1>2. \A e : e # d => RecordsOf(e)' = RecordsOf(e)
  BY <1>1 DEF RecordsOf
<1>3. RecordsOf(d)' = RecordsOf(d) \cup {r} /\ r \notin RecordsOf(d)
  BY <1>1 DEF RecordsOf
<1>4. IsFiniteSet(RecordsOf(d))
  BY HandOversNat
<1>5. Cardinality(RecordsOf(d) \cup {r}) = Cardinality(RecordsOf(d)) + 1
  BY <1>3, <1>4, FS_AddElement
<1> QED
  BY <1>2, <1>3, <1>5 DEF HandOvers
-----------------------------------------------------------------------------
(* DuplicatesBounded is not inductive either.  Who may still make a record *)
(* of d: the handler that has not processed it, or came to no record, and  *)
(* the loop, which has fetched d, or can fetch it as it is unprocessed.    *)
Awaiting(d) ==
  \E h \in Handler : hpc[h] \in {"process", "markError"} /\ hdoc[h] = d

Refetched(d) ==
  IF d \in todo THEN ~(lpc = "mark" /\ Oldest(d)) ELSE ~raw[d].processed

HandlerDue(d) == IF Awaiting(d) THEN 1 ELSE 0
LoopDue(d)    == IF Refetched(d) THEN 1 ELSE 0

Spent == faults + crashes + reprocesses

(* The records made and due together are within the bound.                 *)
DueAt(d) == HandOvers(d) + HandlerDue(d) + LoopDue(d) <= 2 + Spent
DueInv == \A d \in DOMAIN raw : DueAt(d)

(* No two handlers work on one document, and no unprocessed one is gone.   *)
OwnedInv == \A g, h \in Busy : hdoc[g] = hdoc[h] => g = h
StoreInv == \A d \in DOMAIN raw : raw[d].present \/ raw[d].processed

DuplicateInv == FiniteInv /\ OwnedInv /\ StoreInv /\ DueInv

LEMMA OwnedStep == TypeOK /\ OwnedInv /\ [Next]_vars => OwnedInv'
<1> SUFFICES ASSUME TypeOK, OwnedInv, [Next]_vars PROVE OwnedInv'
  OBVIOUS
<1> USE DEF handlerVars, loopVars, HandlerGoto, HandlerReturns
<1>a. ASSUME Busy' \subseteq Busy, \A g \in Busy' : hdoc'[g] = hdoc[g]
      PROVE  OwnedInv'
  BY <1>a DEF OwnedInv
<1>b. ASSUME UNCHANGED <<hpc, hdoc>> PROVE OwnedInv'
  BY <1>a, <1>b DEF Busy
<1>1. ASSUME NEW h \in Handler, NEW q \in Request, StoreRaw(h, q)
      PROVE  OwnedInv'
  <2>1. Busy' = Busy \cup {h} /\ h \notin Busy
    BY <1>1 DEF StoreRaw, Busy, TypeOK
  <2>2. hdoc'[h] = Len(raw) + 1 /\ \A g \in Busy : hdoc'[g] = hdoc[g]
    BY <1>1 DEF StoreRaw, Busy, TypeOK
  <2>3. \A g \in Busy : hdoc[g] \in DOMAIN raw
    BY DEF TypeOK
  <2>4. \A g \in Busy : hdoc'[g] # Len(raw) + 1
    BY <2>2, <2>3, RawType
  <2> QED
    BY <2>1, <2>2, <2>4 DEF OwnedInv
<1>2. ASSUME NEW h \in Handler, NEW q \in Request, StoreRawFails(h, q)
      PROVE  OwnedInv'
  BY <1>2, <1>b DEF StoreRawFails
<1>3. ASSUME NEW h \in Handler, HandlerStep(h) \/ HandlerPanics(h)
      PROVE  OwnedInv'
  <2>1. Busy' \subseteq Busy /\ \A g \in Busy' : hdoc'[g] = hdoc[g]
    BY <1>3
       DEF HandlerStep, HandlerPanics, Process, ProcessFails, Finish,
           FinishFailed, Busy, TypeOK
  <2> QED
    BY <1>a, <2>1
<1>4. ASSUME NEW d \in todo, LoopStep(d) PROVE OwnedInv'
  BY <1>4, <1>b
     DEF LoopStep, LoopProcess, LoopProcessFails, LoopFinish, LoopFinishFailed
<1>5. CASE Fetch \/ Cleanup \/ MappingLost \/ MappingBack \/ Restart
  BY <1>5, <1>b DEF Fetch, Cleanup, MappingLost, MappingBack, Restart
<1>6. ASSUME NEW d \in DOMAIN raw, ReprocessRawData(d) PROVE OwnedInv'
  BY <1>6, <1>b DEF ReprocessRawData
<1>7. ASSUME NEW S, NEW L, Flush(S, L) PROVE OwnedInv'
  BY <1>7, <1>b DEF Flush
<1>8. CASE Crash
  <2>1. Busy' = {}
    BY <1>8 DEF Crash, Busy
  <2> QED
    BY <2>1 DEF OwnedInv
<1>9. CASE UNCHANGED vars
  BY <1>9, <1>b DEF vars
<1> QED
  BY <1>1, <1>2, <1>3, <1>4, <1>5, <1>6, <1>7, <1>8, <1>9 DEF Next

(* What a step does to the documents, as far as it matters here.           *)
LEMMA StoreStep == TypeOK /\ StoreInv /\ [Next]_vars => StoreInv'
<1> SUFFICES ASSUME TypeOK, StoreInv, [Next]_vars PROVE StoreInv'
  OBVIOUS
<1>b. ASSUME UNCHANGED raw PROVE StoreInv'
  BY <1>b DEF StoreInv
<1>c. ASSUME NEW q \in Request, raw' = Inserted(raw, q) PROVE StoreInv'
  <2>1. raw \in Seq(RawDoc)
    BY RawType
  <2>2. /\ DOMAIN raw' = DOMAIN raw \cup {Len(raw) + 1}
        /\ \A i \in DOMAIN raw : raw'[i] = raw[i]
        /\ raw'[Len(raw) + 1] = NewDoc(q)
    BY <1>c, <2>1, InsertedDocs
  <2> QED
    BY <2>2 DEF StoreInv, NewDoc
<1>d. ASSUME NEW d \in DOMAIN raw, NEW p \in BOOLEAN, NEW e \in ErrorField,
             UpdateRaw(Updated(raw, d, p, e))
      PROVE  StoreInv'
  <2>1. /\ SameDocs(raw, raw')
        /\ \A i \in DOMAIN raw : raw'[i].present = raw[i].present
        /\ \A i \in DOMAIN raw : i # d => raw'[i] = raw[i]
    BY <1>d, MarkDocs
  <2>2. raw[d].present \/ raw' = raw
    BY <1>d DEF UpdateRaw, Updated
  <2> QED
    BY <2>1, <2>2 DEF StoreInv, SameDocs
<1>1. ASSUME NEW h \in Handler, NEW q \in Request,
             StoreRaw(h, q) \/ StoreRawFails(h, q)
      PROVE  StoreInv'
  <2>1. raw' = raw \/ raw' = Inserted(raw, q)
    BY <1>1 DEF StoreRaw, StoreRawFails
  <2> QED
    BY <2>1, <1>b, <1>c
<1>2. ASSUME NEW h \in Handler, HandlerStep(h) \/ HandlerPanics(h)
      PROVE  StoreInv'
  <2>1. CASE Process(h) \/ ProcessFails(h) \/ HandlerPanics(h)
    BY <2>1, <1>b DEF Process, ProcessFails, HandlerPanics
  <2>2. CASE Finish(h) \/ FinishFailed(h)
    <3>1. hdoc[h] \in DOMAIN raw
      BY <2>2 DEF Finish, FinishFailed, TypeOK, Busy
    <3>2. raw[hdoc[h]].error \in ErrorField
      BY <3>1, RawType DEF RawDoc
    <3> QED
      BY <2>2, <3>1, <3>2, <1>d
         DEF Finish, FinishFailed, MarkedProcessed, MarkedError, ErrorField
  <2> QED
    BY <1>2, <2>1, <2>2 DEF HandlerStep
<1>3. ASSUME NEW d \in todo, LoopStep(d) PROVE StoreInv'
  <2>1. CASE LoopProcess(d) \/ LoopProcessFails(d)
    BY <2>1, <1>b DEF LoopProcess, LoopProcessFails
  <2>2. CASE LoopFinish(d) \/ LoopFinishFailed(d)
    <3>1. d \in DOMAIN raw
      BY DEF TypeOK
    <3>2. raw[d].error \in ErrorField
      BY <3>1, RawType DEF RawDoc
    <3> QED
      BY <2>2, <3>1, <3>2, <1>d
         DEF LoopFinish, LoopFinishFailed, MarkedProcessed, MarkedError,
             ErrorField
  <2> QED
    BY <1>3, <2>1, <2>2 DEF LoopStep
<1>4. CASE Cleanup
  <2>1. PICK c \in DOMAIN raw : raw' = Cleaned(raw, c)
    BY <1>4 DEF Cleanup
  <2>2. c \in Nat /\ raw \in Seq(RawDoc)
    BY RawType
  <2>3. /\ DOMAIN raw' = DOMAIN raw
        /\ \A i \in DOMAIN raw :
             /\ raw'[i].processed = raw[i].processed
             /\ ~raw[i].processed => raw'[i].present = raw[i].present
    BY <2>1, <2>2, CleanedDocs DEF SameDocs
  <2> QED
    BY <2>3 DEF StoreInv
<1>5. ASSUME NEW d \in DOMAIN raw, ReprocessRawData(d) PROVE StoreInv'
  <2>1. FALSE \in BOOLEAN /\ "empty" \in ErrorField
    BY DEF ErrorField
  <2> QED
    BY <1>5, <2>1, <1>d DEF ReprocessRawData, Reprocessed
<1>6. ASSUME NEW S, NEW L, Flush(S, L) PROVE StoreInv'
  BY <1>6, <1>b DEF Flush
<1>7. CASE Fetch \/ MappingLost \/ MappingBack \/ Crash \/ Restart
  BY <1>7, <1>b DEF Fetch, MappingLost, MappingBack, Crash, Restart
<1>8. CASE UNCHANGED vars
  BY <1>8, <1>b DEF vars
<1> QED
  BY <1>1, <1>2, <1>3, <1>4, <1>5, <1>6, <1>7, <1>8 DEF Next
-----------------------------------------------------------------------------
LEMMA SumNat == \A x, y, z \in Nat : x + y + z \in Nat
OBVIOUS

LEMMA SpentNat ==
  ASSUME TypeOK, TypeOK'
  PROVE  Spent \in Nat /\ Spent' \in Nat
<1>1. /\ faults \in Nat /\ crashes \in Nat /\ reprocesses \in Nat
      /\ faults' \in Nat /\ crashes' \in Nat /\ reprocesses' \in Nat
  BY DEF TypeOK
<1> QED
  BY <1>1, SumNat DEF Spent

LEMMA SpentStep ==
  ASSUME TypeOK, TypeOK'
  PROVE  /\ Spent' = Spent => Spent' >= Spent
         /\ /\ faults' = faults \/ faults' = faults + 1
            /\ UNCHANGED <<crashes, reprocesses>>
            => Spent' >= Spent
         /\ /\ \/ faults' = faults + 1 /\ UNCHANGED <<crashes, reprocesses>>
               \/ crashes' = crashes + 1 /\ UNCHANGED <<faults, reprocesses>>
               \/ /\ reprocesses' = reprocesses + 1 /\ UNCHANGED crashes
                  /\ faults' = faults \/ faults' = faults + 1
            => Spent' >= Spent + 1
<1>1. /\ faults \in Nat /\ crashes \in Nat /\ reprocesses \in Nat
  BY DEF TypeOK
<1>2. /\ Spent = faults + crashes + reprocesses
      /\ Spent' = faults' + crashes' + reprocesses'
  BY DEF Spent
<1>3. Spent \in Nat
  BY SpentNat
<1>4. CASE UNCHANGED <<faults, crashes, reprocesses>>
  BY <1>1, <1>2, <1>4
<1>5. CASE faults' = faults + 1 /\ UNCHANGED <<crashes, reprocesses>>
  BY <1>1, <1>2, <1>5
<1>6. CASE crashes' = crashes + 1 /\ UNCHANGED <<faults, reprocesses>>
  BY <1>1, <1>2, <1>6
<1>7. CASE /\ reprocesses' = reprocesses + 1 /\ UNCHANGED crashes
           /\ faults' = faults \/ faults' = faults + 1
  BY <1>1, <1>2, <1>7
<1> QED
  BY <1>3, <1>4, <1>5, <1>6, <1>7

(* A step that makes no record keeps the bound where no more records are   *)
(* due than before, or the loop's is paid for by a fault, a crash or a     *)
(* request.                                                                *)
LEMMA DueKept ==
  ASSUME TypeOK, TypeOK', FiniteInv, NEW d \in DOMAIN raw, DueAt(d),
         Records' = Records,
         \/ /\ Spent' >= Spent
            /\ HandlerDue(d)' + LoopDue(d)' <= HandlerDue(d) + LoopDue(d)
         \/ /\ Spent' >= Spent + 1
            /\ HandlerDue(d)' <= HandlerDue(d)
  PROVE  DueAt(d)'
<1>1. HandOvers(d) \in Nat
  BY HandOversNat
<1>2. HandOvers(d)' = HandOvers(d)
  BY DEF HandOvers, RecordsOf
<1>3. /\ HandlerDue(d) \in {0, 1} /\ LoopDue(d) \in {0, 1}
      /\ HandlerDue(d)' \in {0, 1} /\ LoopDue(d)' \in {0, 1}
  BY DEF HandlerDue, LoopDue
<1>4. Spent \in Nat /\ Spent' \in Nat
  BY SpentNat
<1> HIDE DEF Spent, HandlerDue, LoopDue, HandOvers
<1> QED
  BY <1>1, <1>2, <1>3, <1>4 DEF DueAt

(* The same, in terms of who may still make a record.                      *)
LEMMA DueUnchanged ==
  ASSUME TypeOK, TypeOK', FiniteInv, NEW d \in DOMAIN raw, DueAt(d),
         Records' = Records, Spent' >= Spent,
         Awaiting(d)' => Awaiting(d),
         Refetched(d)' => Refetched(d) \/ (Awaiting(d) /\ ~Awaiting(d)')
  PROVE  DueAt(d)'
<1>1. HandlerDue(d)' + LoopDue(d)' <= HandlerDue(d) + LoopDue(d)
  <2>1. CASE Refetched(d)' /\ ~Refetched(d)
    BY <2>1 DEF HandlerDue, LoopDue
  <2>2. CASE Refetched(d)' => Refetched(d)
    BY <2>2 DEF HandlerDue, LoopDue
  <2> QED
    BY <2>1, <2>2
<1> QED
  BY <1>1, DueKept

LEMMA DueSpent ==
  ASSUME TypeOK, TypeOK', FiniteInv, NEW d \in DOMAIN raw, DueAt(d),
         Records' = Records, Spent' >= Spent + 1,
         Awaiting(d)' => Awaiting(d)
  PROVE  DueAt(d)'
<1>1. HandlerDue(d)' <= HandlerDue(d)
  BY DEF HandlerDue
<1> QED
  BY <1>1, DueKept

(* A hand-over turns what was due into a record.                           *)
LEMMA DueMade ==
  ASSUME TypeOK, TypeOK', FiniteInv, FiniteInv', NEW d \in DOMAIN raw, DueAt(d),
         NEW e, HandOver(e), Spent' = Spent,
         e # d => HandlerDue(d)' <= HandlerDue(d) /\ LoopDue(d)' <= LoopDue(d),
         e = d => HandlerDue(d)' + LoopDue(d)' + 1
                    <= HandlerDue(d) + LoopDue(d)
  PROVE  DueAt(d)'
<1>1. HandOvers(d) \in Nat
  BY HandOversNat
<1>2. /\ e = d => HandOvers(d)' = HandOvers(d) + 1
      /\ e # d => HandOvers(d)' = HandOvers(d)
  BY HandOversStep
<1>3. /\ HandlerDue(d) \in {0, 1} /\ LoopDue(d) \in {0, 1}
      /\ HandlerDue(d)' \in {0, 1} /\ LoopDue(d)' \in {0, 1}
  BY DEF HandlerDue, LoopDue
<1>4. Spent \in Nat
  BY SpentNat
<1>5. CASE e = d
  BY <1>1, <1>2, <1>3, <1>4, <1>5 DEF DueAt
<1>6. CASE e # d
  BY <1>1, <1>2, <1>3, <1>4, <1>6 DEF DueAt
<1> QED
  BY <1>5, <1>6

(* Of a document that was just stored no record is made, and two are due.  *)
LEMMA DueNew ==
  ASSUME TypeOK, TypeOK', FiniteInv, NEW d, d \notin DOMAIN raw,
         Records' = Records
  PROVE  DueAt(d)'
<1>1. RecordsOf(d)' = {}
  BY DEF RecordsOf, FiniteInv
<1>2. HandOvers(d)' = 0
  BY <1>1, FS_EmptySet DEF HandOvers
<1>3. HandlerDue(d)' \in {0, 1} /\ LoopDue(d)' \in {0, 1}
  BY DEF HandlerDue, LoopDue
<1>4. Spent' \in Nat
  BY SpentNat
<1> QED
  BY <1>2, <1>3, <1>4 DEF DueAt

LEMMA DueStep ==
  /\ TypeOK /\ TypeOK' /\ FiniteInv /\ FiniteInv' /\ OwnedInv /\ StoreInv
  /\ DueInv /\ [Next]_vars
  => DueInv'
<1> SUFFICES ASSUME TypeOK, TypeOK', FiniteInv, FiniteInv', OwnedInv, StoreInv,
                    DueInv, [Next]_vars, NEW d \in DOMAIN raw'
             PROVE  DueAt(d)'
  BY DEF DueInv
<1> USE DEF handlerVars, loopVars, HandlerGoto, HandlerReturns, records, Records
<1>a. d \in DOMAIN raw => DueAt(d)
  BY DEF DueInv
<1>b. /\ faults \in Nat /\ crashes \in Nat /\ reprocesses \in Nat
      /\ faults' \in Nat /\ crashes' \in Nat /\ reprocesses' \in Nat
  BY DEF TypeOK
<1>h. Fault => faults' = faults + 1 /\ faults' # faults
  BY <1>b DEF Fault
<1>c. ASSUME UNCHANGED <<hpc, hdoc>> PROVE Awaiting(d)' <=> Awaiting(d)
  BY <1>c DEF Awaiting
<1>d. ASSUME UNCHANGED <<lpc, todo>>, d \in DOMAIN raw,
             raw'[d].processed = raw[d].processed
      PROVE  Refetched(d)' <=> Refetched(d)
  BY <1>d DEF Refetched, Oldest
<1>e. ASSUME UNCHANGED raw PROVE /\ d \in DOMAIN raw
                                 /\ raw'[d].processed = raw[d].processed
  BY <1>e
<1>f. ASSUME NEW i \in DOMAIN raw, NEW p \in BOOLEAN, NEW e \in ErrorField,
             UpdateRaw(Updated(raw, i, p, e))
      PROVE  /\ d \in DOMAIN raw
             /\ i # d => raw'[d].processed = raw[d].processed
             /\ p => (raw[d].processed => raw'[d].processed)
             /\ (p /\ i = d /\ faults' = faults) => raw'[d].processed
             /\ faults' = faults \/ faults' = faults + 1
  <2>1. /\ SameDocs(raw, raw')
        /\ i # d => raw'[d].processed = raw[d].processed
        /\ raw'[i].processed = raw[i].processed \/ raw'[i].processed = p
    BY <1>f, MarkDocs DEF SameDocs
  <2>2. d \in DOMAIN raw
    BY <2>1 DEF SameDocs
  <2>3. faults' = faults \/ faults' = faults + 1
    BY <1>f, <1>h DEF UpdateRaw
  <2>5. faults' = faults => raw' = Updated(raw, i, p, e)
    BY <1>f, <1>h DEF UpdateRaw
  <2>4. ASSUME p, i = d, faults' = faults PROVE raw'[d].processed
    <3>1. raw' = Updated(raw, d, p, e)
      BY <2>4, <2>5
    <3>2. CASE raw[d].present
      BY <2>2, <2>4, <3>1, <3>2, RawType, UpdatedDocs
    <3>3. CASE ~raw[d].present
      BY <2>2, <3>1, <3>3 DEF Updated, StoreInv
    <3> QED
      BY <3>2, <3>3
  <2> QED
    BY <2>1, <2>2, <2>3, <2>4
<1>1. ASSUME NEW h \in Handler, NEW q \in Request, StoreRaw(h, q)
      PROVE  DueAt(d)'
  <2>1. /\ DOMAIN raw' = DOMAIN raw \cup {Len(raw) + 1}
        /\ \A i \in DOMAIN raw : raw'[i] = raw[i]
    BY <1>1, InsertedDocs, RawType DEF StoreRaw
  <2>2. Records' = Records /\ Spent' = Spent
    BY <1>1 DEF StoreRaw, budget, Spent
  <2>3. CASE d \in DOMAIN raw
    <3>1. Awaiting(d)' => Awaiting(d)
      BY <1>1, <2>1, <2>3 DEF StoreRaw, Awaiting, TypeOK
    <3>2. Refetched(d)' <=> Refetched(d)
      BY <1>1, <2>1, <2>3, <1>d DEF StoreRaw
    <3> QED
      BY <1>a, SpentStep, <2>2, <2>3, <3>1, <3>2, DueUnchanged
  <2> QED
    BY <2>2, <2>3, DueNew
<1>2. ASSUME NEW h \in Handler, NEW q \in Request, StoreRawFails(h, q)
      PROVE  DueAt(d)'
  <2>1. raw' = raw \/ raw' = Inserted(raw, q)
    BY <1>2 DEF StoreRawFails
  <2>2. d \in DOMAIN raw => raw'[d] = raw[d]
    BY <2>1, InsertedDocs, RawType
  <2>3. Records' = Records /\ Spent' >= Spent
    <3>1. faults' = faults \/ faults' = faults + 1
      BY <1>2, <1>h DEF StoreRawFails
    <3>2. UNCHANGED <<pending, stored, lost, crashes, reprocesses>>
      BY <1>2 DEF StoreRawFails
    <3> QED
      BY SpentStep, <3>1, <3>2
  <2>4. CASE d \in DOMAIN raw
    <3>1. Awaiting(d)' <=> Awaiting(d)
      BY <1>2, <1>c DEF StoreRawFails
    <3>2. Refetched(d)' <=> Refetched(d)
      BY <1>2, <2>2, <2>4, <1>d DEF StoreRawFails
    <3> QED
      BY <1>a, <2>3, <2>4, <3>1, <3>2, DueUnchanged
  <2> QED
    BY <2>3, <2>4, DueNew
<1>3. ASSUME NEW h \in Handler, Process(h) PROVE DueAt(d)'
  <2> DEFINE e == hdoc[h]
  <2>1. d \in DOMAIN raw /\ HandOver(e) /\ Spent' = Spent
    BY <1>3 DEF Process, budget, Spent
  <2>2. Refetched(d)' <=> Refetched(d)
    BY <1>3, <1>d, <1>e DEF Process
  <2>3. e # d => (Awaiting(d)' => Awaiting(d))
    BY <1>3 DEF Process, Awaiting, TypeOK
  <2>4. e = d => Awaiting(d) /\ ~Awaiting(d)'
    BY <1>3 DEF Process, Awaiting, TypeOK, OwnedInv, Busy
  <2>5. e # d => HandlerDue(d)' <= HandlerDue(d) /\ LoopDue(d)' <= LoopDue(d)
    BY <2>2, <2>3 DEF HandlerDue, LoopDue
  <2>6. e = d => HandlerDue(d)' + LoopDue(d)' + 1 <= HandlerDue(d) + LoopDue(d)
    BY <2>2, <2>4 DEF HandlerDue, LoopDue
  <2> HIDE DEF e
  <2> QED
    BY <1>a, <2>1, <2>5, <2>6, DueMade
<1>4. ASSUME NEW h \in Handler, ProcessFails(h) PROVE DueAt(d)'
  <2>1. d \in DOMAIN raw /\ Records' = Records /\ Spent' = Spent
    BY <1>4 DEF ProcessFails, budget, Spent
  <2>2. Awaiting(d)' => Awaiting(d)
    BY <1>4 DEF ProcessFails, Awaiting, TypeOK
  <2>3. Refetched(d)' <=> Refetched(d)
    BY <1>4, <1>d, <1>e DEF ProcessFails
  <2> QED
    BY <1>a, SpentStep, <2>1, <2>2, <2>3, DueUnchanged
<1>5. ASSUME NEW h \in Handler, HandlerPanics(h) PROVE DueAt(d)'
  <2>1. d \in DOMAIN raw /\ Records' = Records /\ Spent' >= Spent
    BY <1>5, <1>h, SpentStep DEF HandlerPanics
  <2>2. Awaiting(d)' => Awaiting(d)
    BY <1>5 DEF HandlerPanics, Awaiting, TypeOK
  <2>3. Refetched(d)' <=> Refetched(d)
    BY <1>5, <1>d, <1>e DEF HandlerPanics
  <2> QED
    BY <1>a, <2>1, <2>2, <2>3, DueUnchanged
<1>6. ASSUME NEW h \in Handler, Finish(h) \/ FinishFailed(h) PROVE DueAt(d)'
  <2>1. hdoc[h] \in DOMAIN raw
    BY <1>6 DEF Finish, FinishFailed, TypeOK, Busy
  <2>2. raw[hdoc[h]].error \in ErrorField
    BY <2>1, RawType DEF RawDoc
  <2>3. /\ d \in DOMAIN raw
        /\ hdoc[h] # d => raw'[d].processed = raw[d].processed
        /\ Finish(h) => (raw[d].processed => raw'[d].processed)
        /\ faults' = faults \/ faults' = faults + 1
    BY <1>6, <2>1, <2>2, <1>f
       DEF Finish, FinishFailed, MarkedProcessed, MarkedError, ErrorField
  <2>4. Records' = Records /\ Spent' >= Spent
    BY <1>6, SpentStep, <2>3 DEF Finish, FinishFailed
  <2>5. Awaiting(d)' => Awaiting(d)
    BY <1>6 DEF Finish, FinishFailed, Awaiting, TypeOK
  <2>6. UNCHANGED <<lpc, todo>>
    BY <1>6 DEF Finish, FinishFailed
  <2>7. CASE raw[d].processed => raw'[d].processed
    <3>1. Refetched(d)' => Refetched(d)
      BY <2>6, <2>7 DEF Refetched, Oldest
    <3> QED
      BY <1>a, <2>3, <2>4, <2>5, <3>1, DueUnchanged
  <2>8. CASE ~(raw[d].processed => raw'[d].processed)
    <3>1. FinishFailed(h) /\ hdoc[h] = d
      BY <1>6, <2>3, <2>8
    <3>2. Awaiting(d) /\ ~Awaiting(d)'
      BY <3>1 DEF FinishFailed, Awaiting, TypeOK, OwnedInv, Busy
    <3> QED
      BY <1>a, <2>3, <2>4, <2>5, <3>2, DueUnchanged
  <2> QED
    BY <2>7, <2>8
<1>7. CASE Fetch
  <2>1. d \in DOMAIN raw /\ Records' = Records /\ Spent' = Spent
    BY <1>7 DEF Fetch, budget, Spent
  <2>2. Awaiting(d)' <=> Awaiting(d)
    BY <1>7, <1>c DEF Fetch
  <2>3. todo = {} /\ (d \in todo' => ~raw[d].processed)
    BY <1>7 DEF Fetch, TypeOK, GetUnprocessed, Unprocessed
  <2>4. Refetched(d)' => Refetched(d)
    BY <1>7, <2>3 DEF Fetch, Refetched
  <2> QED
    BY <1>a, SpentStep, <2>1, <2>2, <2>4, DueUnchanged
<1>8. ASSUME NEW e \in todo, LoopProcess(e) PROVE DueAt(d)'
  <2>1. d \in DOMAIN raw /\ HandOver(e) /\ Spent' = Spent
    BY <1>8 DEF LoopProcess, budget, Spent
  <2>2. Awaiting(d)' <=> Awaiting(d)
    BY <1>8, <1>c DEF LoopProcess
  <2>3. e # d => (Refetched(d)' => Refetched(d))
    BY <1>8 DEF LoopProcess, LoopAt, Refetched
  <2>4. e = d => Refetched(d) /\ ~Refetched(d)'
    BY <1>8 DEF LoopProcess, LoopAt, Refetched, Oldest
  <2>5. e # d => HandlerDue(d)' <= HandlerDue(d) /\ LoopDue(d)' <= LoopDue(d)
    BY <2>2, <2>3 DEF HandlerDue, LoopDue
  <2>6. e = d => HandlerDue(d)' + LoopDue(d)' + 1 <= HandlerDue(d) + LoopDue(d)
    BY <2>2, <2>4 DEF HandlerDue, LoopDue
  <2> QED
    BY <1>a, <2>1, <2>5, <2>6, DueMade
<1>9. ASSUME NEW e \in todo, LoopProcessFails(e) PROVE DueAt(d)'
  <2>1. d \in DOMAIN raw /\ Records' = Records /\ Spent' = Spent
    BY <1>9 DEF LoopProcessFails, budget, Spent
  <2>2. Awaiting(d)' <=> Awaiting(d)
    BY <1>9, <1>c DEF LoopProcessFails
  <2>3. Refetched(d)' => Refetched(d)
    BY <1>9 DEF LoopProcessFails, LoopAt, Refetched
  <2> QED
    BY <1>a, SpentStep, <2>1, <2>2, <2>3, DueUnchanged
<1>10. ASSUME NEW e \in todo, LoopFinish(e) PROVE DueAt(d)'
  <2>1. e \in DOMAIN raw /\ raw[e].error \in ErrorField
    BY RawType DEF TypeOK, RawDoc
  <2>2. /\ d \in DOMAIN raw
        /\ e # d => raw'[d].processed = raw[d].processed
        /\ (e = d /\ faults' = faults) => raw'[d].processed
        /\ faults' = faults \/ faults' = faults + 1
    BY <1>10, <2>1, <1>f DEF LoopFinish, MarkedProcessed
  <2>3. /\ Records' = Records
        /\ UNCHANGED <<crashes, reprocesses>>
    BY <1>10 DEF LoopFinish
  <2>4. Awaiting(d)' <=> Awaiting(d)
    BY <1>10, <1>c DEF LoopFinish
  <2>5. lpc = "mark" /\ Oldest(e) /\ todo' = todo \ {e} /\ lpc' # "mark"
    BY <1>10 DEF LoopFinish, LoopAt, LoopNext
  <2>6. \A i \in todo : Oldest(i) => i = e
    BY <2>5, RawType DEF Oldest, TypeOK
  <2>7. CASE faults' = faults
    <3>1. Refetched(d)' => Refetched(d)
      BY <2>2, <2>5, <2>6, <2>7 DEF Refetched
    <3> QED
      BY <1>a, SpentStep, <2>2, <2>3, <2>4, <2>7, <3>1, DueUnchanged
  <2>8. CASE faults' = faults + 1
    BY <1>a, SpentStep, <2>2, <2>3, <2>4, <2>8, DueSpent
  <2> QED
    BY <2>2, <2>7, <2>8
<1>11. ASSUME NEW e \in todo, LoopFinishFailed(e) PROVE DueAt(d)'
  <2>1. e \in DOMAIN raw
    BY DEF TypeOK
  <2>2. /\ d \in DOMAIN raw
        /\ e # d => raw'[d].processed = raw[d].processed
        /\ faults' = faults \/ faults' = faults + 1
    BY <1>11, <2>1, <1>f DEF LoopFinishFailed, MarkedError, ErrorField
  <2>3. Records' = Records /\ Spent' >= Spent
    BY <1>11, SpentStep, <2>2 DEF LoopFinishFailed
  <2>4. Awaiting(d)' <=> Awaiting(d)
    BY <1>11, <1>c DEF LoopFinishFailed
  <2>5. lpc = "markError" /\ todo' = todo \ {e}
    BY <1>11 DEF LoopFinishFailed, LoopAt, LoopNext
  <2>6. Refetched(d)' => Refetched(d)
    BY <2>2, <2>5 DEF Refetched
  <2> QED
    BY <1>a, <2>2, <2>3, <2>4, <2>6, DueUnchanged
<1>12. CASE Cleanup
  <2>1. PICK c \in DOMAIN raw : raw' = Cleaned(raw, c)
    BY <1>12 DEF Cleanup
  <2>2. c \in Nat /\ raw \in Seq(RawDoc)
    BY RawType
  <2>3. d \in DOMAIN raw /\ raw'[d].processed = raw[d].processed
    BY <2>1, <2>2, CleanedDocs DEF SameDocs
  <2>4. Records' = Records /\ Spent' = Spent
    BY <1>12 DEF Cleanup, budget, Spent
  <2>5. (Awaiting(d)' <=> Awaiting(d)) /\ (Refetched(d)' <=> Refetched(d))
    BY <1>12, <2>3, <1>c, <1>d DEF Cleanup
  <2> QED
    BY <1>a, SpentStep, <2>3, <2>4, <2>5, DueUnchanged
<1>13. ASSUME NEW e \in DOMAIN raw, ReprocessRawData(e) PROVE DueAt(d)'
  <2>3. d \in DOMAIN raw
    BY <1>13, MarkedDocs DEF ReprocessRawData, SameDocs
  <2>4. Records' = Records /\ Spent' >= Spent + 1
    BY <1>13, SpentStep DEF ReprocessRawData, UpdateRaw, Fault
  <2>5. Awaiting(d)' <=> Awaiting(d)
    BY <1>13, <1>c DEF ReprocessRawData
  <2> QED
    BY <1>a, <2>3, <2>4, <2>5, DueSpent
<1>14. ASSUME NEW S, NEW L, Flush(S, L) PROVE DueAt(d)'
  <2>1. d \in DOMAIN raw /\ Records' = Records
    BY <1>14 DEF Flush, Sink!Settle
  <2>2. Spent' >= Spent
    <3>1. faults' = faults \/ faults' = faults + 1
      BY <1>14, <1>h DEF Flush
    <3> QED
      BY <1>14, SpentStep, <3>1 DEF Flush
  <2>3. (Awaiting(d)' <=> Awaiting(d)) /\ (Refetched(d)' <=> Refetched(d))
    BY <1>14, <1>c, <1>d, <1>e DEF Flush
  <2> QED
    BY <1>a, <2>1, <2>2, <2>3, DueUnchanged
<1>15. CASE MappingLost \/ MappingBack \/ Restart \/ UNCHANGED vars
  <2>1. UNCHANGED <<raw, hpc, hdoc, lpc, todo, pending, stored, lost, faults,
                    crashes, reprocesses>>
    BY <1>15 DEF MappingLost, MappingBack, Restart, vars, budget
  <2>2. d \in DOMAIN raw /\ Records' = Records /\ Spent' = Spent
    BY <2>1 DEF Spent
  <2>3. (Awaiting(d)' <=> Awaiting(d)) /\ (Refetched(d)' <=> Refetched(d))
    BY <2>1, <1>c, <1>d, <1>e
  <2> QED
    BY <1>a, SpentStep, <2>2, <2>3, DueUnchanged
<1>16. CASE Crash
  <2>1. Records' = Records
    <3>1. PICK S \in SUBSET pending :
            stored' = stored \cup S /\ lost' = lost \cup (pending \ S)
      BY <1>16 DEF Crash
    <3> QED
      BY <1>16, <3>1 DEF Crash
  <2>2. d \in DOMAIN raw /\ Spent' >= Spent + 1
    BY <1>16, SpentStep DEF Crash
  <2>3. ~Awaiting(d)'
    BY <1>16 DEF Crash, Awaiting
  <2> QED
    BY <1>a, <2>1, <2>2, <2>3, DueSpent
<1> QED
  BY <1>1, <1>2, <1>3, <1>4, <1>5, <1>6, <1>7, <1>8, <1>9, <1>10, <1>11,
     <1>12, <1>13, <1>14, <1>15, <1>16
     DEF Next, HandlerStep, LoopStep

(* However handlers, fetches, failures, crashes and requests to reprocess  *)
(* overlap, a document has at most two records and one more for each of    *)
(* these failures, crashes and requests.                                   *)
THEOREM DuplicatesAreBounded == SafetySpec => []DuplicatesBounded
<1>1. Init => DuplicateInv
  BY FiniteInit DEF Init, DuplicateInv, OwnedInv, StoreInv, DueInv, Busy
<1>2. TypeOK /\ TypeOK' /\ DuplicateInv /\ [Next]_vars => DuplicateInv'
  BY FiniteStep, OwnedStep, StoreStep, DueStep DEF DuplicateInv
<1>3. TypeOK /\ DuplicateInv => DuplicatesBounded
  <2> SUFFICES ASSUME TypeOK, DuplicateInv, NEW d \in DOMAIN raw
               PROVE  HandOvers(d) <= 2 + faults + crashes + reprocesses
    BY DEF DuplicatesBounded
  <2>1. DueAt(d) /\ HandOvers(d) \in Nat
    BY HandOversNat DEF DuplicateInv, DueInv
  <2>2. HandlerDue(d) \in {0, 1} /\ LoopDue(d) \in {0, 1}
    BY DEF HandlerDue, LoopDue
  <2>3. faults \in Nat /\ crashes \in Nat /\ reprocesses \in Nat
    BY DEF TypeOK
  <2> QED
    BY <2>1, <2>2, <2>3 DEF DueAt, Spent
<1> QED
  BY <1>1, <1>2, <1>3, IngestTypeCorrect, PTL DEF SafetySpec
-----------------------------------------------------------------------------
(* The counters.  A handler that is to mark its document has made a record *)
(* that processedCount does not claim yet; so has the loop.                *)
Marking == {h \in Handler : hpc[h] = "mark"}
LoopMarking == IF lpc = "mark" THEN 1 ELSE 0

RawCountInv == rawCount <= Len(raw)

ProcessedInv ==
  /\ IsFiniteSet(Marking)
  /\ processedCount + Cardinality(Marking) + LoopMarking <= Cardinality(Records)

FailedInv ==
  /\ IsFiniteSet(Busy)
  /\ failedCount + Cardinality(Busy) <= receivedCount

CountersInv == RawCountInv /\ ProcessedInv /\ FailedInv

LEMMA LenGrows ==
  ASSUME TypeOK, TypeOK', [Next]_vars
  PROVE  Len(raw) \in Nat /\ Len(raw') \in Nat /\ Len(raw) <= Len(raw')
<1>1. raw \in Seq(RawDoc)
  BY DEF TypeOK
<1>2. raw' \in Seq(RawDoc)
  BY DEF TypeOK
<1>3. /\ DOMAIN raw = 1..Len(raw) /\ DOMAIN raw' = 1..Len(raw')
      /\ Len(raw) \in Nat /\ Len(raw') \in Nat
  BY <1>1, <1>2
<1>4. Len(raw) # 0 => Len(raw) \in DOMAIN raw'
  BY <1>3, DocsStay
<1> QED
  BY <1>3, <1>4

LEMMA RawCountStep ==
  TypeOK /\ TypeOK' /\ RawCountInv /\ [Next]_vars => RawCountInv'
<1> SUFFICES ASSUME TypeOK, TypeOK', RawCountInv, [Next]_vars
             PROVE  rawCount' <= Len(raw')
  BY DEF RawCountInv
<1>1. rawCount \in Nat /\ rawCount <= Len(raw)
  BY DEF TypeOK, RawCountInv
<1>2. Len(raw) \in Nat /\ Len(raw') \in Nat /\ Len(raw) <= Len(raw')
  BY LenGrows
<1>3. ASSUME NEW h \in Handler, NEW q \in Request, StoreRaw(h, q)
      PROVE  rawCount' <= Len(raw')
  <2>1. Len(raw') = Len(raw) + 1
    BY <1>3, InsertedDocs, RawType DEF StoreRaw
  <2>2. rawCount' = rawCount + 1
    BY <1>3 DEF StoreRaw
  <2> QED
    BY <1>1, <1>2, <2>1, <2>2
<1>4. CASE Crash
  BY <1>2, <1>4 DEF Crash
<1>5. CASE rawCount' = rawCount
  BY <1>1, <1>2, <1>5
<1>6. \/ \E h \in Handler, q \in Request : StoreRaw(h, q)
      \/ Crash
      \/ rawCount' = rawCount
  BY DEF Next, vars, counters, StoreRawFails, HandlerStep, Process,
         ProcessFails, HandlerPanics, Finish, FinishFailed, Fetch, LoopStep,
         LoopProcess, LoopProcessFails, LoopFinish, LoopFinishFailed, Cleanup,
         ReprocessRawData, Flush, MappingLost, MappingBack, Restart
<1> QED
  BY <1>3, <1>4, <1>5, <1>6

(* A handler that comes to "mark" has made a record; each time one leaves  *)
(* it at most one is claimed.                                              *)
LEMMA ProcessedStep ==
  TypeOK /\ TypeOK' /\ FiniteInv /\ FiniteInv' /\ ProcessedInv /\ [Next]_vars
  => ProcessedInv'
<1> SUFFICES ASSUME TypeOK, TypeOK', FiniteInv, FiniteInv', ProcessedInv,
                    [Next]_vars
             PROVE  ProcessedInv'
  OBVIOUS
<1> USE DEF handlerVars, loopVars, HandlerGoto, HandlerReturns, counters
<1> DEFINE n == Cardinality(Records)
           m == Cardinality(Marking)
<1>1. /\ n \in Nat /\ m \in Nat /\ n' \in Nat
      /\ IsFiniteSet(Marking) /\ IsFiniteSet(Records)
  BY FS_CardinalityType DEF ProcessedInv, FiniteInv
<1>2. /\ processedCount \in Nat /\ LoopMarking \in {0, 1}
      /\ processedCount + m + LoopMarking <= n
  BY DEF TypeOK, ProcessedInv, LoopMarking
<1>3. ASSUME NEW d, HandOver(d) PROVE n' = n + 1
  <2>1. PICK r : r \notin Records /\ Records' = Records \cup {r}
    BY <1>3, HandOverAdds
  <2>2. Cardinality(Records \cup {r}) = Cardinality(Records) + 1
    BY <1>1, <2>1, FS_AddElement
  <2> QED
    BY <2>1, <2>2
<1>4. ASSUME NEW h \in Handler, hpc[h] = "mark", hpc' = [hpc EXCEPT ![h] = "idle"]
      PROVE  IsFiniteSet(Marking') /\ m = m' + 1 /\ m' \in Nat
  <2>1. Marking' = Marking \ {h} /\ h \in Marking
    BY <1>4 DEF Marking, TypeOK
  <2>2. /\ IsFiniteSet(Marking \ {h})
        /\ Cardinality(Marking \ {h}) = Cardinality(Marking) - 1
    BY <1>1, <2>1, FS_RemoveElement
  <2>3. Cardinality(Marking \ {h}) \in Nat
    BY <2>2, FS_CardinalityType
  <2> QED
    BY <1>1, <2>1, <2>2, <2>3
<1>5. ASSUME Marking' = Marking, LoopMarking' <= LoopMarking,
             LoopMarking' \in {0, 1},
             processedCount' = processedCount, Records' = Records
      PROVE  ProcessedInv'
  <2>1. m' = m /\ n' = n
    BY <1>5
  <2> HIDE DEF n, m
  <2>2. processedCount' + m' + LoopMarking' <= n'
    <3>1. \A p, k, r \in Nat : \A l, j \in {0, 1} :
            p + k + l <= r /\ j <= l => p + k + j <= r
      OBVIOUS
    <3> QED
      BY <1>1, <1>2, <1>5, <2>1, <3>1
  <2> QED
    BY <1>1, <1>5, <2>2 DEF ProcessedInv, n, m
<1>6. ASSUME UNCHANGED <<hpc, lpc, processedCount>>, Records' = Records
      PROVE  ProcessedInv'
  <2>1. Marking' = Marking /\ LoopMarking' = LoopMarking
    BY <1>6 DEF Marking, LoopMarking
  <2> QED
    BY <1>2, <1>5, <1>6, <2>1
<1>7. ASSUME NEW h \in Handler, NEW q \in Request,
             StoreRaw(h, q) \/ StoreRawFails(h, q)
      PROVE  ProcessedInv'
  <2>1. Records' = Records /\ processedCount' = processedCount /\ lpc' = lpc
    BY <1>7 DEF StoreRaw, StoreRawFails, records, Records
  <2>2. Marking' = Marking /\ LoopMarking' = LoopMarking
    BY <1>7, <2>1 DEF StoreRaw, StoreRawFails, Marking, LoopMarking, TypeOK
  <2> QED
    BY <1>2, <1>5, <2>1, <2>2
<1>8. ASSUME NEW h \in Handler, Process(h) PROVE ProcessedInv'
  <2>1. Marking' = Marking \cup {h} /\ h \notin Marking
    BY <1>8 DEF Process, Marking, TypeOK
  <2>2. /\ IsFiniteSet(Marking \cup {h})
        /\ Cardinality(Marking \cup {h}) = Cardinality(Marking) + 1
    BY <1>1, <2>1, FS_AddElement
  <2>3. IsFiniteSet(Marking') /\ m' = m + 1
    BY <2>1, <2>2
  <2>4. n' = n + 1
    BY <1>3, <1>8 DEF Process
  <2>5. LoopMarking' = LoopMarking /\ processedCount' = processedCount
    BY <1>8 DEF Process, LoopMarking
  <2> HIDE DEF n, m
  <2>6. processedCount' + m' + LoopMarking' <= n'
    BY <1>1, <1>2, <2>3, <2>4, <2>5
  <2> QED
    BY <2>3, <2>6 DEF ProcessedInv, n, m
<1>9. ASSUME NEW h \in Handler, ProcessFails(h) \/ FinishFailed(h)
      PROVE  ProcessedInv'
  <2>1. Records' = Records /\ processedCount' = processedCount /\ lpc' = lpc
    BY <1>9 DEF ProcessFails, FinishFailed, records, Records
  <2>2. Marking' = Marking /\ LoopMarking' = LoopMarking
    BY <1>9, <2>1 DEF ProcessFails, FinishFailed, Marking, LoopMarking, TypeOK
  <2> QED
    BY <1>2, <1>5, <2>1, <2>2
<1>10. ASSUME NEW h \in Handler, Finish(h) \/ HandlerPanics(h)
       PROVE  ProcessedInv'
  <2>1. /\ Records' = Records /\ lpc' = lpc
        /\ processedCount' \in {processedCount, processedCount + 1}
        /\ hpc[h] = "mark" /\ hpc' = [hpc EXCEPT ![h] = "idle"]
    BY <1>10 DEF Finish, HandlerPanics, records, Records
  <2>2. IsFiniteSet(Marking') /\ m = m' + 1 /\ m' \in Nat
    BY <1>4, <2>1
  <2>3. n' = n /\ LoopMarking' = LoopMarking
    BY <2>1 DEF LoopMarking
  <2> HIDE DEF n, m
  <2>4. processedCount' + m' + LoopMarking' <= n'
    <3>1. \A p, k, r \in Nat : \A l \in {0, 1} : p + (k + 1) + l <= r =>
            \A i \in {p, p + 1} : i + k + l <= r
      OBVIOUS
    <3> QED
      BY <1>1, <1>2, <2>1, <2>2, <2>3, <3>1
  <2> QED
    BY <2>2, <2>4 DEF ProcessedInv, n, m
<1>11. ASSUME NEW d \in todo, LoopProcess(d) PROVE ProcessedInv'
  <2>1. /\ Marking' = Marking /\ processedCount' = processedCount
        /\ LoopMarking = 0 /\ LoopMarking' = 1
    BY <1>11 DEF LoopProcess, LoopAt, Marking, LoopMarking
  <2>2. n' = n + 1
    BY <1>3, <1>11 DEF LoopProcess
  <2>3. m' = m
    BY <2>1
  <2> HIDE DEF n, m
  <2>4. processedCount' + m' + LoopMarking' <= n'
    BY <1>1, <1>2, <2>1, <2>2, <2>3
  <2> QED
    BY <1>1, <2>1, <2>4 DEF ProcessedInv, n, m
<1>12. ASSUME NEW d \in todo, LoopProcessFails(d) \/ LoopFinishFailed(d)
       PROVE  ProcessedInv'
  <2>1. Records' = Records /\ processedCount' = processedCount /\ hpc' = hpc
    BY <1>12 DEF LoopProcessFails, LoopFinishFailed, records, Records
  <2>2. Marking' = Marking
    BY <2>1 DEF Marking
  <2>3. LoopMarking' = 0
    BY <1>12 DEF LoopProcessFails, LoopFinishFailed, LoopNext, LoopMarking
  <2> QED
    BY <1>2, <1>5, <2>1, <2>2, <2>3
<1>13. ASSUME NEW d \in todo, LoopFinish(d) PROVE ProcessedInv'
  <2>1. /\ Records' = Records /\ hpc' = hpc
        /\ processedCount' \in {processedCount, processedCount + 1}
    BY <1>13 DEF LoopFinish, records, Records
  <2>2. Marking' = Marking /\ LoopMarking = 1 /\ LoopMarking' = 0
    BY <1>13, <2>1 DEF LoopFinish, LoopAt, LoopNext, Marking, LoopMarking
  <2>3. n' = n /\ m' = m
    BY <2>1, <2>2
  <2> HIDE DEF n, m
  <2>4. processedCount' + m' + LoopMarking' <= n'
    <3>1. \A p, k, r \in Nat : p + k + 1 <= r =>
            \A i \in {p, p + 1} : i + k + 0 <= r
      OBVIOUS
    <3> QED
      BY <1>1, <1>2, <2>1, <2>2, <2>3, <3>1
  <2> QED
    BY <1>1, <2>2, <2>4 DEF ProcessedInv, n, m
<1>14. CASE Fetch
  <2>1. Records' = Records /\ processedCount' = processedCount /\ hpc' = hpc
    BY <1>14 DEF Fetch, records, Records
  <2>2. Marking' = Marking /\ LoopMarking' = 0
    BY <1>14, <2>1 DEF Fetch, Marking, LoopMarking
  <2> QED
    BY <1>2, <1>5, <2>1, <2>2
<1>15. CASE Cleanup \/ MappingLost \/ MappingBack \/ Restart \/ UNCHANGED vars
  BY <1>6, <1>15
     DEF Cleanup, MappingLost, MappingBack, Restart, vars, records, Records
<1>16. ASSUME NEW d \in DOMAIN raw, ReprocessRawData(d) PROVE ProcessedInv'
  BY <1>6, <1>16 DEF ReprocessRawData, records, Records
<1>17. ASSUME NEW S, NEW L, Flush(S, L) PROVE ProcessedInv'
  <2>1. Records' = Records
    BY <1>17 DEF Flush, Sink!Settle, Records
  <2> QED
    BY <1>6, <1>17, <2>1 DEF Flush
<1>18. CASE Crash
  <2>1. Marking' = {} /\ LoopMarking' = 0 /\ processedCount' = 0
    BY <1>18 DEF Crash, Marking, LoopMarking
  <2>2. IsFiniteSet(Marking') /\ m' = 0
    BY <2>1, FS_EmptySet
  <2> HIDE DEF n, m
  <2>3. processedCount' + m' + LoopMarking' <= n'
    BY <1>1, <2>1, <2>2
  <2> QED
    BY <2>2, <2>3 DEF ProcessedInv, n, m
<1> QED
  BY <1>7, <1>8, <1>9, <1>10, <1>11, <1>12, <1>13, <1>14, <1>15, <1>16,
     <1>17, <1>18
     DEF Next, HandlerStep, LoopStep

(* A busy handler is a request received whose failure may still be counted.*)
LEMMA FailedStep ==
  TypeOK /\ TypeOK' /\ FailedInv /\ [Next]_vars => FailedInv'
<1> SUFFICES ASSUME TypeOK, TypeOK', FailedInv, [Next]_vars PROVE FailedInv'
  OBVIOUS
<1> USE DEF handlerVars, HandlerGoto, HandlerReturns, counters
<1> DEFINE m == Cardinality(Busy)
<1>1. /\ m \in Nat /\ IsFiniteSet(Busy)
      /\ failedCount \in Nat /\ receivedCount \in Nat
      /\ failedCount + m <= receivedCount
  BY FS_CardinalityType DEF FailedInv, TypeOK
<1>2. ASSUME Busy' = Busy,
             \/ UNCHANGED <<failedCount, receivedCount>>
             \/ /\ failedCount' = failedCount + 1
                /\ receivedCount' = receivedCount + 1
      PROVE  FailedInv'
  <2>1. m' = m
    BY <1>2
  <2> HIDE DEF m
  <2>2. failedCount' + m' <= receivedCount'
    BY <1>1, <1>2, <2>1
  <2> QED
    BY <1>1, <1>2, <2>2 DEF FailedInv, m
<1>3. ASSUME NEW h \in Handler, NEW q \in Request, StoreRaw(h, q)
      PROVE  FailedInv'
  <2>1. Busy' = Busy \cup {h} /\ h \notin Busy
    BY <1>3 DEF StoreRaw, Busy, TypeOK
  <2>2. /\ IsFiniteSet(Busy \cup {h})
        /\ Cardinality(Busy \cup {h}) = Cardinality(Busy) + 1
    BY <1>1, <2>1, FS_AddElement
  <2>3. IsFiniteSet(Busy') /\ m' = m + 1
    BY <2>1, <2>2
  <2>4. receivedCount' = receivedCount + 1 /\ failedCount' = failedCount
    BY <1>3 DEF StoreRaw
  <2> HIDE DEF m
  <2>5. failedCount' + m' <= receivedCount'
    BY <1>1, <2>3, <2>4
  <2> QED
    BY <2>3, <2>5 DEF FailedInv, m
<1>4. ASSUME NEW h \in Handler, NEW q \in Request, StoreRawFails(h, q)
      PROVE  FailedInv'
  BY <1>2, <1>4 DEF StoreRawFails, Busy
<1>5. ASSUME NEW h \in Handler, Process(h) \/ ProcessFails(h)
      PROVE  FailedInv'
  <2>1. Busy' = Busy
    BY <1>5 DEF Process, ProcessFails, Busy, TypeOK
  <2> QED
    BY <1>2, <1>5, <2>1 DEF Process, ProcessFails
<1>6. ASSUME NEW h \in Handler, HandlerPanics(h) \/ Finish(h) \/ FinishFailed(h)
      PROVE  FailedInv'
  <2>1. Busy' = Busy \ {h} /\ h \in Busy
    BY <1>6 DEF HandlerPanics, Finish, FinishFailed, Busy, TypeOK
  <2>2. /\ IsFiniteSet(Busy \ {h})
        /\ Cardinality(Busy \ {h}) = Cardinality(Busy) - 1
    BY <1>1, <2>1, FS_RemoveElement
  <2>3. Cardinality(Busy \ {h}) \in Nat
    BY <2>2, FS_CardinalityType
  <2>4. IsFiniteSet(Busy') /\ m = m' + 1 /\ m' \in Nat
    BY <1>1, <2>1, <2>2, <2>3
  <2>5. /\ receivedCount' = receivedCount
        /\ failedCount' \in {failedCount, failedCount + 1}
    BY <1>6 DEF HandlerPanics, Finish, FinishFailed
  <2> HIDE DEF m
  <2>6. failedCount' + m' <= receivedCount'
    <3>1. \A f, k, r \in Nat : f + (k + 1) <= r =>
            \A i \in {f, f + 1} : i + k <= r
      OBVIOUS
    <3> QED
      BY <1>1, <2>4, <2>5, <3>1
  <2> QED
    BY <2>4, <2>6 DEF FailedInv, m
<1>7. ASSUME NEW d \in todo, LoopStep(d) PROVE FailedInv'
  BY <1>2, <1>7
     DEF LoopStep, LoopProcess, LoopProcessFails, LoopFinish,
         LoopFinishFailed, Busy
<1>8. CASE \/ Fetch \/ Cleanup \/ MappingLost \/ MappingBack \/ Restart
           \/ UNCHANGED vars
  BY <1>2, <1>8 DEF Fetch, Cleanup, MappingLost, MappingBack, Restart, vars, Busy
<1>9. ASSUME NEW d \in DOMAIN raw, ReprocessRawData(d) PROVE FailedInv'
  BY <1>2, <1>9 DEF ReprocessRawData, Busy
<1>10. ASSUME NEW S, NEW L, Flush(S, L) PROVE FailedInv'
  BY <1>2, <1>10 DEF Flush, Busy
<1>11. CASE Crash
  <2>1. Busy' = {} /\ failedCount' = 0 /\ receivedCount' = 0
    BY <1>11 DEF Crash, Busy
  <2> QED
    BY <2>1, FS_EmptySet DEF FailedInv
<1> QED
  BY <1>3, <1>4, <1>5, <1>6, <1>7, <1>8, <1>9, <1>10, <1>11
     DEF Next, HandlerStep

(* Handlers and the loop count by different rules, and a crash resets the  *)
(* counters, but none ever claims more than happened.                      *)
THEOREM CountersAreBacked == SafetySpec => []CountersBacked
<1>1. Init => FiniteInv /\ CountersInv
  <2> SUFFICES ASSUME Init PROVE CountersInv
    BY FiniteInit
  <2>1. Marking = {} /\ Busy = {} /\ Records = {} /\ LoopMarking = 0
    BY DEF Init, Marking, Busy, Records, Sink!Init, LoopMarking
  <2>2. Len(raw) = 0
    BY DEF Init
  <2> QED
    BY <2>1, <2>2, FS_EmptySet
       DEF Init, CountersInv, RawCountInv, ProcessedInv, FailedInv
<1>2. TypeOK /\ TypeOK' /\ FiniteInv /\ FiniteInv' /\ CountersInv /\ [Next]_vars
      => CountersInv'
  BY RawCountStep, ProcessedStep, FailedStep DEF CountersInv
<1>3. TypeOK /\ FiniteInv /\ CountersInv => CountersBacked
  <2> SUFFICES ASSUME TypeOK, FiniteInv, CountersInv PROVE CountersBacked
    OBVIOUS
  <2>1. /\ Cardinality(Marking) \in Nat /\ Cardinality(Records) \in Nat
        /\ processedCount \in Nat /\ LoopMarking \in {0, 1}
    BY FS_CardinalityType
       DEF CountersInv, ProcessedInv, FiniteInv, TypeOK, LoopMarking
  <2>2. processedCount + Cardinality(Marking) + LoopMarking
          <= Cardinality(Records)
    BY DEF CountersInv, ProcessedInv
  <2>3. processedCount <= Cardinality(Records)
    BY <2>1, <2>2
  <2> QED
    BY <2>3 DEF CountersBacked, CountersInv, RawCountInv, FailedInv
<1> QED
  BY <1>1, <1>2, <1>3, FiniteStep, IngestTypeCorrect, PTL DEF SafetySpec
=============================================================================
