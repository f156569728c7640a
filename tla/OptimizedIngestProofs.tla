------------------------ MODULE OptimizedIngestProofs ------------------------
(***************************************************************************)
(* Theorems about OptimizedIngest, for every set of requests and workers   *)
(* and every value of the bounds.                                          *)
(***************************************************************************)
EXTENDS OptimizedIngest, RawStoreProofs, FiniteSetTheorems

(* The variables that an action about the batches, the mapper or the loop  *)
(* leaves alone are grouped in the model: proofs always look through that. *)
USE DEF batchVars, mapperVars, clientVars, LeaveDetect, GiveUp

PcLabel ==
  {"idle", "detect", "fill", "fillWrong", "copy", "mark", "markError"}
-----------------------------------------------------------------------------
LEMMA RawType ==
  ASSUME TypeOK
  PROVE  /\ raw \in Seq(RawDoc)
         /\ Len(raw) \in Nat /\ DOMAIN raw = 1..Len(raw)
         /\ \A d \in DOMAIN raw : raw[d] \in RawDoc
BY DEF TypeOK

(* Inserting some of a batch keeps what was there; what comes is new.      *)
Grows ==
  /\ raw' \in Seq(RawDoc)
  /\ DOMAIN raw \subseteq DOMAIN raw'
  /\ \A i \in DOMAIN raw : raw'[i] = raw[i]

LEMMA InsertGrows ==
  ASSUME TypeOK, NEW batch \in Seq(Request), NEW n \in 0..Len(batch),
         raw' = InsertedMany(raw, batch, n)
  PROVE  /\ Grows
         /\ \A i \in DOMAIN raw' \ DOMAIN raw :
              \E j \in 1..n : raw'[i] = NewDoc(batch[j])
         /\ \A j \in 1..n : \E i \in DOMAIN raw' : raw'[i] = NewDoc(batch[j])
<1>1. raw \in Seq(RawDoc)
  BY RawType
<1> QED
  BY <1>1, InsertedManyDocs DEF Grows

LEMMA EndsGrows ==
  ASSUME TypeOK, NEW label, Ends(label)
  PROVE  /\ Grows
         /\ \A i \in DOMAIN raw' \ DOMAIN raw :
              \E q \in Request : raw'[i] = NewDoc(q)
<1>a. PICK f \in Flusher : \E n \in 0..Len(taken[f]) :
        raw' = InsertedMany(raw, taken[f], n)
  BY DEF Ends
<1>1. PICK n \in 0..Len(taken[f]) : raw' = InsertedMany(raw, taken[f], n)
  BY <1>a
<1>2. taken[f] \in Seq(Request)
  BY DEF TypeOK
<1>3. \A j \in 1..n : taken[f][j] \in Request
  BY <1>2
<1> QED
  BY <1>1, <1>2, <1>3, InsertGrows

(* A mark of the loop changes only its document, and no request.           *)
LEMMA MarkDocs ==
  ASSUME TypeOK, NEW d \in todo, Mark(d)
  PROVE  /\ SameDocs(raw, raw')
         /\ \A i \in DOMAIN raw : raw'[i].present = raw[i].present
         /\ \A i \in DOMAIN raw : i # d => raw'[i] = raw[i]
         /\ raw'[d].processed =>
              raw[d].processed \/ pc[Loop] = "mark"
         /\ pc[Loop] = "mark" /\ raw[d].present /\ faults' = faults =>
              raw'[d].processed
         /\ faults' \in Nat /\ faults' >= faults
<1>1. d \in DOMAIN raw /\ raw \in Seq(RawDoc) /\ faults \in Nat
  BY RawType DEF TypeOK
<1>2. raw[d] \in RawDoc /\ raw[d].error \in ErrorField
  BY <1>1, RawType DEF RawDoc
<1>3. /\ raw' = raw \/ raw' = IF pc[Loop] = "mark" THEN MarkedProcessed(raw, d)
                                                 ELSE MarkedError(raw, d)
      /\ faults' = faults =>
           raw' = IF pc[Loop] = "mark" THEN MarkedProcessed(raw, d)
                                       ELSE MarkedError(raw, d)
      /\ faults' \in Nat /\ faults' >= faults
  BY <1>1 DEF Mark, Fault
<1>4. ASSUME NEW p \in BOOLEAN, NEW e \in ErrorField, raw' = Updated(raw, d, p, e)
      PROVE  /\ SameDocs(raw, raw')
             /\ \A i \in DOMAIN raw : raw'[i].present = raw[i].present
             /\ \A i \in DOMAIN raw : i # d => raw'[i] = raw[i]
             /\ raw[d].present => raw'[d].processed = p
             /\ ~raw[d].present => raw' = raw
  <2>1. ~raw[d].present => raw' = raw
    BY <1>4 DEF Updated
  <2> QED
    BY <1>1, <1>4, <2>1, UpdatedDocs
<1>5. CASE pc[Loop] = "mark"
  <2>1. /\ raw' = raw \/ raw' = Updated(raw, d, TRUE, raw[d].error)
        /\ faults' = faults => raw' = Updated(raw, d, TRUE, raw[d].error)
    BY <1>3, <1>5 DEF MarkedProcessed
  <2>2. CASE raw' = Updated(raw, d, TRUE, raw[d].error)
    BY <1>2, <1>3, <1>4, <1>5, <2>2
  <2>3. CASE raw' = raw /\ faults' # faults
    BY <1>1, <1>3, <1>5, <2>3 DEF SameDocs
  <2> QED
    BY <2>1, <2>2, <2>3
<1>6. CASE pc[Loop] # "mark"
  <2>1. raw' = raw \/ raw' = Updated(raw, d, FALSE, "text")
    BY <1>3, <1>6 DEF MarkedError
  <2>2. CASE raw' = Updated(raw, d, FALSE, "text")
    <3>0. FALSE \in BOOLEAN /\ "text" \in ErrorField
      BY DEF ErrorField
    <3>1. /\ SameDocs(raw, raw')
          /\ \A i \in DOMAIN raw : raw'[i].present = raw[i].present
          /\ \A i \in DOMAIN raw : i # d => raw'[i] = raw[i]
          /\ raw[d].present => raw'[d].processed = FALSE
          /\ ~raw[d].present => raw' = raw
      BY <1>4, <2>2, <3>0, Zenon
    <3> QED
      BY <1>3, <1>6, <3>1
  <2>3. CASE raw' = raw
    BY <1>1, <1>3, <1>6, <2>3 DEF SameDocs
  <2> QED
    BY <2>1, <2>2, <2>3
<1> QED
  BY <1>5, <1>6
-----------------------------------------------------------------------------
LEMMA TypeInit == Init => TypeOK
BY DEF Init, TypeOK, Mapping, Flusher

LEMMA TakeType ==
  ASSUME TypeOK, NEW f \in Flusher, Take(f)
  PROVE  /\ rawBatch' \in Seq(Request)
         /\ taken' \in [Flusher -> Seq(Request)]
         /\ taken'[f] = rawBatch /\ rawBatch # << >> /\ rawBatch' = << >>
         /\ \A g \in Flusher : g # f => taken'[g] = taken[g]
BY DEF Take, TypeOK

LEMMA EndsType ==
  ASSUME TypeOK, NEW label, Ends(label), label \in {"exited", "dead"},
         crashes' \in Nat
  PROVE  TypeOK'
<1>1. raw' \in Seq(RawDoc)
  BY EndsGrows DEF Grows
<1>2. /\ pc' \in [Mapping -> PcLabel] /\ what' \in [Mapping -> SUBSET Request]
      /\ taken' \in [Flusher -> Seq(Request)] /\ taken'["main"] = << >>
      /\ rawBatch' \in Seq(Request)
  BY DEF Ends, PcLabel, Flusher
<1> QED
  BY <1>1, <1>2 DEF Ends, TypeOK, PcLabel

LEMMA TypeStep == TypeOK /\ [Next]_vars => TypeOK'
<1> SUFFICES ASSUME TypeOK, [Next]_vars PROVE TypeOK'
  OBVIOUS
<1> USE DEF Goto, Carries
<1>1. ASSUME NEW w \in Worker, NEW q \in Request, ProcessData(w, q)
      PROVE  TypeOK'
  <2>1. /\ rawBatch' \in Seq(Request) /\ received' \in [Request -> Nat]
        /\ early' \subseteq Request
    BY <1>1 DEF ProcessData, TypeOK
  <2>2. /\ pc' \in [Mapping -> PcLabel]
        /\ what' \in [Mapping -> SUBSET Request]
    BY <1>1 DEF ProcessData, TypeOK, PcLabel, Mapping
  <2> QED
    BY <1>1, <2>1, <2>2 DEF ProcessData, TypeOK, PcLabel
<1>2. CASE FlusherTakes
  <2>1. taken'["main"] = taken["main"]
    BY <1>2, TakeType DEF FlusherTakes, Flusher
  <2> QED
    BY <1>2, <2>1, TakeType DEF FlusherTakes, TypeOK, Flusher
<1>3. ASSUME NEW f \in Flusher, InsertMany(f) PROVE TypeOK'
  <2>1. PICK n \in 0..Len(taken[f]) : raw' = InsertedMany(raw, taken[f], n)
    BY <1>3 DEF InsertMany
  <2>2. Grows
    BY <2>1, InsertGrows DEF TypeOK
  <2>3. /\ taken' \in [Flusher -> Seq(Request)]
        /\ taken'["main"] # << >> <=> phase' = "flushing"
        /\ phase' \in {"open", "closing", "flushing", "closed", "exited", "dead"}
    <3>1. CASE f = "main"
      BY <1>3, <3>1 DEF InsertMany, TypeOK, Flusher
    <3>2. CASE f # "main"
      BY <1>3, <3>2 DEF InsertMany, TypeOK, Flusher
    <3> QED
      BY <3>1, <3>2
  <2>4. faults' \in Nat
    BY <1>3 DEF InsertMany, Fault, TypeOK
  <2>5. todo' \subseteq DOMAIN raw'
    BY <1>3, <2>2 DEF InsertMany, Grows, TypeOK
  <2> QED
    BY <1>3, <2>2, <2>3, <2>4, <2>5 DEF InsertMany, TypeOK, Grows
<1>4. ASSUME NEW t \in Mapping, MapStep(t) PROVE TypeOK'
  <2>1. /\ pc' \in [Mapping -> PcLabel]
        /\ what' \in [Mapping -> SUBSET Request]
    BY <1>4 DEF MapStep, Detect, DetectFails, DetectWrong, Fill, MapFails,
                CopyAndAdd, GiveUp, TypeOK, PcLabel
  <2>2. overlapped' \subseteq Mapping
    BY <1>4 DEF MapStep, Detect, DetectFails, DetectWrong, LeaveDetect, Fill,
                MapFails, CopyAndAdd, TypeOK, Overlap, InMapFields
  <2>3. buffer' \subseteq Request
    <3>1. CASE Fill(t)
      <4>1. PICK rest \in SUBSET UNION {what[u] : u \in InMapFields} :
              buffer' = what[t] \cup rest
        BY <3>1 DEF Fill
      <4>2. \A u \in InMapFields : what[u] \subseteq Request
        BY DEF InMapFields, TypeOK
      <4>3. what[t] \subseteq Request
        BY DEF TypeOK
      <4> QED
        BY <4>1, <4>2, <4>3
    <3>2. CASE MapFails(t)
      <4>1. PICK rest \in SUBSET UNION {what[u] : u \in InMapFields \cup {t}} :
              buffer' = rest
        BY <3>2 DEF MapFails
      <4>2. \A u \in InMapFields \cup {t} : what[u] \subseteq Request
        BY DEF InMapFields, TypeOK
      <4> QED
        BY <4>1, <4>2
    <3>3. CASE buffer' = buffer
      BY <3>3 DEF TypeOK
    <3> QED
      BY <1>4, <3>1, <3>2, <3>3
         DEF MapStep, Detect, DetectFails, DetectWrong, LeaveDetect, CopyAndAdd
  <2>4. made' \in [Request -> Nat]
    BY <1>4 DEF MapStep, Detect, DetectFails, DetectWrong, LeaveDetect, Fill,
                MapFails, CopyAndAdd, TypeOK
  <2>5. mixed' \subseteq Mapping
    BY <1>4 DEF MapStep, Detect, DetectFails, DetectWrong, LeaveDetect, InDetect,
                Fill, MapFails, CopyAndAdd, TypeOK
  <2>6. UNCHANGED <<phase, batchVars, todo, clientVars, faults, crashes>>
    BY <1>4 DEF MapStep, Detect, DetectFails, DetectWrong, LeaveDetect, Fill,
                MapFails, CopyAndAdd
  <2> QED
    BY <2>1, <2>2, <2>3, <2>4, <2>5, <2>6
       DEF TypeOK, PcLabel, batchVars, clientVars
<1>5. CASE Fetch
  <2>1. todo' \subseteq DOMAIN raw
    BY <1>5 DEF Fetch, GetUnprocessed, Unprocessed, Present
  <2> QED
    BY <1>5, <2>1 DEF Fetch, TypeOK
<1>6. ASSUME NEW d \in todo, Retry(d) PROVE TypeOK'
  <2>1. raw[d] \in RawDoc
    BY RawType DEF TypeOK
  <2>2. raw[d].req \in Request
    BY <2>1 DEF RawDoc
  <2>3. /\ pc' \in [Mapping -> PcLabel]
        /\ what' \in [Mapping -> SUBSET Request]
    BY <1>6, <2>2 DEF Retry, TypeOK, PcLabel
  <2> QED
    BY <1>6, <2>3 DEF Retry, TypeOK, PcLabel
<1>7. ASSUME NEW d \in todo, Mark(d) PROVE TypeOK'
  <2>1. SameDocs(raw, raw') /\ faults' \in Nat
    BY <1>7, MarkDocs
  <2>2. /\ pc' \in [Mapping -> PcLabel]
        /\ what' \in [Mapping -> SUBSET Request]
    BY <1>7 DEF Mark, TypeOK, PcLabel
  <2>3. todo' \subseteq DOMAIN raw'
    BY <1>7, <2>1 DEF Mark, SameDocs, TypeOK
  <2> QED
    BY <1>7, <2>1, <2>2, <2>3 DEF Mark, SameDocs, TypeOK, PcLabel
<1>8. CASE Cleanup
  <2>1. PICK cutoff \in DOMAIN raw : raw' = Cleaned(raw, cutoff)
    BY <1>8 DEF Cleanup
  <2>2. SameDocs(raw, raw')
    BY <2>1, CleanedDocs, RawType
  <2> QED
    BY <1>8, <2>2 DEF Cleanup, TypeOK, SameDocs
<1>9. CASE CloseBegin
  BY <1>9 DEF CloseBegin, TypeOK
<1>10. CASE CloseFlush
  <2>1. CASE rawBatch = << >>
    BY <1>10, <2>1 DEF CloseFlush, TypeOK
  <2>2. CASE rawBatch # << >>
    BY <1>10, <2>2, TakeType DEF CloseFlush, TypeOK, Flusher
  <2> QED
    BY <2>1, <2>2
<1>11. CASE Exit
  <2>1. crashes' \in Nat
    BY <1>11 DEF Exit, TypeOK
  <2> QED
    BY <1>11, <2>1, EndsType DEF Exit
<1>12. CASE Crash
  <2>1. crashes' \in Nat
    BY <1>12 DEF Crash, TypeOK
  <2> QED
    BY <1>12, <2>1, EndsType DEF Crash
<1>13. CASE Restart
  BY <1>13 DEF Restart, TypeOK
<1>14. CASE UNCHANGED vars
  BY <1>14 DEF vars, TypeOK
<1> QED
  BY <1>1, <1>2, <1>3, <1>4, <1>5, <1>6, <1>7, <1>8, <1>9, <1>10, <1>11,
     <1>12, <1>13, <1>14
     DEF Next

(* Every variable keeps its type; main holds a batch exactly while Close   *)
(* flushes.                                                                *)
THEOREM OptimizedTypeCorrect == SafetySpec => []TypeOK
BY TypeInit, TypeStep, PTL DEF SafetySpec
-----------------------------------------------------------------------------
(* MapFields: who is in it and has met nobody is in it alone, and the      *)
(* buffer holds his fields.                                                *)
OwnInv ==
  \A t \in InMapFields \ overlapped : buffer = what[t] /\ InMapFields = {t}

LEMMA OwnStep == TypeOK /\ OwnInv /\ [Next]_vars => OwnInv'
<1> SUFFICES ASSUME TypeOK, OwnInv, [Next]_vars PROVE OwnInv'
  OBVIOUS
<1> USE DEF Goto, Carries
<1>t. /\ \A t \in Mapping : pc[t] \in PcLabel
      /\ DOMAIN pc = Mapping /\ DOMAIN what = Mapping
  BY DEF TypeOK, PcLabel
<1>k. ASSUME /\ InMapFields' = InMapFields /\ UNCHANGED <<buffer, overlapped>>
             /\ \A t \in InMapFields : what'[t] = what[t]
      PROVE  OwnInv'
  BY <1>k DEF OwnInv
<1>1. ASSUME NEW w \in Worker, NEW q \in Request, ProcessData(w, q)
      PROVE  OwnInv'
  BY <1>1, <1>k, <1>t DEF ProcessData, InMapFields, Mapping
<1>2. ASSUME NEW t \in Mapping, Detect(t) \/ DetectFails(t) \/ DetectWrong(t)
      PROVE  OwnInv'
  BY <1>2, <1>k, <1>t DEF Detect, DetectFails, DetectWrong, LeaveDetect, GiveUp,
                          InMapFields
<1>8. ASSUME NEW t \in Mapping, MapFails(t) PROVE OwnInv'
  <2>1. InMapFields' = InMapFields
    BY <1>8, <1>t DEF MapFails, GiveUp, InMapFields
  <2>2. InMapFields \subseteq overlapped'
    BY <1>8 DEF MapFails
  <2> QED
    BY <2>1, <2>2 DEF OwnInv
<1>3. ASSUME NEW t \in Mapping, Fill(t) PROVE OwnInv'
  <2>1. InMapFields' = InMapFields \cup {t}
    BY <1>3, <1>t DEF Fill, InMapFields
  <2>2. CASE InMapFields = {}
    <3>1. UNION {what[u] : u \in InMapFields} = {}
      BY <2>2
    <3>2. buffer' = what[t]
      BY <1>3, <3>1 DEF Fill
    <3> QED
      BY <1>3, <2>1, <2>2, <3>2 DEF OwnInv, Fill
  <2>3. CASE InMapFields # {}
    <3>1. overlapped' = overlapped \cup {t} \cup InMapFields
      BY <1>3, <2>3 DEF Fill, Overlap
    <3> QED
      BY <2>1, <3>1 DEF OwnInv
  <2> QED
    BY <2>2, <2>3
<1>4. ASSUME NEW t \in Mapping, CopyAndAdd(t) PROVE OwnInv'
  <2>1. t \in InMapFields /\ InMapFields' = InMapFields \ {t}
    BY <1>4, <1>t DEF CopyAndAdd, InMapFields
  <2>2. overlapped' = overlapped \ {t} /\ buffer' = buffer
    BY <1>4 DEF CopyAndAdd
  <2> QED
    BY <2>1, <2>2 DEF OwnInv
<1>5. ASSUME NEW d \in todo, Retry(d) \/ Mark(d) PROVE OwnInv'
  BY <1>5, <1>k, <1>t DEF Retry, Mark, InMapFields
<1>6. ASSUME NEW label, Ends(label) PROVE OwnInv'
  BY <1>6 DEF Ends, OwnInv, InMapFields
<1>7. CASE \/ FlusherTakes \/ Fetch \/ Cleanup \/ CloseBegin \/ CloseFlush
           \/ Restart \/ (\E f \in Flusher : InsertMany(f)) \/ UNCHANGED vars
  <2>1. UNCHANGED <<pc, what, buffer, overlapped>>
    BY <1>7 DEF FlusherTakes, Fetch, Cleanup, CloseBegin, CloseFlush, Restart,
                InsertMany, vars
  <2> QED
    BY <2>1, <1>k DEF InMapFields
<1> QED
  BY <1>1, <1>2, <1>3, <1>4, <1>5, <1>6, <1>7, <1>8
     DEF Next, MapStep, Exit, Crash

(* A caller of MapFields that met no other one copies all the fields of    *)
(* its own payload and no others.                                          *)
THEOREM CallersOwnFields == SafetySpec => []OwnFields
<1>1. Init => OwnInv
  BY DEF Init, OwnInv, InMapFields
<1>2. OwnInv => OwnFields
  BY DEF OwnInv, OwnFields, InMapFields
<1> QED
  BY <1>1, <1>2, OwnStep, OptimizedTypeCorrect, PTL DEF SafetySpec
-----------------------------------------------------------------------------
(* What was answered before Close was answered.                            *)
EarlyInv == \A q \in early : received[q] >= 1

LEMMA Received ==
  ASSUME TypeOK, [Next]_vars
  PROVE  \A q \in Request : received[q] \in Nat /\ received'[q] \in Nat
                           /\ received'[q] >= received[q]
<1>1. ASSUME NEW w \in Worker, NEW q \in Request, ProcessData(w, q)
      PROVE  \A p \in Request : received'[p] \in Nat
                               /\ received'[p] >= received[p]
  BY <1>1 DEF ProcessData, TypeOK
<1>2. CASE received' = received
  BY <1>2 DEF TypeOK
<1>3. \A q \in Request : received[q] \in Nat
  BY DEF TypeOK
<1>4. received' = received \/ \E w \in Worker, q \in Request : ProcessData(w, q)
  BY DEF Next, MapStep, FlusherTakes, Fetch, Cleanup, CloseBegin, CloseFlush,
         Restart, InsertMany, Retry, Mark, Exit, Crash, Ends, Detect,
         DetectFails, DetectWrong, Fill, MapFails, CopyAndAdd, vars
<1> QED
  BY <1>1, <1>2, <1>3, <1>4

LEMMA ClosedStep ==
  TypeOK /\ EarlyInv /\ ClosedIsFlushed /\ [Next]_vars
    => EarlyInv' /\ ClosedIsFlushed'
<1> SUFFICES ASSUME TypeOK, EarlyInv, ClosedIsFlushed, [Next]_vars
             PROVE  EarlyInv' /\ ClosedIsFlushed'
  OBVIOUS
<1>t. rawBatch \in Seq(Request) /\ early \subseteq Request
  BY DEF TypeOK
<1>r. \A q \in Request : received[q] \in Nat /\ received'[q] \in Nat
                        /\ received'[q] >= received[q]
  BY Received
<1>e. ASSUME early' = early PROVE EarlyInv'
  BY <1>e, <1>r, <1>t DEF EarlyInv
<1>1. ASSUME NEW w \in Worker, NEW p \in Request, ProcessData(w, p)
      PROVE  EarlyInv' /\ ClosedIsFlushed'
  <2>1. received' = [received EXCEPT ![p] = @ + 1] /\ phase' = phase
    BY <1>1 DEF ProcessData
  <2>2. received'[p] = received[p] + 1
    BY <2>1 DEF TypeOK
  <2>3. EarlyInv'
    BY <1>1, <1>r, <1>t, <2>2 DEF ProcessData, EarlyInv
  <2>4. ASSUME phase \in {"flushing", "closed"},
               NEW q \in early' \cap Range(rawBatch')
        PROVE  q \in Request /\ received'[q] > 1
    <3>1. early' = early /\ rawBatch' = Append(rawBatch, p)
      BY <1>1, <2>4 DEF ProcessData
    <3>2. Range(rawBatch') \subseteq Range(rawBatch) \cup {p}
      BY <1>t, <3>1 DEF Range
    <3>3. CASE q = p
      BY <1>r, <2>2, <2>4, <3>1, <3>3 DEF EarlyInv
    <3>4. CASE q # p
      <4>1. q \in early \cap Range(rawBatch)
        BY <2>4, <3>1, <3>2, <3>4
      <4>2. q \in Request /\ received[q] > 1
        BY <2>4, <4>1 DEF ClosedIsFlushed
      <4> QED
        BY <1>r, <4>2
    <3> QED
      BY <3>3, <3>4
  <2> QED
    BY <2>1, <2>3, <2>4 DEF ClosedIsFlushed
<1>2. ASSUME rawBatch' = << >>, early' = early PROVE EarlyInv' /\ ClosedIsFlushed'
  <2>1. Range(rawBatch') = {}
    BY <1>2 DEF Range
  <2> QED
    BY <1>2, <1>e, <2>1 DEF ClosedIsFlushed
<1>3. ASSUME UNCHANGED <<rawBatch, clientVars>>,
             phase' \in {"flushing", "closed"} => phase \in {"flushing", "closed"}
      PROVE  EarlyInv' /\ ClosedIsFlushed'
  BY <1>3 DEF EarlyInv, ClosedIsFlushed
<1>4. ASSUME NEW f \in Flusher, InsertMany(f) PROVE EarlyInv' /\ ClosedIsFlushed'
  <2>1. f = "main" => phase = "flushing"
    BY <1>4 DEF InsertMany, TypeOK
  <2> QED
    BY <1>3, <1>4, <2>1 DEF InsertMany
<1>5. CASE FlusherTakes \/ CloseFlush \/ Exit \/ Crash
  BY <1>2, <1>5 DEF FlusherTakes, CloseFlush, Take, Exit, Crash, Ends
<1>6. CASE \/ Fetch \/ Cleanup \/ CloseBegin \/ Restart
           \/ (\E t \in Mapping : MapStep(t)) \/ (\E d \in todo : Retry(d) \/ Mark(d))
           \/ UNCHANGED vars
  BY <1>3, <1>6 DEF Fetch, Cleanup, CloseBegin, Restart, MapStep, Detect,
     DetectFails, DetectWrong, Fill, MapFails, CopyAndAdd, Retry, Mark, vars
<1> QED
  BY <1>1, <1>4, <1>5, <1>6 DEF Next

(* Once Close has flushed, no payload answered before it waits in          *)
(* rawBatch, unless it was sent again.                                     *)
THEOREM CloseFlushes == SafetySpec => []ClosedIsFlushed
<1>1. Init => EarlyInv /\ ClosedIsFlushed
  BY DEF Init, EarlyInv, ClosedIsFlushed
<1> QED
  BY <1>1, ClosedStep, OptimizedTypeCorrect, PTL DEF SafetySpec
-----------------------------------------------------------------------------
(* A document that is not processed is never cleaned, and the loop only    *)
(* has such documents to do.                                               *)
StoreInv ==
  /\ todo \subseteq Unprocessed(raw)
  /\ \A d \in DOMAIN raw : ~raw[d].processed => raw[d].present

(* The loop works on the oldest document it has to do, and is about to     *)
(* mark it as processed only with a record made of its payload.            *)
LoopInv ==
  /\ pc[Loop] # "idle" =>
       \E d \in todo : Oldest(d) /\ what[Loop] = {raw[d].req}
  /\ pc[Loop] = "mark" => \A q \in what[Loop] : made[q] > 0

LEMMA GrowsStore ==
  ASSUME TypeOK, StoreInv, Grows, todo' \subseteq todo,
         \A i \in DOMAIN raw' \ DOMAIN raw : \E q \in Request : raw'[i] = NewDoc(q)
  PROVE  StoreInv'
<1>1. \A i \in todo : i \in DOMAIN raw /\ raw[i].present /\ ~raw[i].processed
  BY DEF StoreInv, Unprocessed, Present
<1>2. \A i \in todo' : /\ i \in DOMAIN raw' /\ raw'[i].present
                       /\ ~raw'[i].processed
  BY <1>1 DEF Grows
<1>3. \A i \in DOMAIN raw' \ DOMAIN raw : raw'[i].present
  BY DEF NewDoc
<1> QED
  BY <1>2, <1>3 DEF StoreInv, Grows, Unprocessed, Present

LEMMA StoreStep == TypeOK /\ StoreInv /\ [Next]_vars => StoreInv'
<1> SUFFICES ASSUME TypeOK, StoreInv, [Next]_vars PROVE StoreInv'
  OBVIOUS
<1>a. \A i \in todo : i \in DOMAIN raw /\ raw[i].present /\ ~raw[i].processed
  BY DEF StoreInv, Unprocessed, Present
<1>1. ASSUME NEW f \in Flusher, InsertMany(f) PROVE StoreInv'
  <2>1. PICK n \in 0..Len(taken[f]) : raw' = InsertedMany(raw, taken[f], n)
    BY <1>1 DEF InsertMany
  <2>2. taken[f] \in Seq(Request) /\ \A j \in 1..n : taken[f][j] \in Request
    BY DEF TypeOK
  <2>3. /\ Grows
        /\ \A i \in DOMAIN raw' \ DOMAIN raw :
             \E j \in 1..n : raw'[i] = NewDoc(taken[f][j])
    BY <2>1, <2>2, InsertGrows
  <2> QED
    BY <1>1, <2>2, <2>3, GrowsStore DEF InsertMany
<1>2. ASSUME NEW label, Ends(label) PROVE StoreInv'
  BY <1>2, EndsGrows, GrowsStore DEF Ends
<1>3. CASE Fetch
  BY <1>3 DEF Fetch, StoreInv, GetUnprocessed
<1>4. ASSUME NEW d \in todo, Mark(d) PROVE StoreInv'
  <2>1. /\ DOMAIN raw' = DOMAIN raw /\ todo' = todo \ {d}
        /\ \A i \in DOMAIN raw : raw'[i].present = raw[i].present
        /\ \A i \in DOMAIN raw : i # d => raw'[i] = raw[i]
    BY <1>4, MarkDocs DEF Mark, SameDocs
  <2>2. raw[d].present /\ d \in DOMAIN raw
    BY <1>a
  <2>3. \A i \in todo' : i \in DOMAIN raw' /\ raw'[i].present /\ ~raw'[i].processed
    BY <1>a, <2>1
  <2>4. \A i \in DOMAIN raw' : ~raw'[i].processed => raw'[i].present
    BY <2>1, <2>2 DEF StoreInv
  <2> QED
    BY <2>3, <2>4 DEF StoreInv, Unprocessed, Present
<1>5. CASE Cleanup
  <2>1. PICK cutoff \in DOMAIN raw : raw' = Cleaned(raw, cutoff)
    BY <1>5 DEF Cleanup
  <2>2. /\ SameDocs(raw, raw')
        /\ \A i \in DOMAIN raw :
              /\ raw'[i].processed = raw[i].processed
              /\ ~raw[i].processed => raw'[i].present = raw[i].present
    BY <2>1, CleanedDocs, RawType
  <2>3. todo' = todo /\ DOMAIN raw' = DOMAIN raw
    BY <1>5, <2>2 DEF Cleanup, SameDocs
  <2> QED
    BY <1>a, <2>2, <2>3 DEF StoreInv, Unprocessed, Present
<1>6. CASE UNCHANGED <<raw, todo>>
  BY <1>6 DEF StoreInv
<1> QED
  BY <1>1, <1>2, <1>3, <1>4, <1>5, <1>6
     DEF Next, MapStep, ProcessData, FlusherTakes, CloseBegin, CloseFlush,
         Restart, Retry, Exit, Crash, Detect, DetectFails, DetectWrong, Fill, MapFails, CopyAndAdd, vars

LEMMA StoreCorrect == SafetySpec => []StoreInv
<1>1. Init => StoreInv
  BY DEF Init, StoreInv
<1> QED
  BY <1>1, StoreStep, OptimizedTypeCorrect, PTL DEF SafetySpec

LEMMA MadeGrows ==
  ASSUME TypeOK, [Next]_vars
  PROVE  \A q \in Request : made[q] > 0 => made'[q] > 0
<1>1. \A q \in Request : made[q] \in Nat
  BY DEF TypeOK
<1>2. ASSUME NEW t \in Mapping, CopyAndAdd(t)
      PROVE  \A q \in Request : made[q] > 0 => made'[q] > 0
  BY <1>1, <1>2 DEF CopyAndAdd
<1>3. made' = made \/ \E t \in Mapping : CopyAndAdd(t)
  BY DEF Next, MapStep, ProcessData, FlusherTakes, Fetch, Cleanup, CloseBegin,
         CloseFlush, Restart, InsertMany, Retry, Mark, Exit, Crash, Ends, Detect,
         DetectFails, DetectWrong, Fill, MapFails, vars
<1> QED
  BY <1>2, <1>3

(* Whatever does not touch the loop's document leaves LoopInv alone.       *)
LEMMA LoopKept ==
  ASSUME TypeOK, LoopInv, [Next]_vars, todo' = todo,
         pc'[Loop] = pc[Loop], what'[Loop] = what[Loop],
         \A d \in todo : raw'[d].req = raw[d].req
  PROVE  LoopInv'
<1>1. \A q \in what[Loop] : q \in Request
  BY DEF TypeOK, Mapping
<1>2. pc'[Loop] = "mark" => \A q \in what'[Loop] : made'[q] > 0
  BY <1>1, MadeGrows DEF LoopInv
<1>3. ASSUME pc'[Loop] # "idle"
      PROVE  \E d \in todo' : Oldest(d)' /\ what'[Loop] = {raw'[d].req}
  <2>1. PICK d \in todo : Oldest(d) /\ what[Loop] = {raw[d].req}
    BY <1>3 DEF LoopInv
  <2>2. Oldest(d)'
    BY <2>1 DEF Oldest
  <2> QED
    BY <2>1, <2>2
<1> QED
  BY <1>2, <1>3 DEF LoopInv

LEMMA LoopStep == TypeOK /\ LoopInv /\ [Next]_vars => LoopInv'
<1> SUFFICES ASSUME TypeOK, LoopInv, [Next]_vars PROVE LoopInv'
  OBVIOUS
<1> USE DEF Goto, Carries
<1>t. /\ \A d \in todo : d \in DOMAIN raw /\ raw[d].req \in Request
      /\ Loop \in Mapping /\ Loop \notin Worker
      /\ DOMAIN pc = Mapping /\ DOMAIN what = Mapping
      /\ what[Loop] \subseteq Request
  BY RawType, WorkerAssumption DEF TypeOK, RawDoc, Mapping
<1>1. ASSUME NEW w \in Worker, NEW q \in Request, ProcessData(w, q)
      PROVE  LoopInv'
  BY <1>1, <1>t, LoopKept DEF ProcessData
<1>2. ASSUME NEW f \in Flusher, InsertMany(f) PROVE LoopInv'
  <2>1. PICK n \in 0..Len(taken[f]) : raw' = InsertedMany(raw, taken[f], n)
    BY <1>2 DEF InsertMany
  <2>2. taken[f] \in Seq(Request)
    BY DEF TypeOK
  <2>3. Grows
    BY <2>1, <2>2, InsertGrows
  <2> QED
    BY <1>2, <1>t, <2>3, LoopKept DEF InsertMany, Grows
<1>3. ASSUME NEW t \in Mapping, MapStep(t) PROVE LoopInv'
  <2>1. CASE t # Loop
    BY <1>3, <1>t, <2>1, LoopKept
       DEF MapStep, Detect, DetectFails, DetectWrong, Fill, MapFails, CopyAndAdd
  <2>2. CASE t = Loop
    <3>1. PICK d \in todo : Oldest(d) /\ what[Loop] = {raw[d].req}
      BY <1>3, <2>2 DEF LoopInv, MapStep, Detect, DetectFails, DetectWrong, Fill, MapFails, CopyAndAdd
    <3>2. UNCHANGED <<raw, todo, what>>
      BY <1>3, <2>2 DEF MapStep, Detect, DetectFails, DetectWrong, Fill, MapFails, CopyAndAdd
    <3>3. d \in todo' /\ Oldest(d)' /\ what'[Loop] = {raw'[d].req}
      BY <3>1, <3>2 DEF Oldest
    <3>4. ASSUME pc'[Loop] = "mark", NEW q \in what'[Loop] PROVE made'[q] > 0
      <4>1. CopyAndAdd(Loop)
        BY <1>3, <1>t, <2>2, <3>4 DEF MapStep, Detect, DetectFails, DetectWrong, Fill,
               MapFails
      <4>2. q \in what[Loop] /\ q \in Request /\ made[q] \in Nat
        BY <1>t, <3>2, <3>4 DEF TypeOK
      <4>3. made'[q] = made[q] + 1
        BY <4>1, <4>2 DEF CopyAndAdd
      <4> QED
        BY <4>2, <4>3
    <3> QED
      BY <3>3, <3>4 DEF LoopInv
  <2> QED
    BY <2>1, <2>2
<1>4. CASE Fetch
  BY <1>4 DEF Fetch, LoopInv
<1>5. ASSUME NEW d \in todo, Retry(d) PROVE LoopInv'
  <2>1. pc'[Loop] = "detect" /\ what'[Loop] = {raw[d].req}
    BY <1>5, <1>t DEF Retry
  <2>2. d \in todo' /\ Oldest(d)' /\ raw' = raw
    BY <1>5 DEF Retry, Oldest
  <2> QED
    BY <2>1, <2>2 DEF LoopInv
<1>6. ASSUME NEW d \in todo, Mark(d) PROVE LoopInv'
  BY <1>6, <1>t DEF Mark, LoopInv
<1>7. CASE Cleanup
  <2>1. PICK cutoff \in DOMAIN raw : raw' = Cleaned(raw, cutoff)
    BY <1>7 DEF Cleanup
  <2>2. SameDocs(raw, raw')
    BY <2>1, CleanedDocs, RawType
  <2> QED
    BY <1>7, <1>t, <2>2, LoopKept DEF Cleanup, SameDocs
<1>8. ASSUME NEW label, Ends(label) PROVE LoopInv'
  BY <1>8, <1>t DEF Ends, LoopInv
<1>9. CASE \/ FlusherTakes \/ CloseBegin \/ CloseFlush \/ Restart
           \/ UNCHANGED vars
  BY <1>9, LoopKept DEF FlusherTakes, CloseBegin, CloseFlush, Restart, vars
<1> QED
  BY <1>1, <1>2, <1>3, <1>4, <1>5, <1>6, <1>7, <1>8, <1>9 DEF Next, Exit, Crash

LEMMA LoopCorrect == SafetySpec => []LoopInv
<1>1. Init => LoopInv
  BY DEF Init, LoopInv, Mapping
<1> QED
  BY <1>1, LoopStep, OptimizedTypeCorrect, PTL DEF SafetySpec

LEMMA ReplayableStep ==
  TypeOK /\ StoreInv /\ LoopInv /\ Replayable /\ [Next]_vars => Replayable'
<1> SUFFICES ASSUME TypeOK, StoreInv, LoopInv, Replayable, [Next]_vars,
                    NEW i \in DOMAIN raw', i \notin Unprocessed(raw')
             PROVE  made'[raw'[i].req] > 0
  BY DEF Replayable
<1>s. StoreInv'
  BY StoreStep
<1>p. raw'[i].processed
  BY <1>s DEF StoreInv, Unprocessed, Present
<1>k. ASSUME NEW d \in DOMAIN raw, raw[d].processed, raw'[i].req = raw[d].req
      PROVE  made'[raw'[i].req] > 0
  <2>1. made[raw[d].req] > 0
    BY <1>k DEF Replayable, Unprocessed
  <2>2. raw[d].req \in Request
    BY RawType DEF RawDoc
  <2> QED
    BY <1>k, <2>1, <2>2, MadeGrows
<1>1. ASSUME Grows, \A j \in DOMAIN raw' \ DOMAIN raw : ~raw'[j].processed
      PROVE  made'[raw'[i].req] > 0
  BY <1>1, <1>k, <1>p DEF Grows
<1>2. ASSUME NEW f \in Flusher, InsertMany(f) PROVE made'[raw'[i].req] > 0
  <2>1. PICK n \in 0..Len(taken[f]) : raw' = InsertedMany(raw, taken[f], n)
    BY <1>2 DEF InsertMany
  <2>2. taken[f] \in Seq(Request)
    BY DEF TypeOK
  <2>3. /\ Grows
        /\ \A j \in DOMAIN raw' \ DOMAIN raw :
              \E k \in 1..n : raw'[j] = NewDoc(taken[f][k])
    BY <2>1, <2>2, InsertGrows
  <2> QED
    BY <1>1, <2>3 DEF NewDoc
<1>3. ASSUME NEW label, Ends(label) PROVE made'[raw'[i].req] > 0
  BY <1>1, <1>3, EndsGrows DEF NewDoc
<1>4. ASSUME NEW d \in todo, Mark(d) PROVE made'[raw'[i].req] > 0
  <2>1. /\ DOMAIN raw' = DOMAIN raw /\ raw'[i].req = raw[i].req
        /\ \A j \in DOMAIN raw : j # d => raw'[j] = raw[j]
        /\ raw'[d].processed => raw[d].processed \/ pc[Loop] = "mark"
    BY <1>4, MarkDocs DEF SameDocs
  <2>2. CASE raw[i].processed
    BY <1>k, <2>1, <2>2
  <2>3. CASE ~raw[i].processed
    <3>1. i = d /\ pc[Loop] = "mark"
      BY <1>p, <2>1, <2>3
    <3>2. PICK e \in todo : Oldest(e) /\ what[Loop] = {raw[e].req}
      BY <3>1 DEF LoopInv
    <3>3. d \in Nat /\ e \in Nat
      BY RawType DEF TypeOK
    <3>4. d <= e /\ e <= d
      BY <1>4, <3>2 DEF Mark, Oldest
    <3>5. what[Loop] = {raw[i].req}
      BY <3>1, <3>2, <3>3, <3>4
    <3>6. made[raw[i].req] > 0
      BY <3>1, <3>5 DEF LoopInv
    <3>7. raw[i].req \in Request
      BY <2>1, RawType DEF RawDoc
    <3> QED
      BY <2>1, <3>6, <3>7, MadeGrows
  <2> QED
    BY <2>2, <2>3
<1>5. CASE Cleanup
  <2>1. PICK cutoff \in DOMAIN raw : raw' = Cleaned(raw, cutoff)
    BY <1>5 DEF Cleanup
  <2>2. /\ SameDocs(raw, raw')
        /\ \A j \in DOMAIN raw : raw'[j].processed = raw[j].processed
    BY <2>1, CleanedDocs, RawType
  <2> QED
    BY <1>k, <1>p, <2>2 DEF SameDocs
<1>6. CASE raw' = raw
  BY <1>k, <1>p, <1>6
<1> QED
  BY <1>2, <1>3, <1>4, <1>5, <1>6
     DEF Next, MapStep, ProcessData, FlusherTakes, Fetch, CloseBegin, CloseFlush,
         Restart, Retry, Exit, Crash, Detect, DetectFails, DetectWrong, Fill, MapFails, CopyAndAdd, vars

(* Every document is left to be retried until a record was made of its     *)
(* payload: no failed call, mix-up in the mapper or crash marks it early.  *)
THEOREM MarkedAfterRecord == SafetySpec => []Replayable
<1>1. Init => Replayable
  BY DEF Init, Replayable
<1> QED
  BY <1>1, ReplayableStep, StoreCorrect, LoopCorrect, OptimizedTypeCorrect, PTL
     DEF SafetySpec
-----------------------------------------------------------------------------
(* The account of the records of a request: each record, and each          *)
(* goroutine that will make one, stands for a time the payload was sent, a *)
(* processed document, the document the loop is about to mark, or a        *)
(* failure.                                                                *)
Working(q) == {w \in Worker : q \in what[w]}
ProcessedOf(q) == {d \in DocsOf(q) : raw[d].processed}
Pending(q) == IF pc[Loop] = "mark" /\ q \in what[Loop] THEN 1 ELSE 0

Counted ==
  \A q \in Request :
    made[q] + Cardinality(Working(q)) <=
      received[q] + Cardinality(ProcessedOf(q)) + Pending(q) + faults + crashes

(* Nothing happens after the end of the process.                           *)
CountInv == IF phase = "exited" THEN RecordsBounded ELSE Counted

LEMMA FiniteSets ==
  ASSUME TypeOK, NEW q
  PROVE  /\ IsFiniteSet(DocsOf(q)) /\ Cardinality(DocsOf(q)) \in Nat
         /\ IsFiniteSet(ProcessedOf(q)) /\ Cardinality(ProcessedOf(q)) \in Nat
         /\ IsFiniteSet(Working(q)) /\ Cardinality(Working(q)) \in Nat
<1>1. IsFiniteSet(DOMAIN raw)
  BY RawType, FS_Interval
<1>2. /\ DocsOf(q) \subseteq DOMAIN raw /\ ProcessedOf(q) \subseteq DOMAIN raw
      /\ Working(q) \subseteq Worker
  BY DEF DocsOf, ProcessedOf, Working
<1>3. IsFiniteSet(DocsOf(q)) /\ IsFiniteSet(ProcessedOf(q))
  BY <1>1, <1>2, FS_Subset
<1>4. IsFiniteSet(Working(q))
  BY <1>2, FS_Subset, WorkerAssumption
<1> QED
  BY <1>3, <1>4, FS_CardinalityType

LEMMA FiniteSetsPrime ==
  ASSUME TypeOK', NEW q
  PROVE  /\ IsFiniteSet(ProcessedOf(q)') /\ Cardinality(ProcessedOf(q)') \in Nat
         /\ IsFiniteSet(Working(q)') /\ Cardinality(Working(q)') \in Nat
<1>1. raw' \in Seq(RawDoc) /\ DOMAIN raw' = 1..Len(raw') /\ Len(raw') \in Nat
  BY DEF TypeOK
<1>2. IsFiniteSet(DOMAIN raw')
  BY <1>1, FS_Interval
<1>3. ProcessedOf(q)' \subseteq DOMAIN raw' /\ Working(q)' \subseteq Worker
  BY DEF DocsOf, ProcessedOf, Working
<1>4. IsFiniteSet(ProcessedOf(q)') /\ IsFiniteSet(Working(q)')
  BY <1>2, <1>3, FS_Subset, WorkerAssumption
<1> QED
  BY <1>4, FS_CardinalityType

(* A step that makes no record, takes no goroutine to work and keeps the   *)
(* processed documents.                                                    *)
LEMMA CountKept ==
  ASSUME TypeOK, TypeOK', NEW q \in Request,
         made[q] + Cardinality(Working(q)) <=
           received[q] + Cardinality(ProcessedOf(q)) + Pending(q) + faults
             + crashes,
         made'[q] = made[q], received'[q] = received[q],
         Working(q)' \subseteq Working(q),
         ProcessedOf(q) \subseteq ProcessedOf(q)',
         Pending(q) + faults + crashes <= Pending(q)' + faults' + crashes'
  PROVE  made'[q] + Cardinality(Working(q)') <=
           received'[q] + Cardinality(ProcessedOf(q)') + Pending(q)' + faults'
             + crashes'
<1>1. /\ Cardinality(Working(q)') <= Cardinality(Working(q))
      /\ Cardinality(ProcessedOf(q)) <= Cardinality(ProcessedOf(q)')
  BY FiniteSets, FiniteSetsPrime, FS_Subset
<1>2. /\ Cardinality(Working(q)) \in Nat /\ Cardinality(ProcessedOf(q)) \in Nat
      /\ Cardinality(Working(q)') \in Nat /\ Cardinality(ProcessedOf(q)') \in Nat
  BY FiniteSets, FiniteSetsPrime
<1>3. /\ made[q] \in Nat /\ received[q] \in Nat /\ faults \in Nat
      /\ crashes \in Nat /\ faults' \in Nat /\ crashes' \in Nat
  BY DEF TypeOK
<1>4. Pending(q) \in Nat /\ Pending(q)' \in Nat
  BY DEF Pending
<1> QED
  BY <1>1, <1>2, <1>3, <1>4

LEMMA CountsBound ==
  ASSUME TypeOK, StoreInv, LoopInv, Counted
  PROVE  RecordsBounded
<1> SUFFICES ASSUME NEW q \in Request
             PROVE  made[q] <= received[q] + Cardinality(DocsOf(q)) + faults
                                 + crashes
  BY DEF RecordsBounded
<1>1. /\ made[q] \in Nat /\ received[q] \in Nat /\ faults \in Nat
      /\ crashes \in Nat
  BY DEF TypeOK
<1>2. /\ Cardinality(Working(q)) \in Nat /\ Cardinality(ProcessedOf(q)) \in Nat
      /\ Cardinality(DocsOf(q)) \in Nat
      /\ IsFiniteSet(DocsOf(q)) /\ IsFiniteSet(ProcessedOf(q))
  BY FiniteSets
<1>3. Cardinality(ProcessedOf(q)) + Pending(q) <= Cardinality(DocsOf(q))
  <2>1. CASE pc[Loop] = "mark" /\ q \in what[Loop]
    <3>1. PICK d \in todo : what[Loop] = {raw[d].req}
      BY <2>1 DEF LoopInv
    <3>2. d \in DocsOf(q) /\ d \notin ProcessedOf(q)
      BY <2>1, <3>1 DEF StoreInv, Unprocessed, Present, DocsOf, ProcessedOf
    <3>3. ProcessedOf(q) \cup {d} \subseteq DocsOf(q)
      BY <3>2 DEF ProcessedOf
    <3>4. Cardinality(ProcessedOf(q) \cup {d}) = Cardinality(ProcessedOf(q)) + 1
      BY <1>2, <3>2, FS_AddElement
    <3>5. Cardinality(ProcessedOf(q) \cup {d}) <= Cardinality(DocsOf(q))
      BY <1>2, <3>3, FS_Subset
    <3> QED
      BY <2>1, <3>4, <3>5 DEF Pending
  <2>2. CASE ~(pc[Loop] = "mark" /\ q \in what[Loop])
    <3>1. Cardinality(ProcessedOf(q)) <= Cardinality(DocsOf(q))
      BY <1>2, FS_Subset DEF ProcessedOf
    <3> QED
      BY <1>2, <2>2, <3>1 DEF Pending
  <2> QED
    BY <2>1, <2>2
<1>4. Pending(q) \in Nat
  BY DEF Pending
<1>5. made[q] + Cardinality(Working(q)) <=
        received[q] + Cardinality(ProcessedOf(q)) + Pending(q) + faults + crashes
  BY DEF Counted
<1> QED
  BY <1>1, <1>2, <1>3, <1>4, <1>5
-----------------------------------------------------------------------------
LEMMA CountStep ==
  ASSUME TypeOK, TypeOK', StoreInv, LoopInv, Counted, [Next]_vars, ~Exit
  PROVE  Counted'
<1> USE DEF Goto, Carries
<1> DEFINE Balance(q) ==
             made[q] + Cardinality(Working(q)) <=
               received[q] + Cardinality(ProcessedOf(q)) + Pending(q) + faults
                 + crashes
<1> SUFFICES ASSUME NEW q \in Request PROVE Balance(q)'
  BY DEF Counted
<1>b. Balance(q)
  BY DEF Counted
<1>t. /\ made[q] \in Nat /\ received[q] \in Nat /\ faults \in Nat
      /\ crashes \in Nat /\ faults' \in Nat /\ crashes' \in Nat
      /\ Loop \in Mapping /\ Worker \subseteq Mapping /\ Loop \notin Worker
      /\ DOMAIN pc = Mapping /\ DOMAIN what = Mapping
  BY WorkerAssumption DEF TypeOK, Mapping
<1>c. /\ Cardinality(Working(q)) \in Nat /\ Cardinality(ProcessedOf(q)) \in Nat
      /\ Cardinality(Working(q)') \in Nat /\ Cardinality(ProcessedOf(q)') \in Nat
      /\ IsFiniteSet(Working(q)) /\ IsFiniteSet(ProcessedOf(q))
      /\ IsFiniteSet(ProcessedOf(q)')
  BY FiniteSets, FiniteSetsPrime
<1>p. Pending(q) \in {0, 1} /\ Pending(q)' \in {0, 1}
  BY DEF Pending
<1>k. ASSUME made'[q] = made[q], received'[q] = received[q],
             Working(q)' \subseteq Working(q),
             ProcessedOf(q) \subseteq ProcessedOf(q)',
             Pending(q) + faults + crashes <= Pending(q)' + faults' + crashes'
      PROVE  Balance(q)'
  BY <1>b, <1>k, CountKept
<1>r. ASSUME raw' = raw PROVE ProcessedOf(q)' = ProcessedOf(q)
  BY <1>r DEF ProcessedOf, DocsOf
<1>w. ASSUME what' = what PROVE Working(q)' = Working(q)
  BY <1>w DEF Working
<1>1. ASSUME NEW w \in Worker, NEW p \in Request, ProcessData(w, p)
      PROVE  Balance(q)'
  <2>1. what' = [what EXCEPT ![w] = {p}] /\ pc' = [pc EXCEPT ![w] = "detect"]
    BY <1>1 DEF ProcessData
  <2>2. ProcessedOf(q)' = ProcessedOf(q)
    BY <1>1, <1>r DEF ProcessData
  <2>3. Pending(q)' = Pending(q)
    BY <1>t, <2>1 DEF Pending
  <2>4. made' = made /\ faults' = faults /\ crashes' = crashes
    BY <1>1 DEF ProcessData
  <2>5. CASE q = p
    <3>1. received'[q] = received[q] + 1
      BY <1>1, <2>5 DEF ProcessData, TypeOK
    <3>2. Working(q)' \subseteq Working(q) \cup {w}
      BY <1>t, <2>1 DEF Working
    <3>3. /\ IsFiniteSet(Working(q) \cup {w})
          /\ Cardinality(Working(q) \cup {w}) <= Cardinality(Working(q)) + 1
          /\ Cardinality(Working(q) \cup {w}) \in Nat
      <4>1. /\ IsFiniteSet(Working(q) \cup {w})
            /\ Cardinality(Working(q) \cup {w}) =
                 IF w \in Working(q) THEN Cardinality(Working(q))
                                     ELSE Cardinality(Working(q)) + 1
        BY <1>c, FS_AddElement
      <4> QED
        BY <1>c, <4>1
    <3>4. Cardinality(Working(q)') <= Cardinality(Working(q) \cup {w})
      BY <3>2, <3>3, FS_Subset
    <3> QED
      BY <1>b, <1>t, <1>c, <1>p, <2>2, <2>3, <2>4, <3>1, <3>3, <3>4
  <2>6. CASE q # p
    <3>1. received'[q] = received[q]
      BY <1>1, <2>6 DEF ProcessData, TypeOK
    <3>2. Working(q)' \subseteq Working(q)
      BY <1>t, <2>1, <2>6 DEF Working
    <3> QED
      BY <1>k, <1>p, <1>t, <2>2, <2>3, <2>4, <3>1, <3>2
  <2> QED
    BY <2>5, <2>6
<1>2. ASSUME NEW f \in Flusher, InsertMany(f) PROVE Balance(q)'
  <2>1. PICK n \in 0..Len(taken[f]) : raw' = InsertedMany(raw, taken[f], n)
    BY <1>2 DEF InsertMany
  <2>2. taken[f] \in Seq(Request)
    BY DEF TypeOK
  <2>3. Grows
    BY <2>1, <2>2, InsertGrows
  <2>4. ProcessedOf(q) \subseteq ProcessedOf(q)'
    BY <2>3 DEF Grows, ProcessedOf, DocsOf
  <2>5. /\ UNCHANGED <<made, received, pc, what, crashes>> /\ faults <= faults'
    BY <1>2, <1>t DEF InsertMany, Fault
  <2>6. Pending(q)' = Pending(q)
    BY <2>5 DEF Pending
  <2> QED
    BY <1>k, <1>w, <1>t, <1>p, <2>4, <2>5, <2>6
<1>3. ASSUME NEW t \in Mapping, \/ Detect(t) \/ DetectFails(t) \/ DetectWrong(t)
                                \/ Fill(t) \/ MapFails(t)
      PROVE  Balance(q)'
  <2>1. /\ UNCHANGED <<raw, made, received, faults, crashes>>
        /\ what' = what \/ (t \in Worker /\ what' = [what EXCEPT ![t] = {}])
    BY <1>3, <1>t DEF Detect, DetectFails, DetectWrong, Fill, MapFails, Mapping
  <2>2. Working(q)' \subseteq Working(q)
    BY <1>t, <2>1 DEF Working
  <2>3. pc[Loop] = "mark" => pc'[Loop] = "mark" /\ what'[Loop] = what[Loop]
    BY <1>3, <1>t DEF Detect, DetectFails, DetectWrong, Fill, MapFails
  <2>4. Pending(q) <= Pending(q)'
    BY <2>3 DEF Pending
  <2> QED
    BY <1>k, <1>r, <1>t, <1>p, <2>1, <2>2, <2>4
<1>4. ASSUME NEW t \in Mapping, CopyAndAdd(t) PROVE Balance(q)'
  <2>1. /\ UNCHANGED <<raw, received, faults, crashes>>
        /\ made'[q] = IF q \in what[t] THEN made[q] + 1 ELSE made[q]
        /\ pc[t] = "copy"
    BY <1>4 DEF CopyAndAdd
  <2>2. ProcessedOf(q)' = ProcessedOf(q)
    BY <1>r, <2>1
  <2>3. CASE t = Loop
    <3>1. pc'[Loop] = "mark" /\ what' = what
      BY <1>4, <1>t, <2>3 DEF CopyAndAdd
    <3>2. Working(q)' = Working(q)
      BY <1>w, <3>1
    <3>3. Pending(q) = 0 /\ Pending(q)' = IF q \in what[Loop] THEN 1 ELSE 0
      BY <2>1, <2>3, <3>1 DEF Pending
    <3> QED
      BY <1>b, <1>t, <1>c, <2>1, <2>2, <2>3, <3>2, <3>3
  <2>4. CASE t # Loop
    <3>1. t \in Worker /\ what' = [what EXCEPT ![t] = {}]
          /\ pc' = [pc EXCEPT ![t] = "idle"]
      BY <1>4, <2>4 DEF CopyAndAdd, Mapping
    <3>2. Working(q)' = Working(q) \ {t}
      BY <1>t, <3>1 DEF Working
    <3>3. Cardinality(Working(q)') = IF q \in what[t]
                                       THEN Cardinality(Working(q)) - 1
                                       ELSE Cardinality(Working(q))
      BY <1>c, <3>1, <3>2, FS_RemoveElement DEF Working
    <3>4. Pending(q)' = Pending(q)
      BY <1>t, <2>4, <3>1 DEF Pending
    <3> QED
      BY <1>b, <1>t, <1>c, <1>p, <2>1, <2>2, <3>3, <3>4
  <2> QED
    BY <2>3, <2>4
<1>5. ASSUME NEW d \in todo, Retry(d) PROVE Balance(q)'
  <2>1. /\ UNCHANGED <<raw, made, received, faults, crashes>>
        /\ pc[Loop] # "mark" /\ pc'[Loop] # "mark"
        /\ \A w \in Worker : what'[w] = what[w]
    BY <1>5, <1>t DEF Retry
  <2>2. Pending(q) = 0 /\ Pending(q)' = 0 /\ Working(q)' = Working(q)
    BY <2>1 DEF Pending, Working
  <2> QED
    BY <1>k, <1>r, <1>t, <2>1, <2>2
<1>6. ASSUME NEW d \in todo, Mark(d) PROVE Balance(q)'
  <2>1. /\ UNCHANGED <<made, received, crashes>> /\ pc'[Loop] = "idle"
        /\ \A w \in Worker : what'[w] = what[w]
        /\ Oldest(d)
    BY <1>6, <1>t DEF Mark
  <2>2. Working(q)' = Working(q) /\ Pending(q)' = 0
    BY <2>1 DEF Working, Pending
  <2>3. d \in DOMAIN raw /\ raw[d].present /\ ~raw[d].processed
    BY DEF StoreInv, Unprocessed, Present
  <2>4. /\ DOMAIN raw' = DOMAIN raw
        /\ \A i \in DOMAIN raw : raw'[i].req = raw[i].req
        /\ \A i \in DOMAIN raw : i # d => raw'[i] = raw[i]
        /\ pc[Loop] = "mark" /\ faults' = faults => raw'[d].processed
        /\ faults' >= faults
    BY <1>6, <2>3, MarkDocs DEF SameDocs
  <2>5. ProcessedOf(q) \subseteq ProcessedOf(q)'
    BY <2>3, <2>4 DEF ProcessedOf, DocsOf
  <2>6. CASE Pending(q) = 0 \/ faults' > faults
    <3>1. Pending(q) + faults + crashes <= Pending(q)' + faults' + crashes'
      BY <1>t, <1>p, <2>1, <2>2, <2>4, <2>6
    <3> QED
      BY <1>k, <2>1, <2>2, <2>5, <3>1
  <2>8. CASE Pending(q) = 1 /\ faults' = faults
    <3>1. pc[Loop] = "mark" /\ q \in what[Loop]
      BY <2>8 DEF Pending
    <3>2. PICK e \in todo : Oldest(e) /\ what[Loop] = {raw[e].req}
      BY <3>1 DEF LoopInv
    <3>3. d \in Nat /\ e \in Nat
      <4>1. DOMAIN raw = 1..Len(raw) /\ Len(raw) \in Nat
        BY RawType
      <4>2. d \in DOMAIN raw /\ e \in DOMAIN raw
        BY DEF TypeOK
      <4> QED
        BY <4>1, <4>2
    <3>4. d <= e /\ e <= d
      BY <2>1, <3>2 DEF Oldest
    <3>5. raw[d].req = q
      BY <3>1, <3>2, <3>3, <3>4
    <3>6. d \in ProcessedOf(q)' /\ d \notin ProcessedOf(q)
      BY <2>3, <2>4, <2>8, <3>1, <3>5 DEF ProcessedOf, DocsOf
    <3>7. ProcessedOf(q) \cup {d} \subseteq ProcessedOf(q)'
      BY <2>5, <3>6
    <3>8. Cardinality(ProcessedOf(q) \cup {d}) = Cardinality(ProcessedOf(q)) + 1
      BY <1>c, <3>6, FS_AddElement
    <3>9. Cardinality(ProcessedOf(q) \cup {d}) <= Cardinality(ProcessedOf(q)')
      BY <1>c, <3>7, FS_Subset
    <3> QED
      BY <1>b, <1>t, <1>c, <2>1, <2>2, <2>8, <3>8, <3>9
  <2> QED
    BY <1>p, <1>t, <2>4, <2>6, <2>8
<1>7. CASE Cleanup
  <2>1. PICK cutoff \in DOMAIN raw : raw' = Cleaned(raw, cutoff)
    BY <1>7 DEF Cleanup
  <2>2. /\ SameDocs(raw, raw')
        /\ \A i \in DOMAIN raw : raw'[i].processed = raw[i].processed
    BY <2>1, CleanedDocs, RawType
  <2>3. ProcessedOf(q) \subseteq ProcessedOf(q)'
    BY <2>2 DEF SameDocs, ProcessedOf, DocsOf
  <2>4. UNCHANGED <<made, received, pc, what, faults, crashes>>
    BY <1>7 DEF Cleanup
  <2>5. Pending(q)' = Pending(q)
    BY <2>4 DEF Pending
  <2> QED
    BY <1>k, <1>w, <1>t, <1>p, <2>3, <2>4, <2>5
<1>8. CASE Crash
  <2>1. /\ Ends("dead") /\ crashes' = crashes + 1
        /\ UNCHANGED <<made, received, faults>>
    BY <1>8 DEF Crash, Ends
  <2>2. Grows
    BY <2>1, EndsGrows
  <2>3. ProcessedOf(q) \subseteq ProcessedOf(q)'
    BY <2>2 DEF Grows, ProcessedOf, DocsOf
  <2>4. Working(q)' = {}
    BY <1>t, <2>1 DEF Ends, Working
  <2> QED
    BY <1>k, <1>t, <1>p, <2>1, <2>3, <2>4
<1>9. CASE \/ FlusherTakes \/ Fetch \/ CloseBegin \/ CloseFlush \/ Restart
           \/ UNCHANGED vars
  <2>1. UNCHANGED <<raw, made, received, pc, what, faults, crashes>>
    BY <1>9 DEF FlusherTakes, Fetch, CloseBegin, CloseFlush, Restart, vars
  <2>2. Pending(q)' = Pending(q)
    BY <2>1 DEF Pending
  <2> QED
    BY <1>k, <1>r, <1>w, <1>t, <1>p, <2>1, <2>2
<1> HIDE DEF Balance
<1> QED
  BY <1>1, <1>2, <1>3, <1>4, <1>5, <1>6, <1>7, <1>8, <1>9 DEF Next, MapStep

LEMMA CountInvStep ==
  TypeOK /\ StoreInv /\ LoopInv /\ CountInv /\ [Next]_vars => CountInv'
<1> SUFFICES ASSUME TypeOK, StoreInv, LoopInv, CountInv, [Next]_vars
             PROVE  CountInv'
  OBVIOUS
<1>1. TypeOK'
  BY TypeStep
<1>2. CASE phase = "exited"
  <2>1. UNCHANGED vars
    BY <1>2 DEF Next, Alive, MapStep, ProcessData, FlusherTakes, Fetch, Cleanup,
       CloseBegin, CloseFlush, Restart, InsertMany, Retry, Mark, Exit, Crash,
       Detect, DetectFails, DetectWrong, Fill, MapFails, CopyAndAdd, vars
  <2> QED
    BY <1>2, <2>1 DEF CountInv, RecordsBounded, DocsOf, vars
<1>3. CASE phase # "exited" /\ Exit
  <2>1. RecordsBounded
    BY <1>3, CountsBound DEF CountInv
  <2>2. Grows
    BY <1>3, EndsGrows DEF Exit
  <2>3. UNCHANGED <<made, received, faults, crashes>> /\ phase' = "exited"
    BY <1>3 DEF Exit, Ends
  <2>4. ASSUME NEW q \in Request
        PROVE  Cardinality(DocsOf(q)) <= Cardinality(DocsOf(q)')
               /\ Cardinality(DocsOf(q)) \in Nat
               /\ Cardinality(DocsOf(q)') \in Nat
    <3>1. DocsOf(q) \subseteq DocsOf(q)'
      BY <2>2 DEF Grows, DocsOf
    <3>2. raw' \in Seq(RawDoc) /\ DOMAIN raw' = 1..Len(raw') /\ Len(raw') \in Nat
      BY <2>2 DEF Grows
    <3>3. IsFiniteSet(DOMAIN raw') /\ DocsOf(q)' \subseteq DOMAIN raw'
      BY <3>2, FS_Interval DEF DocsOf
    <3>4. IsFiniteSet(DocsOf(q)')
      BY <3>3, FS_Subset
    <3> QED
      BY <3>1, <3>4, FS_Subset, FS_CardinalityType
  <2>5. \A q \in Request : made[q] \in Nat /\ received[q] \in Nat
    BY DEF TypeOK
  <2>6. faults \in Nat /\ crashes \in Nat
    BY DEF TypeOK
  <2>7. RecordsBounded'
    BY <2>1, <2>3, <2>4, <2>5, <2>6 DEF RecordsBounded
  <2> QED
    BY <2>3, <2>7 DEF CountInv
<1>4. CASE phase # "exited" /\ ~Exit
  <2>1. Counted'
    BY <1>1, <1>4, CountStep DEF CountInv
  <2>2. phase' # "exited"
    BY <1>4 DEF Next, MapStep, ProcessData, FlusherTakes, Fetch, Cleanup,
       CloseBegin, CloseFlush, Restart, InsertMany, Retry, Mark, Crash, Ends,
       Detect, DetectFails, DetectWrong, Fill, MapFails, CopyAndAdd, vars
  <2> QED
    BY <2>1, <2>2 DEF CountInv
<1> QED
  BY <1>2, <1>3, <1>4

(* Of a payload there are never more records than it was sent, plus one    *)
(* for each of its documents, plus one for each failed call or crash: the  *)
(* loop never maps the same document again after a mark that succeeded.    *)
THEOREM RecordsAreBounded == SafetySpec => []RecordsBounded
<1>1. Init => CountInv
  <2> SUFFICES ASSUME Init PROVE CountInv
    OBVIOUS
  <2>1. TypeOK /\ phase # "exited"
    BY TypeInit DEF Init
  <2>2. \A q : Working(q) = {} /\ ProcessedOf(q) = {} /\ Pending(q) = 0
    BY DEF Init, Working, ProcessedOf, DocsOf, Pending, Mapping
  <2>3. \A q \in Request : made[q] = 0 /\ received[q] = 0
    BY DEF Init
  <2>4. \A q : Cardinality(Working(q)) = 0 /\ Cardinality(ProcessedOf(q)) = 0
    BY <2>2, FS_EmptySet
  <2>5. faults = 0 /\ crashes = 0
    BY DEF Init
  <2>6. Counted
    BY <2>2, <2>3, <2>4, <2>5 DEF Counted
  <2> QED
    BY <2>1, <2>6 DEF CountInv
<1>2. TypeOK /\ StoreInv /\ LoopInv /\ CountInv => RecordsBounded
  BY CountsBound DEF CountInv
<1> QED
  BY <1>1, <1>2, CountInvStep, StoreCorrect, LoopCorrect, OptimizedTypeCorrect,
     PTL DEF SafetySpec
-----------------------------------------------------------------------------
(* Where an answered payload is: in a batch, or in a document.             *)
Waiting(q) == \E batch \in Batches : q \in Range(batch)
Kept(q) == Waiting(q) \/ DocsOf(q) # {}

(* Only what was sent is there.                                            *)
SentInv == \A q \in Request : Kept(q) => received[q] >= 1

(* While nothing failed and nothing was sent twice, a payload is in one    *)
(* place: an insert finds neither its document nor a second copy of it.    *)
Distinct(batch) == \A i, j \in DOMAIN batch : batch[i] = batch[j] => i = j

Once ==
  /\ \A batch \in Batches :
       Distinct(batch) /\ \A q \in Range(batch) : DocsOf(q) = {}
  /\ Range(rawBatch) \cap Range(taken["flusher"]) = {}
  /\ Range(rawBatch) \cap Range(taken["main"]) = {}
  /\ Range(taken["flusher"]) \cap Range(taken["main"]) = {}

OnceInv == Excused \/ Once

(* What a step does to the places of the payloads.                         *)
LEMMA EmptyBatch == Range(<< >>) = {} /\ Distinct(<< >>)
BY DEF Range, Distinct

LEMMA BatchType ==
  ASSUME TypeOK
  PROVE  /\ rawBatch \in Seq(Request) /\ Range(rawBatch) \subseteq Request
         /\ \A f \in Flusher : /\ taken[f] \in Seq(Request)
                               /\ Range(taken[f]) \subseteq Request
BY DEF TypeOK, Range

LEMMA SameDocsOf ==
  ASSUME SameDocs(raw, raw')
  PROVE  \A q : DocsOf(q)' = DocsOf(q)
BY DEF SameDocs, DocsOf

LEMMA StoredDocs ==
  ASSUME TypeOK, NEW f \in Flusher, NEW n \in 0..Len(taken[f]),
         raw' = InsertedMany(raw, taken[f], n)
  PROVE  /\ \A q : DocsOf(q) # {} => DocsOf(q)' # {}
         /\ \A q : DocsOf(q)' # {} => DocsOf(q) # {} \/ q \in Range(taken[f])
         /\ \A q : (\E j \in 1..n : taken[f][j] = q) => DocsOf(q)' # {}
<1>1. taken[f] \in Seq(Request)
  BY BatchType
<1>2. /\ Grows
      /\ \A i \in DOMAIN raw' \ DOMAIN raw :
           \E j \in 1..n : raw'[i] = NewDoc(taken[f][j])
      /\ \A j \in 1..n : \E i \in DOMAIN raw' : raw'[i] = NewDoc(taken[f][j])
  BY <1>1, InsertGrows
<1>3. \A j \in 1..n : taken[f][j] \in Range(taken[f])
  BY <1>1 DEF Range
<1>4. \A q : NewDoc(q).req = q
  BY DEF NewDoc
<1>5. \A q : DocsOf(q) # {} => DocsOf(q)' # {}
  BY <1>2 DEF Grows, DocsOf
<1>6. ASSUME NEW q, NEW d \in DocsOf(q)', DocsOf(q) = {}
      PROVE  q \in Range(taken[f])
  <2>1. d \in DOMAIN raw' /\ raw'[d].req = q /\ d \notin DOMAIN raw
    BY <1>2, <1>6 DEF DocsOf, Grows
  <2> QED
    BY <1>2, <1>3, <1>4, <2>1
<1>7. ASSUME NEW q, NEW j \in 1..n, taken[f][j] = q PROVE DocsOf(q)' # {}
  <2>1. PICK i \in DOMAIN raw' : raw'[i] = NewDoc(q)
    BY <1>2, <1>7
  <2>2. i \in DocsOf(q)'
    BY <1>4, <2>1 DEF DocsOf
  <2> QED
    BY <2>2
<1> QED
  BY <1>5, <1>6, <1>7

LEMMA TakePlaces ==
  ASSUME TypeOK, NEW f \in Flusher, Take(f), raw' = raw
  PROVE  /\ \A q : Waiting(q)' = Waiting(q) /\ DocsOf(q)' = DocsOf(q)
         /\ Once => Once'
<1>1. /\ taken[f] = << >> /\ rawBatch' = << >> /\ taken'[f] = rawBatch
      /\ \A g \in Flusher : g # f => taken'[g] = taken[g]
  BY TakeType DEF Take
<1>2. \A q : DocsOf(q)' = DocsOf(q)
  BY DEF DocsOf
<1>3. CASE f = "flusher"
  <2>1. /\ taken["flusher"] = << >> /\ taken'["flusher"] = rawBatch
        /\ taken'["main"] = taken["main"]
    BY <1>1, <1>3 DEF Flusher
  <2>2. Batches' = Batches
    BY <1>1, <2>1 DEF Batches
  <2> QED
    BY <1>1, <1>2, <2>1, <2>2, EmptyBatch DEF Waiting, Once
<1>4. CASE f = "main"
  <2>1. /\ taken["main"] = << >> /\ taken'["main"] = rawBatch
        /\ taken'["flusher"] = taken["flusher"]
    BY <1>1, <1>4 DEF Flusher
  <2>2. Batches' = Batches
    BY <1>1, <2>1 DEF Batches
  <2> QED
    BY <1>1, <1>2, <2>1, <2>2, EmptyBatch DEF Waiting, Once
<1> QED
  BY <1>3, <1>4 DEF Flusher

LEMMA QuietPlaces ==
  ASSUME TypeOK, SameDocs(raw, raw'), rawBatch' = rawBatch, taken' = taken
  PROVE  /\ \A q : Waiting(q)' = Waiting(q) /\ DocsOf(q)' = DocsOf(q)
         /\ Once => Once'
<1>1. \A q : DocsOf(q)' = DocsOf(q)
  BY SameDocsOf
<1>2. Batches' = Batches
  BY DEF Batches
<1> QED
  BY <1>1, <1>2 DEF Waiting, Once

(* The steps that move no payload.                                         *)
Quiet == SameDocs(raw, raw') /\ UNCHANGED <<rawBatch, taken>>

LEMMA QuietSteps ==
  ASSUME TypeOK,
         \/ (\E t \in Mapping : MapStep(t)) \/ Fetch
         \/ (\E d \in todo : Retry(d) \/ Mark(d)) \/ Cleanup \/ CloseBegin
         \/ (CloseFlush /\ rawBatch = << >>) \/ Restart \/ UNCHANGED vars
  PROVE  Quiet
<1>1. SameDocs(raw, raw)
  BY RawType DEF SameDocs
<1>2. ASSUME NEW d \in todo, Mark(d) PROVE Quiet
  BY <1>2, MarkDocs DEF Mark, Quiet
<1>3. CASE Cleanup
  <2>1. PICK cutoff \in DOMAIN raw : raw' = Cleaned(raw, cutoff)
    BY <1>3 DEF Cleanup
  <2>2. SameDocs(raw, raw')
    BY <2>1, CleanedDocs, RawType
  <2> QED
    BY <1>3, <2>2 DEF Cleanup, Quiet
<1>4. CASE \/ (\E t \in Mapping : MapStep(t)) \/ Fetch
           \/ (\E d \in todo : Retry(d)) \/ CloseBegin
           \/ (CloseFlush /\ rawBatch = << >>) \/ Restart \/ UNCHANGED vars
  <2>1. UNCHANGED <<raw, rawBatch, taken>>
    BY <1>4 DEF MapStep, Detect, DetectFails, DetectWrong, Fill, MapFails, CopyAndAdd, Fetch, Retry,
                CloseBegin, CloseFlush, Restart, vars
  <2> QED
    BY <1>1, <2>1 DEF Quiet
<1> QED
  BY <1>2, <1>3, <1>4
-----------------------------------------------------------------------------
LEMMA ExcusedStays ==
  ASSUME TypeOK, [Next]_vars, Excused
  PROVE  Excused'
<1>1. CASE faults + crashes > 0
  <2>1. ASSUME NEW d \in todo, Mark(d) PROVE faults' >= faults /\ faults' \in Nat
    BY <2>1, MarkDocs
  <2>2. ASSUME NEW f \in Flusher, InsertMany(f) PROVE faults' >= faults /\ faults' \in Nat
    BY <2>2 DEF InsertMany, Fault, TypeOK
  <2>3. /\ faults' = faults \/ (\E d \in todo : Mark(d))
             \/ (\E f \in Flusher : InsertMany(f))
        /\ crashes' = crashes \/ crashes' = crashes + 1
    BY DEF Next, MapStep, ProcessData, FlusherTakes, Fetch, Cleanup, CloseBegin,
       CloseFlush, Restart, InsertMany, Retry, Mark, Exit, Crash, Ends, Detect,
       DetectFails, DetectWrong, Fill, MapFails, CopyAndAdd, vars
  <2>4. faults \in Nat /\ crashes \in Nat
    BY DEF TypeOK
  <2>5. faults' \in Nat /\ faults' >= faults
    BY <2>1, <2>2, <2>3, <2>4
  <2>6. faults' + crashes' > 0
    BY <1>1, <2>3, <2>4, <2>5
  <2> QED
    BY <2>6 DEF Excused
<1>2. CASE phase = "exited"
  <2>1. phase' = "exited"
    BY <1>2 DEF Next, Alive, MapStep, ProcessData, FlusherTakes, Fetch, Cleanup,
       CloseBegin, CloseFlush, Restart, InsertMany, Retry, Mark, Exit, Crash,
       Detect, DetectFails, DetectWrong, Fill, MapFails, CopyAndAdd, vars
  <2> QED
    BY <2>1 DEF Excused
<1>3. CASE \E q \in Request : received[q] > 1
  <2>1. PICK q \in Request : received[q] > 1
    BY <1>3
  <2>2. received'[q] > 1
    BY <2>1, Received
  <2> QED
    BY <2>2 DEF Excused
<1> QED
  BY <1>1, <1>2, <1>3 DEF Excused

LEMMA SentStep == TypeOK /\ SentInv /\ [Next]_vars => SentInv'
<1> SUFFICES ASSUME TypeOK, SentInv, [Next]_vars,
                    NEW q \in Request, Kept(q)', ~Kept(q)
             PROVE  received'[q] >= 1
  <2>1. ASSUME TypeOK, [Next]_vars
        PROVE  \A p \in Request : received[p] >= 1 => received'[p] >= 1
    BY <2>1, Received
  <2> QED
    BY <2>1 DEF SentInv
<1>1. ASSUME NEW w \in Worker, NEW p \in Request, ProcessData(w, p)
      PROVE  received'[q] >= 1
  <2>1. DocsOf(q)' = DocsOf(q) /\ taken' = taken
    BY <1>1 DEF ProcessData, DocsOf
  <2>2. Range(rawBatch') \subseteq Range(rawBatch) \cup {p}
    BY <1>1, BatchType DEF ProcessData, Range
  <2>3. q = p
    BY <2>1, <2>2 DEF Kept, Waiting, Batches
  <2>4. received'[p] = received[p] + 1 /\ received[p] \in Nat
    BY <1>1 DEF ProcessData, TypeOK
  <2> QED
    BY <2>3, <2>4
<1>2. ASSUME NEW f \in Flusher, Take(f), raw' = raw PROVE FALSE
  BY <1>2, TakePlaces DEF Kept
<1>3. ASSUME NEW f \in Flusher, NEW n \in 0..Len(taken[f]),
             raw' = InsertedMany(raw, taken[f], n),
             rawBatch' \in {rawBatch, << >>},
             \A g \in Flusher : taken'[g] \in {taken[g], << >>}
      PROVE  FALSE
  <2>1. Flusher = {"flusher", "main"}
    BY DEF Flusher
  <2>2. Waiting(q)' => Waiting(q)
    BY <1>3, <2>1, EmptyBatch DEF Waiting, Batches
  <2>3. DocsOf(q)' # {} => DocsOf(q) # {} \/ q \in Range(taken[f])
    BY <1>3, StoredDocs
  <2>4. q \in Range(taken[f]) => Waiting(q)
    BY <2>1 DEF Waiting, Batches
  <2> QED
    BY <2>2, <2>3, <2>4 DEF Kept
<1>4. ASSUME NEW f \in Flusher, InsertMany(f) PROVE FALSE
  <2>1. PICK n \in 0..Len(taken[f]) : raw' = InsertedMany(raw, taken[f], n)
    BY <1>4 DEF InsertMany
  <2>2. /\ rawBatch' = rawBatch
        /\ \A g \in Flusher : taken'[g] \in {taken[g], << >>}
    BY <1>4 DEF InsertMany, TypeOK
  <2> QED
    BY <1>3, <2>1, <2>2
<1>5. ASSUME NEW label, Ends(label) PROVE FALSE
  <2>a. PICK f \in Flusher : \E n \in 0..Len(taken[f]) :
          raw' = InsertedMany(raw, taken[f], n)
    BY <1>5 DEF Ends
  <2>1. PICK n \in 0..Len(taken[f]) : raw' = InsertedMany(raw, taken[f], n)
    BY <2>a
  <2>2. rawBatch' = << >> /\ \A g \in Flusher : taken'[g] = << >>
    BY <1>5 DEF Ends
  <2> QED
    BY <1>3, <2>1, <2>2
<1>6. CASE Quiet
  BY <1>6, QuietPlaces DEF Kept, Quiet
<1>7. CASE FlusherTakes \/ (CloseFlush /\ rawBatch # << >>)
  BY <1>2, <1>7 DEF FlusherTakes, CloseFlush, Flusher
<1> QED
  BY <1>1, <1>4, <1>5, <1>6, <1>7, QuietSteps DEF Next, Exit, Crash

LEMMA OnceStep ==
  TypeOK /\ SentInv /\ OnceInv /\ [Next]_vars => OnceInv'
<1> SUFFICES ASSUME TypeOK, SentInv, Once, [Next]_vars, ~Excused'
             PROVE  Once'
  BY ExcusedStays DEF OnceInv
<1>1. ASSUME NEW w \in Worker, NEW p \in Request, ProcessData(w, p)
      PROVE  Once'
  <2>1. /\ rawBatch' = Append(rawBatch, p) /\ UNCHANGED <<raw, taken>>
        /\ received'[p] = received[p] + 1 /\ received[p] \in Nat
    BY <1>1 DEF ProcessData, TypeOK
  <2>2. received'[p] <= 1
    <3>1. received'[p] \in Nat
      BY Received
    <3>2. ~(received'[p] > 1)
      BY DEF Excused
    <3> QED
      BY <3>1, <3>2
  <2>3. ~Kept(p)
    BY <2>1, <2>2 DEF SentInv
  <2>4. p \notin Range(rawBatch) /\ p \notin Range(taken["main"])
        /\ p \notin Range(taken["flusher"]) /\ DocsOf(p) = {}
    BY <2>3 DEF Kept, Waiting, Batches
  <2>5. rawBatch \in Seq(Request)
    BY BatchType
  <2>6. Range(rawBatch') = Range(rawBatch) \cup {p}
    BY <2>1, <2>5 DEF Range
  <2>7. Distinct(rawBatch')
    <3>1. /\ DOMAIN rawBatch' = 1..Len(rawBatch) + 1 /\ Len(rawBatch) \in Nat
          /\ DOMAIN rawBatch = 1..Len(rawBatch)
          /\ \A i \in DOMAIN rawBatch : rawBatch'[i] = rawBatch[i]
          /\ rawBatch'[Len(rawBatch) + 1] = p
      BY <2>1, <2>5
    <3>2. \A i \in DOMAIN rawBatch : rawBatch[i] # p
      BY <2>4 DEF Range
    <3>3. Distinct(rawBatch)
      BY DEF Once, Batches
    <3> QED
      BY <3>1, <3>2, <3>3 DEF Distinct
  <2>8. \A q : DocsOf(q)' = DocsOf(q)
    BY <2>1 DEF DocsOf
  <2> QED
    BY <2>1, <2>4, <2>6, <2>7, <2>8 DEF Once, Batches
<1>2. ASSUME NEW f \in Flusher, InsertMany(f) PROVE Once'
  <2>1. PICK n \in 0..Len(taken[f]) : raw' = InsertedMany(raw, taken[f], n)
    BY <1>2 DEF InsertMany
  <2>2. /\ rawBatch' = rawBatch /\ taken'[f] = << >>
        /\ \A g \in Flusher : g # f => taken'[g] = taken[g]
    BY <1>2 DEF InsertMany, TypeOK
  <2>3. \A q : DocsOf(q)' # {} => DocsOf(q) # {} \/ q \in Range(taken[f])
    BY <2>1, StoredDocs
  <2>4. CASE f = "flusher"
    <3>1. taken'["flusher"] = << >> /\ taken'["main"] = taken["main"]
      BY <2>2, <2>4 DEF Flusher
    <3> QED
      BY <2>2, <2>3, <2>4, <3>1, EmptyBatch DEF Once, Batches
  <2>5. CASE f = "main"
    <3>1. taken'["main"] = << >> /\ taken'["flusher"] = taken["flusher"]
      BY <2>2, <2>5 DEF Flusher
    <3> QED
      BY <2>2, <2>3, <2>5, <3>1, EmptyBatch DEF Once, Batches
  <2> QED
    BY <2>4, <2>5 DEF Flusher
<1>3. CASE Exit \/ Crash
  <2>1. crashes \in Nat /\ faults \in Nat
    BY DEF TypeOK
  <2>2. phase' = "exited" \/ faults' + crashes' > 0
    BY <1>3, <2>1 DEF Exit, Crash, Ends
  <2> QED
    BY <2>2 DEF Excused
<1>4. CASE Quiet
  BY <1>4, QuietPlaces DEF Quiet
<1>5. CASE FlusherTakes \/ (CloseFlush /\ rawBatch # << >>)
  BY <1>5, TakePlaces DEF FlusherTakes, CloseFlush, Flusher
<1> QED
  BY <1>1, <1>2, <1>3, <1>4, <1>5, QuietSteps DEF Next

LEMMA AckStep ==
  TypeOK /\ OnceInv /\ AcknowledgedIsKept /\ [Next]_vars => AcknowledgedIsKept'
<1> SUFFICES ASSUME TypeOK, Once, AcknowledgedIsKept, [Next]_vars, ~Excused',
                    NEW q \in Request, received'[q] > 0
             PROVE  Kept(q)'
  <2>1. TypeOK /\ [Next]_vars /\ Excused => Excused'
    BY ExcusedStays
  <2> QED
    BY <2>1 DEF OnceInv, AcknowledgedIsKept, Kept, Waiting
<1>x. ~Excused
  <2>1. Excused => Excused'
    BY ExcusedStays
  <2> QED
    BY <2>1
<1>k. received[q] > 0 => Kept(q)
  BY <1>x DEF AcknowledgedIsKept, Kept, Waiting
<1>1. ASSUME NEW w \in Worker, NEW p \in Request, ProcessData(w, p)
      PROVE  Kept(q)'
  <2>1. /\ rawBatch' = Append(rawBatch, p) /\ UNCHANGED <<raw, taken>>
        /\ q # p => received'[q] = received[q]
    BY <1>1 DEF ProcessData, TypeOK
  <2>2. Range(rawBatch') = Range(rawBatch) \cup {p}
    BY <2>1, BatchType DEF Range
  <2>3. Kept(q) \/ q = p
    BY <1>k, <2>1
  <2> QED
    BY <2>1, <2>2, <2>3 DEF Kept, Waiting, Batches, DocsOf
<1>r. CASE received'[q] = received[q]
  <2>1. Kept(q)
    BY <1>k, <1>r
  <2>2. ASSUME NEW f \in Flusher, InsertMany(f) PROVE Kept(q)'
    <3> DEFINE batch == taken[f]
    <3>1. PICK n \in 0..Len(batch) :
            /\ Admitted(batch, n) /\ raw' = InsertedMany(raw, batch, n)
            /\ IF n = Len(batch) \/ ~Admitted(batch, n + 1)
                 THEN UNCHANGED faults ELSE Fault
      BY <2>2 DEF InsertMany
    <3>2. batch \in Seq(Request) /\ batch \in Batches
      BY BatchType DEF Batches, Flusher
    <3>3. Distinct(batch) /\ \A p \in Range(batch) : DocsOf(p) = {}
      BY <3>2 DEF Once
    <3>4. n = Len(batch)
      <4>1. SUFFICES ASSUME n # Len(batch) PROVE FALSE
        OBVIOUS
      <4>2. n + 1 \in 1..Len(batch) /\ n \in Nat /\ Len(batch) \in Nat
        BY <3>2, <4>1
      <4>3. ~Fault
        <5>1. ~(faults' + crashes' > 0) /\ crashes' = crashes
          BY <2>2 DEF Excused, InsertMany
        <5>2. faults \in Nat /\ crashes \in Nat
          BY DEF TypeOK
        <5> QED
          BY <5>1, <5>2 DEF Fault
      <4>4. ~Admitted(batch, n + 1)
        BY <3>1, <4>1, <4>3
      <4>5. PICK i \in 1..(n + 1) :
              \/ HasRequest(raw, batch[i])
              \/ \E j \in 1..(i - 1) : batch[j] = batch[i]
        BY <4>4 DEF Admitted
      <4>6. i \in DOMAIN batch /\ batch[i] \in Range(batch)
        BY <3>2, <4>2 DEF Range
      <4>7. CASE HasRequest(raw, batch[i])
        BY <3>3, <4>6, <4>7 DEF HasRequest, Present, DocsOf
      <4>8. CASE \E j \in 1..(i - 1) : batch[j] = batch[i]
        <5>1. PICK j \in 1..(i - 1) : batch[j] = batch[i]
          BY <4>8
        <5>2. j \in DOMAIN batch /\ j # i
          BY <3>2, <4>2
        <5> QED
          BY <3>3, <4>6, <5>1, <5>2 DEF Distinct
      <4> QED
        BY <4>5, <4>7, <4>8
    <3>5. CASE DocsOf(q) # {} \/ q \in Range(batch)
      <4>1. q \in Range(batch) => \E j \in 1..n : batch[j] = q
        BY <3>2, <3>4 DEF Range
      <4>2. DocsOf(q)' # {}
        BY <3>1, <3>5, <4>1, StoredDocs
      <4> QED
        BY <4>2 DEF Kept
    <3>6. CASE DocsOf(q) = {} /\ q \notin Range(batch)
      <4>1. /\ rawBatch' = rawBatch
            /\ \A g \in Flusher : g # f => taken'[g] = taken[g]
        BY <2>2 DEF InsertMany, TypeOK
      <4>2. PICK b \in Batches : q \in Range(b)
        BY <2>1, <3>6 DEF Kept, Waiting
      <4>3. b \in Batches'
        BY <3>6, <4>1, <4>2 DEF Batches, Flusher
      <4> QED
        BY <4>2, <4>3 DEF Kept, Waiting
    <3> QED
      BY <3>5, <3>6
  <2>3. CASE Exit \/ Crash
    <3>1. crashes \in Nat /\ faults \in Nat
      BY DEF TypeOK
    <3>2. phase' = "exited" \/ faults' + crashes' > 0
      BY <2>3, <3>1 DEF Exit, Crash, Ends
    <3> QED
      BY <3>2 DEF Excused
  <2>4. CASE Quiet
    BY <2>1, <2>4, QuietPlaces DEF Kept, Quiet
  <2>5. CASE FlusherTakes \/ (CloseFlush /\ rawBatch # << >>)
    BY <2>1, <2>5, TakePlaces DEF FlusherTakes, CloseFlush, Flusher, Kept
  <2> QED
    BY <1>1, <2>2, <2>3, <2>4, <2>5, QuietSteps DEF Next
<1>s. CASE received'[q] # received[q]
  <2>1. \E w \in Worker, p \in Request : ProcessData(w, p)
    BY <1>s DEF Next, MapStep, FlusherTakes, Fetch, Cleanup, CloseBegin,
       CloseFlush, Restart, InsertMany, Retry, Mark, Exit, Crash, Ends, Detect,
       DetectFails, DetectWrong, Fill, MapFails, CopyAndAdd, vars
  <2> QED
    BY <1>1, <2>1
<1> QED
  BY <1>r, <1>s

(* An answered payload is not lost between the batch, the flusher and the  *)
(* last flush of Close: it waits in one of them or has a document, unless  *)
(* a call failed, the process ended or a payload was sent twice.           *)
THEOREM AcknowledgedAreKept == SafetySpec => []AcknowledgedIsKept
<1>1. Init => SentInv /\ OnceInv /\ AcknowledgedIsKept
  <2> SUFFICES ASSUME Init PROVE SentInv /\ OnceInv /\ AcknowledgedIsKept
    OBVIOUS
  <2>1. /\ \A batch \in Batches : batch = << >>
        /\ rawBatch = << >> /\ taken["main"] = << >> /\ taken["flusher"] = << >>
        /\ \A q : DocsOf(q) = {}
    BY DEF Init, Batches, Flusher, DocsOf
  <2>2. \A q \in Request : received[q] = 0
    BY DEF Init
  <2>3. SentInv
    BY <2>1, EmptyBatch DEF SentInv, Kept, Waiting
  <2>4. OnceInv
    BY <2>1, EmptyBatch DEF OnceInv, Once
  <2> QED
    BY <2>2, <2>3, <2>4 DEF AcknowledgedIsKept
<1> QED
  BY <1>1, SentStep, OnceStep, AckStep, OptimizedTypeCorrect, PTL
     DEF SafetySpec
=============================================================================
