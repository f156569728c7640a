--------------------------- MODULE OptimizedIngest ---------------------------
(***************************************************************************)
(* internal/service/optimized_service.go and optimized_mapper.go: the      *)
(* variant of the ingestion that answers before anything is stored.        *)
(*                                                                         *)
(*   ProcessData   appends the payload to rawBatch, starts a goroutine     *)
(*                 that maps it, and answers                               *)
(*   flusher       rawBatchFlusher: InsertMany of what rawBatch holds      *)
(*   goroutines    processAndStoreOptimized: detect, map, batch.Add        *)
(*   the loop      processRawDataLoop: as in Ingest                        *)
(*   main          Close: a last flush                                     *)
(*                                                                         *)
(* All goroutines and the loop share one mapper, and MapFields builds its  *)
(* result in m.resultBuffer, which no lock protects.  A payload is its     *)
(* request_id; a client may send it again.                                 *)
(***************************************************************************)
EXTENDS RawStore, SequencesExt

CONSTANTS
  Worker,         \* goroutines of ProcessData that may be at work at once
  Mappable,       \* the requests that DetectSourceID finds a mapping for,
                  \* whose required fields MapFields finds
  FetchLimit,     \* 100 in the code
  \* Bounds on the environment:
  MaxReceived, MaxFailures

Loop == "loop"
Mapping == Worker \cup {Loop}
Flusher == {"flusher", "main"}

ASSUME MappableAssumption == Mappable \subseteq Request
ASSUME WorkerAssumption == IsFiniteSet(Worker) /\ Loop \notin Worker
ASSUME BoundAssumption ==
  {FetchLimit, MaxReceived, MaxFailures} \subseteq Nat

VARIABLES
  phase,        \* of the process
  raw,          \* the collection raw_data
  rawBatch,     \* svc.rawBatch
  taken,        \* flushers: the batch that is being inserted
  pc, what,     \* workers and the loop: where, and with which request
  todo,         \* the loop: the documents it fetched and has not marked
  buffer,       \* m.resultBuffer: the requests whose fields are in it
  mixed,        \* who detects with the keys of another one in m.keyBuffer
  received,     \* how often each request was answered
  made,         \* how many records of each request went to batch.Add
  faults, crashes,
  overlapped,   \* ghost: who maps and has met another one mapping
  early         \* ghost: the requests answered before Close

batchVars == <<raw, rawBatch, taken>>
mapperVars == <<mixed, buffer, overlapped, made>>
clientVars == <<received, early>>
vars == <<phase, batchVars, pc, what, todo, mapperVars, clientVars, faults,
          crashes>>

Alive == phase \notin {"dead", "exited"}

DocsOf(q) == {d \in DOMAIN raw : raw[d].req = q}
-----------------------------------------------------------------------------
Init ==
  /\ phase = "open"
  /\ raw = << >>
  /\ rawBatch = << >>
  /\ taken = [f \in Flusher |-> << >>]
  /\ pc = [t \in Mapping |-> "idle"]
  /\ what = [t \in Mapping |-> {}]
  /\ todo = {}
  /\ mixed = {} /\ buffer = {} /\ overlapped = {}
  /\ received = [q \in Request |-> 0]
  /\ made = [q \in Request |-> 0]
  /\ faults = 0 /\ crashes = 0
  /\ early = {}

Goto(t, label) == pc' = [pc EXCEPT ![t] = label]
Carries(t, requests) == what' = [what EXCEPT ![t] = requests]

Fault == faults + crashes < MaxFailures /\ faults' = faults + 1
-----------------------------------------------------------------------------
(* batchStoreRaw appends under its lock, the goroutine w starts, and the   *)
(* client is told of success.  A full batch wakes the flusher unless that  *)
(* is at work; as it also wakes of itself, Take needs no signal.           *)
ProcessData(w, q) ==
  /\ Alive /\ pc[w] = "idle"
  /\ MapThenSumSet(LAMBDA r : received[r], Request) < MaxReceived
  /\ rawBatch' = Append(rawBatch, q)
  /\ received' = [received EXCEPT ![q] = @ + 1]
  /\ Goto(w, "detect") /\ Carries(w, {q})
  /\ early' = IF phase = "open" THEN early \cup {q} ELSE early
  /\ UNCHANGED <<phase, raw, taken, todo, mapperVars, faults, crashes>>

(* flushRawBatch takes the batch under the lock.                           *)
Take(f) ==
  /\ taken[f] = << >> /\ rawBatch # << >>
  /\ taken' = [taken EXCEPT ![f] = rawBatch]
  /\ rawBatch' = << >>

FlusherTakes ==
  /\ Alive /\ Take("flusher")
  /\ UNCHANGED <<phase, raw, pc, what, todo, mapperVars, clientVars, faults,
                 crashes>>

(* The n first documents of a batch can be stored: the unique index admits *)
(* them.                                                                   *)
Admitted(batch, n) ==
  \A i \in 1..n :
    ~HasRequest(raw, batch[i]) /\ \A j \in 1..(i - 1) : batch[j] # batch[i]

\* Mutation of InsertMany: rawBatch is emptied only now.
InsertManyResets(f) ==
  LET batch == taken[f] IN
  /\ Alive /\ batch # << >>
  /\ \E n \in 0..Len(batch) :
       /\ Admitted(batch, n)
       /\ raw' = InsertedMany(raw, batch, n)
       /\ IF n = Len(batch) \/ ~Admitted(batch, n + 1)
            THEN UNCHANGED faults ELSE Fault
  /\ taken' = [taken EXCEPT ![f] = << >>]
  /\ rawBatch' = << >>
  /\ phase' = IF f = "main" THEN "closed" ELSE phase
  /\ UNCHANGED <<pc, what, todo, mapperVars, clientVars, crashes>>

(* InsertMany is ordered: it stops at the first document that is refused.  *)
(* What is not stored is dropped, as the error is only logged.             *)
InsertMany(f) ==
  LET batch == taken[f] IN
  /\ Alive /\ batch # << >>
  /\ \E n \in 0..Len(batch) :
       /\ Admitted(batch, n)
       /\ raw' = InsertedMany(raw, batch, n)
       /\ IF n = Len(batch) \/ ~Admitted(batch, n + 1)
            THEN UNCHANGED faults ELSE Fault
  /\ taken' = [taken EXCEPT ![f] = << >>]
  /\ phase' = IF f = "main" THEN "closed" ELSE phase
  /\ UNCHANGED <<rawBatch, pc, what, todo, mapperVars, clientVars, crashes>>
-----------------------------------------------------------------------------
(* processAndStoreOptimized of a goroutine or of the loop: DetectSourceID  *)
(* collects the keys of the payload in m.keyBuffer, under a read lock.     *)
(* Who leaves it has mixed the keys of those who are in it.                *)
InDetect == {t \in Mapping : pc[t] = "detect"}
Disturbed(t) == t \in mixed \/ InDetect # {t}

LeaveDetect(t) ==
  /\ Alive /\ pc[t] = "detect"
  /\ mixed' = (mixed \cup InDetect) \ {t}
  /\ UNCHANGED <<phase, batchVars, todo, buffer, overlapped, made, clientVars,
                 faults, crashes>>

(* An error: a goroutine logs it and ends, the loop goes on to MarkError.  *)
GiveUp(t) ==
  IF t = Loop THEN Goto(t, "markError") /\ UNCHANGED what
              ELSE Goto(t, "idle") /\ Carries(t, {})

Detect(t) ==
  /\ LeaveDetect(t)
  /\ what[t] \subseteq Mappable
  /\ Goto(t, "fill") /\ UNCHANGED what

(* No mapping matches the payload, or the keys it was mixed with.          *)
DetectFails(t) ==
  /\ LeaveDetect(t)
  /\ ~(what[t] \subseteq Mappable) \/ Disturbed(t)
  /\ GiveUp(t)

(* The mixed keys match the mapping of another source.                     *)
DetectWrong(t) ==
  /\ LeaveDetect(t)
  /\ Disturbed(t)
  /\ Goto(t, "fillWrong") /\ UNCHANGED what

InMapFields == {t \in Mapping : pc[t] = "copy"}
Overlap(t) == overlapped' = IF InMapFields = {} THEN overlapped
                            ELSE overlapped \cup {t} \cup InMapFields

\* Mutation of Fill: the buffer is not cleared.
FillUncleared(t) ==
  /\ Alive /\ pc[t] \in {"fill", "fillWrong"}
  /\ buffer' = what[t] \cup buffer
  /\ Goto(t, "copy")
  /\ Overlap(t)
  /\ UNCHANGED <<phase, batchVars, what, todo, mixed, made, clientVars, faults,
                 crashes>>

(* MapFields deletes what is in the buffer and writes its fields; some of  *)
(* the fields that others write meanwhile stay.                            *)
Fill(t) ==
  /\ Alive /\ pc[t] \in {"fill", "fillWrong"}
  /\ \E rest \in SUBSET UNION {what[u] : u \in InMapFields} :
       buffer' = what[t] \cup rest
  /\ Goto(t, "copy")
  /\ Overlap(t)
  /\ UNCHANGED <<phase, batchVars, what, todo, mixed, made, clientVars, faults,
                 crashes>>

(* A required field of the wrong source is missing: MapFields has cleared  *)
(* the buffer, filled part of it and disturbed who else is in it.          *)
MapFails(t) ==
  /\ Alive /\ pc[t] = "fillWrong"
  /\ \E rest \in SUBSET UNION {what[u] : u \in InMapFields \cup {t}} :
       buffer' = rest
  /\ overlapped' = overlapped \cup InMapFields
  /\ GiveUp(t)
  /\ UNCHANGED <<phase, batchVars, todo, mixed, made, clientVars, faults,
                 crashes>>

(* It copies the buffer; batch.Add takes the record made from the copy.    *)
CopyAndAdd(t) ==
  /\ Alive /\ pc[t] = "copy"
  /\ made' = [q \in Request |-> IF q \in what[t] THEN made[q] + 1 ELSE made[q]]
  /\ overlapped' = overlapped \ {t}
  /\ IF t = Loop THEN Goto(t, "mark") /\ UNCHANGED what
                 ELSE Goto(t, "idle") /\ Carries(t, {})
  /\ UNCHANGED <<phase, batchVars, todo, mixed, buffer, clientVars, faults,
                 crashes>>
-----------------------------------------------------------------------------
(* processRawDataLoop: a tick, and GetUnprocessed answers.  No document is *)
(* marked by the goroutine of its request, so all are fetched.             *)
Fetch ==
  /\ Alive /\ pc[Loop] = "idle" /\ todo = {}
  /\ todo' = GetUnprocessed(raw, FetchLimit)
  /\ todo' # {}
  /\ UNCHANGED <<phase, batchVars, pc, what, mapperVars, clientVars, faults,
                 crashes>>

Oldest(d) == d \in todo /\ \A e \in todo : d <= e

Retry(d) ==
  /\ Alive /\ pc[Loop] = "idle" /\ Oldest(d)
  /\ Goto(Loop, "detect") /\ Carries(Loop, {raw[d].req})
  /\ UNCHANGED <<phase, batchVars, todo, mapperVars, clientVars, faults,
                 crashes>>

(* MarkProcessed or MarkError; an error of either is only logged.          *)
Mark(d) ==
  LET updated == IF pc[Loop] = "mark" THEN MarkedProcessed(raw, d)
                                      ELSE MarkedError(raw, d)
  IN
  /\ Alive /\ pc[Loop] \in {"mark", "markError"} /\ Oldest(d)
  /\ \/ raw' = updated /\ UNCHANGED faults
     \/ raw' \in {raw, updated} /\ Fault
  /\ todo' = todo \ {d}
  /\ Goto(Loop, "idle") /\ Carries(Loop, {})
  /\ UNCHANGED <<phase, rawBatch, taken, mapperVars, clientVars, crashes>>

(* cleanupRawDataLoop, as in Ingest.                                       *)
Cleanup ==
  /\ Alive
  /\ \E cutoff \in DOMAIN raw : raw' = Cleaned(raw, cutoff)
  /\ UNCHANGED <<phase, rawBatch, taken, pc, what, todo, mapperVars,
                 clientVars, faults, crashes>>
-----------------------------------------------------------------------------
(* Close: main flushes what is in rawBatch now,                            *)
CloseBegin ==
  /\ phase = "open"
  /\ phase' = "closing"
  /\ UNCHANGED <<batchVars, pc, what, todo, mapperVars, clientVars, faults,
                 crashes>>

\* Mutation of CloseFlush: no last flush.
CloseUnflushed ==
  /\ phase = "closing"
  /\ phase' = "closed"
  /\ UNCHANGED <<batchVars, pc, what, todo, mapperVars, clientVars, faults,
                 crashes>>

\* Mutation of CloseFlush: main does not wait for its flush.
CloseUnwaited ==
  /\ phase = "closing"
  /\ phase' = "closed"
  /\ IF rawBatch = << >> THEN UNCHANGED <<rawBatch, taken>> ELSE Take("main")
  /\ UNCHANGED <<raw, pc, what, todo, mapperVars, clientVars, faults, crashes>>

CloseFlush ==
  /\ phase = "closing"
  /\ IF rawBatch = << >>
       THEN phase' = "closed" /\ UNCHANGED <<rawBatch, taken>>
       ELSE phase' = "flushing" /\ Take("main")
  /\ UNCHANGED <<raw, pc, what, todo, mapperVars, clientVars, faults, crashes>>

(* and closes the batch writer, the mapper and the caches; the goroutines, *)
(* the flusher and the loop go on until the process ends.  What was in     *)
(* memory is gone; a batch on its way may still be stored.                 *)
Ends(label) ==
  /\ phase' = label
  /\ \E f \in Flusher : \E n \in 0..Len(taken[f]) :
       Admitted(taken[f], n) /\ raw' = InsertedMany(raw, taken[f], n)
  /\ rawBatch' = << >> /\ taken' = [f \in Flusher |-> << >>]
  /\ pc' = [t \in Mapping |-> "idle"] /\ what' = [t \in Mapping |-> {}]
  /\ todo' = {} /\ mixed' = {} /\ buffer' = {} /\ overlapped' = {}
  /\ UNCHANGED <<made, clientVars, faults>>

Exit == phase = "closed" /\ Ends("exited") /\ UNCHANGED crashes

(* The process dies; Go may end it when two goroutines write the buffer    *)
(* at once.                                                                *)
Crash ==
  /\ Alive
  /\ faults + crashes < MaxFailures /\ crashes' = crashes + 1
  /\ Ends("dead")

Restart ==
  /\ phase = "dead"
  /\ phase' = "open"
  /\ UNCHANGED <<batchVars, pc, what, todo, mapperVars, clientVars, faults,
                 crashes>>

MapStep(t) ==
  \/ Detect(t) \/ DetectFails(t) \/ DetectWrong(t)
  \/ Fill(t) \/ MapFails(t) \/ CopyAndAdd(t)

Next ==
  \/ \E w \in Worker, q \in Request : ProcessData(w, q)
  \/ FlusherTakes
  \/ \E f \in Flusher : InsertMany(f)
  \/ \E t \in Mapping : MapStep(t)
  \/ Fetch
  \/ \E d \in todo : Retry(d) \/ Mark(d)
  \/ Cleanup
  \/ CloseBegin \/ CloseFlush \/ Exit
  \/ Crash \/ Restart

(* Goroutines run, tickers tick, database calls end; a dead process is     *)
(* started again.                                                          *)
Fairness ==
  /\ WF_vars(FlusherTakes)
  /\ \A f \in Flusher : WF_vars(InsertMany(f))
  /\ \A t \in Mapping : WF_vars(MapStep(t))
  /\ WF_vars(Fetch)
  /\ WF_vars(\E d \in todo : Retry(d) \/ Mark(d))
  /\ WF_vars(Restart)

SafetySpec == Init /\ [][Next]_vars
Spec == SafetySpec /\ Fairness
-----------------------------------------------------------------------------
TypeOK ==
  /\ phase \in {"open", "closing", "flushing", "closed", "exited", "dead"}
  /\ raw \in Seq(RawDoc)
  /\ rawBatch \in Seq(Request)
  /\ taken \in [Flusher -> Seq(Request)]
  /\ taken["main"] # << >> <=> phase = "flushing"
  /\ pc \in [Mapping -> {"idle", "detect", "fill", "fillWrong", "copy",
                         "mark", "markError"}]
  /\ what \in [Mapping -> SUBSET Request]
  /\ todo \subseteq DOMAIN raw
  /\ mixed \subseteq Mapping /\ buffer \subseteq Request
  /\ received \in [Request -> Nat] /\ made \in [Request -> Nat]
  /\ faults \in Nat /\ crashes \in Nat
  /\ overlapped \subseteq Mapping /\ early \subseteq Request

Batches == {rawBatch, taken["flusher"], taken["main"]}

(* A request that was sent again can make an ordered insert stop, and a    *)
(* failed insert or the end of the process loses a batch.                  *)
Excused ==
  \/ faults + crashes > 0 \/ phase = "exited"
  \/ \E q \in Request : received[q] > 1

(* Every payload a client was told of is in the memory on its way to       *)
(* raw_data, or has a document there: appending, the flusher and the last  *)
(* flush of Close, whose inserts overlap, do not lose one between them.    *)
AcknowledgedIsKept ==
  \A q \in Request : received[q] > 0 =>
    \/ \E batch \in Batches : q \in Range(batch)
    \/ DocsOf(q) # {}
    \/ Excused

(* As in Ingest: a document is marked only after a record was made of it.  *)
Replayable ==
  \A d \in DOMAIN raw : d \in Unprocessed(raw) \/ made[raw[d].req] > 0

(* A payload makes one record for each time it was sent and, as nothing    *)
(* tells the loop of them, one for its document; more only after a failed  *)
(* call or a crash.                                                        *)
RecordsBounded ==
  \A q \in Request :
    made[q] <= received[q] + Cardinality(DocsOf(q)) + faults + crashes

(* MapFields copies the buffer so that the "caller owns the map".  A       *)
(* caller that no other one overlapped gets the fields of its own payload, *)
(* all of them and nothing else.                                           *)
OwnFields ==
  \A t \in Mapping \ overlapped : pc[t] = "copy" => buffer = what[t]

(* What was answered before Close is not left in rawBatch: Close flushes   *)
(* it, or the flusher took it.                                             *)
ClosedIsFlushed ==
  phase \in {"flushing", "closed"} => early \cap Range(rawBatch) \subseteq
    {q \in Request : received[q] > 1}

(* A mappable payload that reached raw_data is processed by the loop at    *)
(* last, through failed calls, a crash and mix-ups in the mapper, until    *)
(* the service is shut down.                                               *)
EventuallyProcessed ==
  \A q \in Mappable :
    DocsOf(q) # {}
      ~> phase = "exited" \/ \E d \in DocsOf(q) : raw[d].processed
=============================================================================
