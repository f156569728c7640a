------------------------------- MODULE Ingest -------------------------------
(***************************************************************************)
(* internal/service/service.go: how a payload becomes a record.            *)
(*                                                                         *)
(*   handlers   POST /api/data: SubmitData runs ProcessData                *)
(*   the loop   processRawDataLoop: every 30 s it fetches the oldest       *)
(*              unprocessed raw documents and runs the same path on them   *)
(*   cleanup    cleanupRawDataLoop, and the API call that asks for a       *)
(*              document to be processed again                             *)
(*                                                                         *)
(* Each call of the database is one step, and may fail before or after it  *)
(* took effect.  The batch writer is the sink of RecordSink (BatchWriter   *)
(* implements it).  The process may die at any moment and be started       *)
(* again: raw_data and inverter_data survive, the memory does not.         *)
(*                                                                         *)
(* The mapper is a flag: while the mapping is active it accepts the        *)
(* payloads in Mappable; no mapping ever accepts another payload.          *)
(***************************************************************************)
EXTENDS RawStore

CONSTANTS
  Handler,
  Mappable,       \* the requests whose payload the mapping accepts
  StrictMode,     \* cfg.StrictMode
  FetchLimit,     \* 100 in the code
  \* Bounds on what the environment does, and on the numbers of documents
  \* and of records made from one document:
  MaxReceived, MaxFaults, MaxCrashes, MaxGaps, MaxReprocess,
  MaxDocs, MaxHandOvers

ASSUME MappableAssumption == Mappable \subseteq Request
ASSUME StrictModeAssumption == StrictMode \in BOOLEAN
ASSUME BoundsAssumption ==
  {FetchLimit, MaxReceived, MaxFaults, MaxCrashes, MaxGaps, MaxReprocess,
   MaxDocs, MaxHandOvers} \subseteq Nat

DocId == 1..MaxDocs

(* The n-th record made from document d.                                   *)
Record == DocId \X (1..MaxHandOvers)

VARIABLES
  up,                         \* the process is alive
  raw,                        \* the collection raw_data
  active,                     \* the mapping is active
  hpc, hdoc,                  \* handlers: where, and with which document
  lpc, todo,                  \* the loop: where, and the documents it fetched
  receivedCount, rawCount, processedCount, failedCount,
  pending, stored, lost,      \* the records in the batch writer: RecordSink
  faults, crashes, gaps, reprocesses,   \* how often each has happened
  acked,                      \* ghost: requests answered with status 200
  asked                       \* ghost: documents whose reprocessing was asked
                              \* for, and that since then no fetch returned
                              \* and nobody made a record of

handlerVars == <<hpc, hdoc>>
loopVars    == <<lpc, todo>>
counters    == <<receivedCount, rawCount, processedCount, failedCount>>
records     == <<pending, stored, lost>>
budget      == <<faults, crashes, gaps, reprocesses>>

Sink == INSTANCE RecordSink

vars == <<up, raw, active, handlerVars, loopVars, counters, records,
          budget, acked, asked>>

Records == pending \cup stored \cup lost
RecordsOf(d) == {r \in Records : r[1] = d}
HandOvers(d) == Cardinality(RecordsOf(d))

(* Handlers that are working on a document.                                *)
Busy == {h \in Handler : hpc[h] # "idle"}
-----------------------------------------------------------------------------
Init ==
  /\ up = TRUE
  /\ raw = << >>
  /\ active = TRUE
  /\ hpc = [h \in Handler |-> "idle"]
  /\ hdoc = [h \in Handler |-> 0]
  /\ lpc = "wait" /\ todo = {}
  /\ receivedCount = 0 /\ rawCount = 0 /\ processedCount = 0 /\ failedCount = 0
  /\ Sink!Init
  /\ faults = 0 /\ crashes = 0 /\ gaps = 0 /\ reprocesses = 0
  /\ acked = {} /\ asked = {}

(* A call of the database that returns an error spends a fault; it may     *)
(* have taken effect all the same, as when the reply is lost or late.      *)
Fault == faults < MaxFaults /\ faults' = faults + 1

UpdateRaw(updated) ==
  \/ raw' = updated /\ UNCHANGED faults
  \/ raw' \in {raw, updated} /\ Fault

(* DetectSourceID and MapFields find a mapping for document d.             *)
Maps(d) == active /\ raw[d].req \in Mappable

\* Mutation: processAndStore returns without calling Add.
HandOverForgotten(d) == UNCHANGED records

(* batch.Add of the next record made from document d.                      *)
HandOver(d) == Sink!Accept(<<d, HandOvers(d) + 1>>)

HandlerGoto(h, label) == hpc' = [hpc EXCEPT ![h] = label] /\ UNCHANGED hdoc

(* ProcessData returns: what it worked on goes with its local variables.   *)
HandlerReturns(h) ==
  /\ hpc' = [hpc EXCEPT ![h] = "idle"]
  /\ hdoc' = [hdoc EXCEPT ![h] = 0]
-----------------------------------------------------------------------------
(* SubmitData, ProcessData: rawRepo.Insert stores the payload.             *)
StoreRaw(h, q) ==
  /\ up /\ hpc[h] = "idle"
  /\ receivedCount < MaxReceived /\ Len(raw) < MaxDocs
  /\ ~HasRequest(raw, q)
  /\ raw' = Inserted(raw, q)
  /\ hpc' = [hpc EXCEPT ![h] = "process"]
  /\ hdoc' = [hdoc EXCEPT ![h] = Len(raw) + 1]
  /\ receivedCount' = receivedCount + 1
  /\ rawCount' = rawCount + 1
  /\ UNCHANGED <<up, active, loopVars, processedCount, failedCount,
                 records, budget, acked, asked>>

\* Mutation: rawCount is counted although Insert failed.
StoreRawFailsCounted(h, q) ==
  /\ up /\ hpc[h] = "idle"
  /\ receivedCount < MaxReceived
  /\ HasRequest(raw, q)
  /\ receivedCount' = receivedCount + 1
  /\ rawCount' = rawCount + 1
  /\ failedCount' = failedCount + 1
  /\ UNCHANGED <<up, raw, active, handlerVars, loopVars, processedCount,
                 records, budget, acked, asked>>

(* Insert returns an error: the request_id is taken, or the call failed.   *)
(* The answer is an error, even if the document was stored.                *)
StoreRawFails(h, q) ==
  /\ up /\ hpc[h] = "idle"
  /\ receivedCount < MaxReceived
  /\ \/ HasRequest(raw, q) /\ UNCHANGED <<raw, faults>>
     \/ /\ ~HasRequest(raw, q) /\ Len(raw) < MaxDocs
        /\ raw' \in {raw, Inserted(raw, q)}
        /\ Fault
  /\ receivedCount' = receivedCount + 1
  /\ failedCount' = failedCount + 1
  /\ UNCHANGED <<up, active, handlerVars, loopVars, rawCount, processedCount,
                 records, crashes, gaps, reprocesses, acked, asked>>

(* processAndStore of a handler succeeds: batch.Add takes the record.      *)
Process(h) ==
  /\ up /\ hpc[h] = "process"
  /\ Maps(hdoc[h])
  /\ HandOver(hdoc[h])
  /\ asked' = asked \ {hdoc[h]}
  /\ HandlerGoto(h, "mark")
  /\ UNCHANGED <<up, raw, active, loopVars, counters, budget, acked>>

(* processAndStore of a handler finds no mapping.                          *)
ProcessFails(h) ==
  /\ up /\ hpc[h] = "process"
  /\ ~Maps(hdoc[h])
  /\ HandlerGoto(h, "markError")
  /\ UNCHANGED <<up, raw, active, loopVars, counters, records, budget,
                 acked, asked>>

(* batch.Add flushes, the insert of the batch fails with a nil result, the *)
(* handler panics and gin.Recovery answers: the document is not marked.    *)
HandlerPanics(h) ==
  /\ up /\ hpc[h] = "mark"
  /\ Fault
  /\ HandlerReturns(h)
  /\ UNCHANGED <<up, raw, active, loopVars, counters, records, crashes,
                 gaps, reprocesses, acked, asked>>

(* MarkProcessed; an error of it is only logged.                           *)
Finish(h) ==
  /\ up /\ hpc[h] = "mark"
  /\ UpdateRaw(MarkedProcessed(raw, hdoc[h]))
  /\ processedCount' = processedCount + 1
  /\ acked' = acked \cup {raw[hdoc[h]].req}
  /\ HandlerReturns(h)
  /\ UNCHANGED <<up, active, loopVars, receivedCount, rawCount, failedCount,
                 records, crashes, gaps, reprocesses, asked>>

(* MarkError; an error of it is only logged.  Without StrictMode the       *)
(* answer is a success.                                                    *)
FinishFailed(h) ==
  /\ up /\ hpc[h] = "markError"
  /\ UpdateRaw(MarkedError(raw, hdoc[h]))
  /\ failedCount' = failedCount + 1
  /\ acked' = IF StrictMode THEN acked ELSE acked \cup {raw[hdoc[h]].req}
  /\ HandlerReturns(h)
  /\ UNCHANGED <<up, active, loopVars, receivedCount, rawCount,
                 processedCount, records, crashes, gaps, reprocesses,
                 asked>>
-----------------------------------------------------------------------------
(* processRawDataLoop: a tick, and GetUnprocessed answers.                 *)
Fetch ==
  /\ up /\ lpc = "wait"
  /\ todo' = GetUnprocessed(raw, FetchLimit)
  /\ todo' # {}
  /\ lpc' = "process"
  /\ asked' = asked \ todo'
  /\ UNCHANGED <<up, raw, active, handlerVars, counters, records,
                 budget, acked>>

(* The loop works through what it fetched, oldest first.                   *)
Oldest(d) == d \in todo /\ \A e \in todo : d <= e

LoopAt(label, d) == up /\ lpc = label /\ Oldest(d)

\* Mutation: the loop leaves a fetch after its first document.
LoopNextBreaks(d) == todo' = todo \ {d} /\ lpc' = "wait"

LoopNext(d) ==
  /\ todo' = todo \ {d}
  /\ lpc' = IF todo' = {} THEN "wait" ELSE "process"

LoopProcess(d) ==
  /\ LoopAt("process", d)
  /\ Maps(d)
  /\ HandOver(d)
  /\ asked' = asked \ {d}
  /\ lpc' = "mark"
  /\ UNCHANGED <<up, raw, active, handlerVars, todo, counters, budget, acked>>

LoopProcessFails(d) ==
  /\ LoopAt("process", d)
  /\ ~Maps(d)
  /\ lpc' = "markError"
  /\ UNCHANGED <<up, raw, active, handlerVars, todo, counters, records,
                 budget, acked, asked>>

(* MarkProcessed; only a success of it is counted.                         *)
LoopFinish(d) ==
  /\ LoopAt("mark", d)
  /\ UpdateRaw(MarkedProcessed(raw, d))
  /\ processedCount' = IF faults' = faults THEN processedCount + 1
                                           ELSE processedCount
  /\ LoopNext(d)
  /\ UNCHANGED <<up, active, handlerVars, receivedCount, rawCount,
                 failedCount, records, crashes, gaps, reprocesses, acked,
                 asked>>

LoopFinishFailed(d) ==
  /\ LoopAt("markError", d)
  /\ UpdateRaw(MarkedError(raw, d))
  /\ LoopNext(d)
  /\ UNCHANGED <<up, active, handlerVars, counters, records, crashes, gaps,
                 reprocesses, acked, asked>>
-----------------------------------------------------------------------------
(* cleanupRawDataLoop: documents older than seven days, also one that some *)
(* goroutine still holds: no lock and no flag keeps it.                    *)
Cleanup ==
  /\ up
  /\ \E cutoff \in DOMAIN raw : raw' = Cleaned(raw, cutoff)
  /\ UNCHANGED <<up, active, handlerVars, loopVars, counters, records,
                 budget, acked, asked>>

(* POST /api/raw/reprocess/:id.  Only an answer with status 200 promises   *)
(* anything; it is the same for a document that is gone.                   *)
ReprocessRawData(d) ==
  /\ up
  /\ reprocesses < MaxReprocess /\ reprocesses' = reprocesses + 1
  /\ UpdateRaw(Reprocessed(raw, d))
  /\ asked' = IF raw[d].present /\ faults' = faults THEN asked \cup {d}
                                                   ELSE asked
  /\ UNCHANGED <<up, active, handlerVars, loopVars, counters, records,
                 crashes, gaps, acked>>

(* The batch writer: S is stored, L is dropped by a failed insert.         *)
Flush(S, L) ==
  /\ up
  /\ Sink!Settle(S, L)
  /\ IF L = {} THEN UNCHANGED faults ELSE Fault
  /\ UNCHANGED <<up, raw, active, handlerVars, loopVars, counters, crashes,
                 gaps, reprocesses, acked, asked>>

FlushOf(r) ==
  \E S \in SUBSET pending : \E L \in SUBSET (pending \ S) :
    r \in S \cup L /\ Flush(S, L)

(* The mapping is deleted or deactivated, and is there again.              *)
MappingLost ==
  /\ active
  /\ gaps < MaxGaps /\ gaps' = gaps + 1
  /\ active' = FALSE
  /\ UNCHANGED <<up, raw, handlerVars, loopVars, counters, records,
                 faults, crashes, reprocesses, acked, asked>>

MappingBack ==
  /\ ~active
  /\ active' = TRUE
  /\ UNCHANGED <<up, raw, handlerVars, loopVars, counters, records,
                 budget, acked, asked>>

(* The process dies, or exits; the batch that is being inserted may be     *)
(* stored, what else was in memory is lost.                                *)
Crash ==
  /\ up
  /\ crashes < MaxCrashes /\ crashes' = crashes + 1
  /\ up' = FALSE
  /\ hpc' = [h \in Handler |-> "idle"] /\ hdoc' = [h \in Handler |-> 0]
  /\ lpc' = "wait" /\ todo' = {}
  /\ receivedCount' = 0 /\ rawCount' = 0
  /\ processedCount' = 0 /\ failedCount' = 0
  /\ \E S \in SUBSET pending :
       /\ stored' = stored \cup S
       /\ lost' = lost \cup (pending \ S)
  /\ pending' = {}
  /\ UNCHANGED <<raw, active, faults, gaps, reprocesses, acked, asked>>

(* NewService: the loops start again.                                      *)
Restart ==
  /\ ~up
  /\ up' = TRUE
  /\ UNCHANGED <<raw, active, handlerVars, loopVars, counters, records,
                 budget, acked, asked>>

HandlerStep(h) == Process(h) \/ ProcessFails(h) \/ Finish(h) \/ FinishFailed(h)

LoopStep(d) ==
  LoopProcess(d) \/ LoopProcessFails(d) \/ LoopFinish(d) \/ LoopFinishFailed(d)

Next ==
  \/ \E h \in Handler, q \in Request : StoreRaw(h, q) \/ StoreRawFails(h, q)
  \/ \E h \in Handler : HandlerStep(h) \/ HandlerPanics(h)
  \/ Fetch
  \/ \E d \in todo : LoopStep(d)
  \/ Cleanup
  \/ \E d \in DOMAIN raw : ReprocessRawData(d)
  \/ \E S \in SUBSET pending : \E L \in SUBSET (pending \ S) : Flush(S, L)
  \/ MappingLost
  \/ MappingBack
  \/ Crash
  \/ Restart

(* A running handler and the loop go on; the 30 s ticker of the loop ticks *)
(* and the fetch answers; the batch writer settles every record (the       *)
(* fairness of RecordSink); a dead process is started again and a missing  *)
(* mapping comes back.  That failures end is the business of the bounds.   *)
Fairness ==
  /\ \A h \in Handler : WF_vars(HandlerStep(h))
  /\ WF_vars(Fetch)
  /\ WF_vars(\E d \in todo : LoopStep(d))
  /\ \A r \in Record : WF_vars(FlushOf(r))
  /\ WF_vars(MappingBack)
  /\ WF_vars(Restart)

SafetySpec == Init /\ [][Next]_vars
Spec == SafetySpec /\ Fairness
-----------------------------------------------------------------------------
TypeOK ==
  /\ up \in BOOLEAN /\ active \in BOOLEAN
  /\ raw \in Seq(RawDoc) /\ Len(raw) <= MaxDocs
  /\ hpc \in [Handler -> {"idle", "process", "mark", "markError"}]
  /\ hdoc \in [Handler -> Nat]
  /\ \A h \in Busy : hdoc[h] \in DOMAIN raw
  /\ lpc \in {"wait", "process", "mark", "markError"}
  /\ todo \subseteq DOMAIN raw
  /\ lpc # "wait" <=> todo # {}
  /\ receivedCount \in Nat /\ rawCount \in Nat
  /\ processedCount \in Nat /\ failedCount \in Nat
  /\ pending \subseteq Record /\ stored \subseteq Record /\ lost \subseteq Record
  /\ faults \in Nat /\ crashes \in Nat /\ gaps \in Nat /\ reprocesses \in Nat
  /\ acked \subseteq Request
  /\ asked \subseteq DOMAIN raw

(* Whatever fails or crashes in whatever order, the service can still make *)
(* a record of a payload it once stored: its raw document is there and     *)
(* unprocessed, so that a later fetch finds it, unless a record of it was  *)
(* given to the batch writer.  Retention deletes no other document.        *)
Replayable ==
  \A d \in DOMAIN raw : d \in Unprocessed(raw) \/ RecordsOf(d) # {}

(* A client that was told its payload was processed has a raw document     *)
(* behind the answer, and under StrictMode a record.                       *)
AckedIsBacked ==
  \A q \in acked : \E d \in DOMAIN raw :
    raw[d].req = q /\ (StrictMode => RecordsOf(d) # {})

(* Duplicates: a handler and a fetch that overlaps it may each make a      *)
(* record of one document; beyond these two, every further record of a     *)
(* document is the work of a failed call, of a crash or of a request to    *)
(* reprocess.  A gap of the mapping, though it sends documents through the *)
(* loop again, makes no record twice.                                      *)
DuplicatesBounded ==
  \A d \in DOMAIN raw :
    HandOvers(d) <= 2 + faults + crashes + reprocesses

(* The counters of the running process never claim more than happened: a   *)
(* raw document behind rawCount, a record of its own behind each increment *)
(* of processedCount (which handlers and the loop count by different       *)
(* rules), and a request that has ended behind each failure.               *)
CountersBacked ==
  /\ rawCount <= Len(raw)
  /\ processedCount <= Cardinality(Records)
  /\ failedCount + Cardinality(Busy) <= receivedCount

(* README: the reprocessor retries documents that are not processed.  A    *)
(* payload that was stored and that the mapping accepts is handed to the   *)
(* batch writer at last, by its handler or, after failures and restarts,   *)
(* by the loop.  (It is not if as many older documents as one fetch takes  *)
(* fail for ever.)                                                         *)
EventuallyHandedOver ==
  \A d \in DocId :
    (d \in DOMAIN raw /\ raw[d].req \in Mappable) ~> RecordsOf(d) # {}

(* README: the reprocessor guarantees eventual consistency even if         *)
(* downstream services are temporarily unavailable, that is, a stored      *)
(* payload gets its normalised record into the collection.                 *)
EventuallyStored ==
  \A d \in DocId :
    (d \in DOMAIN raw /\ raw[d].req \in Mappable)
      ~> \E r \in stored : r[1] = d

(* The same, as far as the code goes: a payload that never gets its record *)
(* is the work of a failed call or of a crash, and not of a gap of the     *)
(* mapping, a request to reprocess or the loop overlapping the handler.    *)
(* (Here too payloads that fail for ever may not fill every fetch.)        *)
StoredUnlessFaulty ==
  \A d \in DocId :
    (d \in DOMAIN raw /\ raw[d].req \in Mappable)
      ~> \/ \E r \in stored : r[1] = d
         \/ faults + crashes > 0

(* "Raw data marked for reprocessing": a document whose reprocessing was   *)
(* confirmed is fetched again, or a record is made of it after the request.*)
ReprocessHonoured == \A d \in DocId : d \in asked ~> d \notin asked
=============================================================================
