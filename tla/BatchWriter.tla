---------------------------- MODULE BatchWriter ----------------------------
(***************************************************************************)
(* internal/service/batch_writer.go: a buffer of normalised records, the   *)
(* mutex that guards it, and the threads that use it, up to the end that   *)
(* cmd/server/main.go puts to them.                                        *)
(*                                                                         *)
(*   Handler    goroutines of HTTP requests, which call Add                *)
(*   RawLoop    processRawDataLoop, the other caller of Add, never stopped *)
(*   AutoFlush  the goroutine that NewBatchWriter starts                   *)
(*   Main       main: signal, srv.Shutdown, Service.Close, exit            *)
(*                                                                         *)
(* Each lock region of the code is one action; the call of repo.Insert is  *)
(* outside the lock and is an action of its own, so any number of flushes  *)
(* overlap.  Insert is MongoRepo.Insert: an unordered InsertMany that may  *)
(* store part of its batch.                                                *)
(*                                                                         *)
(* A record is the argument of one call of Add, so buffers are sets: the   *)
(* insert is unordered and nobody reads the order of the buffer.           *)
(***************************************************************************)
EXTENDS Naturals, FiniteSets

CONSTANTS Record, Handler, RawLoop, AutoFlush, Main, BatchSize

Adder  == Handler \cup {RawLoop}
Thread == Adder \cup {AutoFlush, Main}

\* config.Validate accepts a batch size of 1 to 10000.
ASSUME BatchSizeAssumption == BatchSize \in Nat \ {0}
ASSUME ThreadAssumption ==
  /\ IsFiniteSet(Handler)
  /\ {RawLoop, AutoFlush, Main} \cap Handler = {}
  /\ RawLoop # AutoFlush /\ RawLoop # Main /\ AutoFlush # Main

VARIABLES
  up,              \* the process is alive
  buffer,          \* bw.buffer
  stop,            \* the channel bw.stop is closed
  pc,              \* where each thread stands
  ret,             \* where a thread goes on when Flush returns
  toWrite,         \* the local copy a thread is inserting
  recordCount,     \* the local recordCount of Flush
  batchesWritten, recordsWritten,
  added,           \* ghost: the records Add was called with
  stored,          \* the collection inverter_data
  lost,            \* ghost: records that left the memory without being stored
  uncounted,       \* ghost: what a thread has inserted and not yet counted
  beforeStop       \* ghost: the value of added when Close closed the channel

sinkPart  == <<added, stored, lost>>
statsPart == <<batchesWritten, recordsWritten, uncounted>>
vars == <<up, buffer, stop, pc, ret, toWrite, recordCount, statsPart,
          sinkPart, beforeStop>>

InFlight == UNION {toWrite[t] : t \in Thread}
InMemory == buffer \cup InFlight

Label == {"idle", "select", "run", "drain", "flush", "insert", "batches", "records",
          "stop", "wait", "done", "closed", "exited"}
-----------------------------------------------------------------------------
Init ==
  /\ up = TRUE
  /\ buffer = {}
  /\ stop = FALSE
  /\ pc = [t \in Thread |-> IF t \in Adder THEN "idle"
                            ELSE IF t = AutoFlush THEN "select" ELSE "run"]
  /\ ret = pc
  /\ toWrite = [t \in Thread |-> {}]
  /\ recordCount = [t \in Thread |-> 0]
  /\ batchesWritten = 0 /\ recordsWritten = 0
  /\ uncounted = toWrite
  /\ added = {} /\ stored = {} /\ lost = {} /\ beforeStop = {}

At(t, label) == up /\ pc[t] = label

Goto(t, label) == pc' = [pc EXCEPT ![t] = label] /\ UNCHANGED ret

CallFlush(t, back) ==
  /\ pc'  = [pc EXCEPT ![t] = "flush"]
  /\ ret' = [ret EXCEPT ![t] = back]

Return(t) == Goto(t, ret[t])
-----------------------------------------------------------------------------
\* Mutation: the comparison of Add is strict.
FullLate(b) == Cardinality(b) > BatchSize

Full(b) == Cardinality(b) >= BatchSize

(* Requests are served until srv.Shutdown has returned.                    *)
Serving == pc[Main] \in {"run", "drain"}

(* Add: append and decide under the lock, flush after it is released.      *)
Add(t, r) ==
  /\ At(t, "idle")
  /\ t \in Handler => Serving
  /\ r \notin added
  /\ added' = added \cup {r}
  /\ buffer' = buffer \cup {r}
  /\ IF Full(buffer')
       THEN CallFlush(t, "idle")
       ELSE UNCHANGED <<pc, ret>>
  /\ UNCHANGED <<up, stop, toWrite, recordCount, statsPart, stored, lost,
                 beforeStop>>

\* Mutation: Flush does not clear the buffer it has copied.
FlushTakeKeepsBuffer(t) ==
  /\ At(t, "flush")
  /\ buffer # {}
  /\ toWrite' = [toWrite EXCEPT ![t] = buffer]
  /\ recordCount' = [recordCount EXCEPT ![t] = Cardinality(buffer)]
  /\ Goto(t, "insert")
  /\ UNCHANGED <<up, buffer, stop, statsPart, sinkPart, beforeStop>>

(* Flush, the lock region: nothing to do, or copy the buffer and clear it. *)
FlushTake(t) ==
  /\ At(t, "flush")
  /\ IF buffer = {}
       THEN Return(t) /\ UNCHANGED <<buffer, toWrite, recordCount>>
       ELSE /\ toWrite' = [toWrite EXCEPT ![t] = buffer]
            /\ recordCount' = [recordCount EXCEPT ![t] = Cardinality(buffer)]
            /\ buffer' = {}
            /\ Goto(t, "insert")
  /\ UNCHANGED <<up, stop, statsPart, sinkPart, beforeStop>>

(* The memory of the process is lost, but for what the inserts in flight   *)
(* had already written.                                                    *)
LoseMemory ==
  /\ up' = FALSE
  /\ \E written \in SUBSET InFlight :
       /\ stored' = stored \cup written
       /\ lost' = lost \cup (InMemory \ written)
  /\ buffer' = {}
  /\ toWrite' = [t \in Thread |-> {}]
  /\ UNCHANGED <<stop, recordCount, statsPart, added, beforeStop>>

(* The process dies where its threads stand.                               *)
Die == LoseMemory /\ UNCHANGED <<pc, ret>>

(* repo.Insert answers nil.                                                *)
InsertOK(t) ==
  /\ At(t, "insert")
  /\ stored' = stored \cup toWrite[t]
  /\ toWrite' = [toWrite EXCEPT ![t] = {}]
  /\ uncounted' = [uncounted EXCEPT ![t] = toWrite[t]]
  /\ Goto(t, "batches")
  /\ UNCHANGED <<up, buffer, stop, recordCount, batchesWritten,
                 recordsWritten, added, lost, beforeStop>>

(* Part of a batch is in the collection, nobody keeps the rest.            *)
KeepOnly(t, written) ==
  /\ stored' = stored \cup written
  /\ lost' = lost \cup (toWrite[t] \ written)
  /\ toWrite' = [toWrite EXCEPT ![t] = {}]

\* Mutation: the error branch of Flush does not return.
InsertFailsCounted(t) ==
  /\ At(t, "insert")
  /\ \E written \in SUBSET toWrite[t] :
       written # toWrite[t] /\ KeepOnly(t, written)
  /\ Goto(t, "batches")
  /\ UNCHANGED <<up, buffer, stop, recordCount, statsPart, added, beforeStop>>

\* Mutation: a failed batch is put back into the buffer.
InsertFailsRebuffers(t) ==
  /\ At(t, "insert")
  /\ buffer' = buffer \cup toWrite[t]
  /\ toWrite' = [toWrite EXCEPT ![t] = {}]
  /\ Return(t)
  /\ UNCHANGED <<up, stop, recordCount, statsPart, sinkPart, beforeStop>>

(* repo.Insert answers write errors, or an error about the write concern   *)
(* although all was written: Flush logs it and returns.                    *)
InsertFails(t) ==
  /\ At(t, "insert")
  /\ \E written \in SUBSET toWrite[t] : KeepOnly(t, written)
  /\ Return(t)
  /\ UNCHANGED <<up, buffer, stop, recordCount, statsPart, added, beforeStop>>

(* InsertMany answers a transport error or a timeout, with a nil result    *)
(* whose InsertedIDs the log line reads: the thread panics.  gin.Recovery  *)
(* absorbs the panic of a handler, any other one ends the process.         *)
InsertPanics(t) ==
  /\ At(t, "insert")
  /\ IF t \in Handler
       THEN /\ \E written \in SUBSET toWrite[t] : KeepOnly(t, written)
            /\ Goto(t, "idle")
            /\ UNCHANGED <<up, buffer, stop, recordCount, statsPart, added,
                           beforeStop>>
       ELSE Die

(* The two atomic counters of a successful Flush, one after the other.     *)
CountBatch(t) ==
  /\ At(t, "batches")
  /\ batchesWritten' = batchesWritten + 1
  /\ Goto(t, "records")
  /\ UNCHANGED <<up, buffer, stop, toWrite, recordCount, recordsWritten,
                 uncounted, sinkPart, beforeStop>>

\* Mutation: ^uint64(n-1), the idiom of the atomic package for subtracting.
CountRecordsDown(t) ==
  /\ At(t, "records")
  /\ recordsWritten' = recordsWritten - recordCount[t]
  /\ uncounted' = [uncounted EXCEPT ![t] = {}]
  /\ Return(t)
  /\ UNCHANGED <<up, buffer, stop, toWrite, recordCount, batchesWritten,
                 sinkPart, beforeStop>>

CountRecords(t) ==
  /\ At(t, "records")
  /\ recordsWritten' = recordsWritten + recordCount[t]
  /\ uncounted' = [uncounted EXCEPT ![t] = {}]
  /\ Return(t)
  /\ UNCHANGED <<up, buffer, stop, toWrite, recordCount, batchesWritten,
                 sinkPart, beforeStop>>

(* autoFlush: a tick of the flush interval.                                *)
AutoTick ==
  /\ At(AutoFlush, "select")
  /\ CallFlush(AutoFlush, "select")
  /\ UNCHANGED <<up, buffer, stop, toWrite, recordCount, statsPart, sinkPart,
                 beforeStop>>

(* autoFlush: the stop channel is closed; a last flush, then return.       *)
AutoStop ==
  /\ At(AutoFlush, "select")
  /\ stop
  /\ CallFlush(AutoFlush, "done")
  /\ UNCHANGED <<up, buffer, stop, toWrite, recordCount, statsPart, sinkPart,
                 beforeStop>>

(* main: a signal came.  srv.Shutdown accepts no new connection and waits  *)
(* for the requests in hand, which may still call Add.                     *)
Signal ==
  /\ At(Main, "run")
  /\ Goto(Main, "drain")
  /\ UNCHANGED <<up, buffer, stop, toWrite, recordCount, statsPart, sinkPart,
                 beforeStop>>

(* main: Shutdown gave up on a request after 5 s.  log.Fatal ends the      *)
(* process without the deferred calls of Close.                            *)
ShutdownTimesOut == At(Main, "drain") /\ Die

\* Mutation: main closes the service as soon as the signal came.
CloseUndrained ==
  /\ At(Main, "drain")
  /\ CallFlush(Main, "stop")
  /\ UNCHANGED <<up, buffer, stop, toWrite, recordCount, statsPart, sinkPart,
                 beforeStop>>

(* main: every request has ended, Shutdown returns and the deferred        *)
(* Service.Close runs: batch.Flush, then batch.Close.                      *)
CloseBegin ==
  /\ At(Main, "drain")
  /\ \A h \in Handler : pc[h] = "idle"
  /\ CallFlush(Main, "stop")
  /\ UNCHANGED <<up, buffer, stop, toWrite, recordCount, statsPart, sinkPart,
                 beforeStop>>

\* Mutation: Close waits without closing the channel.
CloseStopForgotten ==
  /\ At(Main, "stop")
  /\ beforeStop' = added
  /\ Goto(Main, "wait")
  /\ UNCHANGED <<up, buffer, stop, toWrite, recordCount, statsPart, sinkPart>>

(* BatchWriter.Close: close(bw.stop).                                      *)
CloseStop ==
  /\ At(Main, "stop")
  /\ stop' = TRUE
  /\ beforeStop' = added
  /\ Goto(Main, "wait")
  /\ UNCHANGED <<up, buffer, toWrite, recordCount, statsPart, sinkPart>>

(* BatchWriter.Close: wg.Wait waits for autoFlush alone; an extra Flush.   *)
CloseWait ==
  /\ At(Main, "wait")
  /\ pc[AutoFlush] = "done"
  /\ CallFlush(Main, "closed")
  /\ UNCHANGED <<up, buffer, stop, toWrite, recordCount, statsPart, sinkPart,
                 beforeStop>>

(* main: svc.Close has returned; db.Close gives the connections in use 5 s *)
(* and the process exits, whatever the loop it never stopped is doing.     *)
Exit == At(Main, "closed") /\ LoseMemory /\ Goto(Main, "exited")

(* The process is killed at any moment.                                    *)
Kill == up /\ Die

InsertReturns(t) == InsertOK(t) \/ InsertFails(t) \/ InsertPanics(t)

FlushStep(t) ==
  FlushTake(t) \/ InsertReturns(t) \/ CountBatch(t) \/ CountRecords(t)

Next ==
  \/ \E t \in Adder, r \in Record : Add(t, r)
  \/ \E t \in Thread : FlushStep(t)
  \/ AutoTick
  \/ AutoStop
  \/ Signal
  \/ ShutdownTimesOut
  \/ CloseBegin
  \/ CloseStop
  \/ CloseWait
  \/ Exit
  \/ Kill

(* Every goroutine is scheduled; Insert answers within its 30 s context;   *)
(* the ticker ticks; Shutdown returns, or times out after 5 s.  A select   *)
(* with two ready channels picks one at random, so a closed stop channel   *)
(* is not passed over for ever (SF).                                       *)
(* Nothing obliges a caller to call Add, or the process to be shut down.   *)
Fairness ==
  /\ \A t \in Thread : WF_vars(FlushStep(t))
  /\ WF_vars(AutoTick)
  /\ SF_vars(AutoStop)
  /\ WF_vars(CloseBegin \/ ShutdownTimesOut)
  /\ WF_vars(CloseStop)
  /\ WF_vars(CloseWait)
  /\ WF_vars(Exit)

SafetySpec == Init /\ [][Next]_vars
Spec == SafetySpec /\ Fairness
-----------------------------------------------------------------------------
TypeOK ==
  /\ up \in BOOLEAN
  /\ buffer \in SUBSET Record
  /\ stop \in BOOLEAN
  /\ pc \in [Thread -> Label]
  /\ ret \in [Thread -> Label]
  /\ toWrite \in [Thread -> SUBSET Record]
  /\ recordCount \in [Thread -> Nat]
  /\ batchesWritten \in Nat
  /\ recordsWritten \in Nat
  /\ uncounted \in [Thread -> SUBSET Record]
  /\ added \in SUBSET Record
  /\ stored \in SUBSET Record
  /\ lost \in SUBSET Record
  /\ beforeStop \in SUBSET Record

(* However flushes overlap, a record passed to Add is in exactly one       *)
(* place: the buffer, the batch one single thread is inserting, the        *)
(* collection, or lost.  So no record vanishes between the lock regions of *)
(* Add and Flush, and none is inserted twice.                              *)
ExactlyOnePlace ==
  /\ added = InMemory \cup stored \cup lost
  /\ stored \cap lost = {}
  /\ InMemory \cap (stored \cup lost) = {}
  /\ \A t \in Thread : toWrite[t] \cap buffer = {}
  /\ \A t, u \in Thread : t # u => toWrite[t] \cap toWrite[u] = {}

(* Add releases the lock before it flushes, so the buffer outgrows         *)
(* batchSize; but only by one record per caller that has decided to flush  *)
(* and not done it yet.                                                    *)
WantsFlush == {t \in Adder : pc[t] = "flush"}

BufferBound == Cardinality(buffer) < BatchSize + Cardinality(WantsFlush)

(* records_written never runs ahead of the collection: beside the records  *)
(* it claims, those of every batch that was inserted and is still to be    *)
(* counted are stored, whatever other flushes fail meanwhile.              *)
Uncounted == UNION {uncounted[t] : t \in Thread}

RecordsWrittenBacked == recordsWritten <= Cardinality(stored \ Uncounted)

(* Close "stops the batch writer and flushes remaining data": when it has  *)
(* returned, no record added before the stop channel was closed is left in *)
(* the buffer or in any batch but that of the loop nobody stopped, since   *)
(* Shutdown let the handlers end and Close waited for autoFlush.           *)
ClosedIsDrained ==
  pc[Main] = "closed" =>
    beforeStop \cap InMemory \subseteq toWrite[RawLoop]

(* The process "flushes batches" before it exits gracefully (README.md,    *)
(* Graceful shutdown): the exit loses no record that was added before the  *)
(* shutdown closed the batch writer.                                       *)
ExitLosesNothing == [][Exit => lost' \cap beforeStop \subseteq lost]_vars

(* A signal ends the process: the handlers end or are given up, autoFlush  *)
(* sees the closed channel whatever the ticker does, and the last flushes  *)
(* end.                                                                    *)
CloseReturns == pc[Main] = "drain" ~> pc[Main] = "exited" \/ ~up

(* The writer implements the promise of RecordSink: an accepted record     *)
(* leaves the memory once, to the collection or to the lost, in steps the  *)
(* sink allows; and it does leave, even when the traffic stops before the  *)
(* batch is full, because the next tick takes it and Insert answers.       *)
Sink == INSTANCE RecordSink WITH pending <- InMemory

ImplementsSink == Sink!Spec
=============================================================================
