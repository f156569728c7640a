# Formal model of the solar inverter ingestion service

The repository is a Go server. Inverters post readings to `/api/data`; the
server stores each payload as it came (`raw_data`), maps it to a normalised
record, and writes records in batches (`inverter_data`). This directory holds
TLA+ modules of that pipeline, TLC configurations that check them on small
instances, and proofs that TLAPS checks for all instances. Paths below are
relative to `src/`.

Run everything from this directory:

    tlc -config BatchWriter.cfg MCBatchWriter.tla
    tlc -config Ingest_safety.cfg MCRawStats.tla
    tlc -config Ingest_live.cfg MCIngest.tla
    tlc -config Mappings.cfg MCMappings.tla
    tlc -config Rules.cfg MCRules.tla
    tlc -config Queries.cfg MCQueries.tla
    tlc -config OptimizedIngest.cfg MCOptimizedIngest.tla
    tlapm BatchWriterProofs.tla
    tlapm RawStoreProofs.tla
    tlapm IngestProofs.tla
    tlapm RawStatsProofs.tla
    tlapm MappingsProofs.tla
    tlapm QueriesProofs.tla
    tlapm OptimizedIngestProofs.tla
    tlapm RulesProofs.tla

The other five configurations (section 3) are expected to end in a
counterexample.

## 1. The system

| Component | State | Operations | Talks to |
|---|---|---|---|
| Batch writer `internal/service/batch_writer.go` | `buffer` under a mutex, the channel `stop`, two atomic counters | `Add`, `Flush`, `autoFlush`, `Close`, `Size`, `Stats` | called by handlers, the raw loop, `Service.Close`; calls `Repository.Insert` |
| Record repositories `internal/repository/mongo_repository.go`, `influx_repository.go` | a collection or table | `Insert`, `Query`, `Count` | MongoDB / InfluxDB |
| Raw store `internal/repository/raw_repository.go` | the collection `raw_data` | `Insert`, `MarkProcessed`, `MarkError`, `GetUnprocessed`, `Reprocess`, `Cleanup`, counts | MongoDB |
| Service `internal/service/service.go` | four atomic counters | `ProcessData`, `processRawDataLoop`, `cleanupRawDataLoop`, `ReprocessRawData`, `GetStats`, `Query`, mapping calls, `Close` | all of the above |
| UltraMapper `internal/service/ultra_mapping.go`, `dynamicmap.go` | compiled mappings under an RWMutex | `Load`, `autoReload`, `DetectSourceID`, `MapFields`, seeding | the collection `mappings` |
| Caches `internal/service/cache.go` | items with expiry | `Get`, `Set`, `GetOrSet`, `Clear`, `cleanup`, `Close` | used by `GetStats` and `Query` |
| Lifecycle `cmd/server/main.go` | none | start, signal, `srv.Shutdown`, deferred `Close` calls | service, database |
| HTTP API `internal/api/*` | none | handlers, one goroutine per request | service |
| Legacy mapper `internal/service/mapper.go` | mappings | detection by score, `MapFields`, `transform` | no caller; the README describes its detection |
| Optimised service `optimized_service.go`, `optimized_mapper.go` | `rawBatch`, shared key and result buffers | `ProcessData`, `rawBatchFlusher`, the loop, `Close`, detection and mapping | no caller |
| Format mapper `internal/formatter/format_mapper.go` | renaming tables | `MapToExpectedFormat` | no caller |
| Configuration, domain types, logger | constants, files | read once / formatting | |

What is hard in it:

* **Concurrency.** Handlers, `processRawDataLoop`, `autoFlush` and `Close` all
  reach `Flush`; the insert runs outside the lock, so flushes overlap. The
  loop may process a document that its handler is still working on.
* **Failure.** Every database call has a timeout and may fail before or after
  it took effect; a cursor or a stream may end early, which two callers take
  for its end. `Flush` only logs a failed insert. On a transport error
  `MongoRepo.Insert` dereferences a nil result and panics; `gin.Recovery`
  absorbs that in a handler, anywhere else it ends the process.
* **Crash and restart.** `raw_data` is the only thing that survives a death,
  and the `processed` flag decides what is tried again.
* **Ordering.** The order store / hand over / mark fixes what a crash can lose
  or duplicate.
* **Shutdown.** `Shutdown` waits 5 s for the handlers; then either `log.Fatal`
  skips `Close`, or `Close` races the last tick of `autoFlush` while the raw
  loop, which nobody stops, goes on.
* **Stale state.** Answers are cached while records arrive; several callers load
  at once and the slower one may put an older answer back.
* **Data.** Mappings are free text written by API clients; three mappers and
  three conversions to a record have to agree on names, types and transforms.

What makes each part correct:

* batch writer: each record leaves the buffer once; the counters count only
  what is stored; the buffer is bounded; `Close` drains and returns.
* ingestion: a stored payload stays replayable until there is a record of it;
  duplicates are accounted for; success answers are backed; every mappable
  payload is handed over at last.
* mapper: the memory follows the collection, never backwards, and a change
  that was answered is visible once its mapping has been read.
* caches and queries: an answer belongs to its filter and is no older than
  its TTL allows; statistics are counts of states of the collection.
* rules: detection picks a best mapping whatever the order of iteration; what a
  client sent under a mapped name is in the record.
* optimised service: an acknowledged payload is kept, records are bounded, and
  an undisturbed mapping gets its own fields.

The hazards, each at its line with the properties aimed at it, are the
`hazards` of `PROJECT.json`.

## 2. Modules

| Module | Models | Kind |
|---|---|---|
| `RecordSink` | what the batch writer promises its callers | abstract specification |
| `BatchWriter` | `batch_writer.go`, `MongoRepo.Insert`, `Service.Close`, the shutdown in `main.go` | detailed specification, implements `RecordSink` |
| `BatchWriterProofs` | theorems about `BatchWriter` | proofs |
| `RawStore` | `raw_repository.go` as functions on the collection | operators |
| `Ingest` | `ProcessData`, the raw loop, retention, reprocessing, over `RawStore` and `RecordSink` | specification |
| `RawStoreProofs` | what each operator of `RawStore` returns, keeps and changes | proofs |
| `IngestProofs` | theorems about `Ingest` | proofs |
| `RawStats` | `GetRawDataStats` over a running `Ingest` | composition |
| `RawStatsProofs` | theorems about `RawStats`, and those of `Ingest` under it | proofs |
| `VersionedCache` | what the mapper promises its users | abstract specification |
| `Mappings` | `ultra_mapping.go` up to the lookup, and the mapping calls of `service.go` | detailed specification, implements `VersionedCache` |
| `MappingsProofs` | theorems about `Mappings` | proofs |
| `TTLCache` | `cache.go` as functions on the items | operators |
| `Queries` | `GetStats`, `Query` and their caches, `Query` and `Count` of both repositories | specification |
| `QueriesProofs` | theorems about `Queries` | proofs |
| `FieldRules` | detection and mapping of the three mappers | pure operators |
| `RecordForms` | from mapped fields, or a payload, to a record | pure operators |
| `Rules` | the mapping API's validation, the seeds, every mapper applied to what it accepts | specification over `FieldRules`, `RecordForms` |
| `RulesProofs` | what the operators of `FieldRules` and `RecordForms` compute, theorems about `Rules` | proofs |
| `OptimizedIngest` | `optimized_service.go` with the buffers of `optimized_mapper.go`, over `RawStore` | specification |
| `OptimizedIngestProofs` | theorems about `OptimizedIngest` | proofs |
| `MCBatchWriter`, `MCIngest`, `MCRawStats`, `MCMappings`, `MCQueries`, `MCRules`, `MCOptimizedIngest` | instances for TLC | |

### RecordSink

Three sets: `pending` (in the memory of the process), `stored`, `lost`.
`Accept(r)` is `Add`; `Settle(S, L)` moves records out of the memory, to the
collection (`S`) or to oblivion (`L`). Its liveness is that no record stays
pending for ever. It does not promise that a record is stored, because the
code does not.

### BatchWriter

One action per lock region or database call, with a program counter per
thread. `Add` appends and decides to flush in one action (`batch_writer.go:54-57`)
and the thread flushes in later ones, so other threads run in between.
`FlushTake` is the lock region of `Flush`; the insert ends by `InsertOK`,
`InsertFails` (write errors of the unordered insert, a write concern that was
not met or a late reply: any part of the batch is stored, or all of it) or `InsertPanics` (nil result: the handler's goroutine
unwinds, any other thread takes the process down by `Die`). The two counters
are separate steps. `AutoTick`/`AutoStop` are the branches of the select.

`main` goes through `run`, `drain` (`Signal`: `srv.Shutdown` refuses new requests;
handlers at work may still call `Add`), then either `ShutdownTimesOut` (5 s are
over, `log.Fatal`, no deferred call runs) or, once every handler is idle,
`CloseBegin`, `CloseStop`, `CloseWait` (`Service.Close` and `BatchWriter.Close`)
and `Exit`, which loses whatever the loop still holds. `Kill` is a death at any
moment. The loop is never stopped, so it adds records until the exit.

A record is one call of `Add`; the buffer is a set since the insert is
unordered and nothing reads its order. `added`, `lost`, `beforeStop` and `uncounted`,
the records a thread has inserted but not yet added to the counters, are ghosts. `lastFlushCount` and `lastFlushTime`, written without a lock and only
reported, are left out.

### RawStore and Ingest

`raw` is the sequence of all documents in timestamp order; a position is an
`_id`, and deletion clears the field `present`. `Ingest` has one action per
database call: `StoreRaw`/`StoreRawFails`, `Process`/`ProcessFails` (mapping
and `batch.Add`), `Finish` (MarkProcessed) or `FinishFailed` (MarkError), and
the same for the loop after a `Fetch` of the oldest `FetchLimit` unprocessed
documents. `UpdateRaw` lets an update succeed, fail without effect, or fail
after it took effect. `HandlerPanics` is the panic of a flush inside
`batch.Add`; the same panic in the loop is a `Crash`.

The batch writer appears as `RecordSink` (its `Accept` and `Settle`), which
`BatchWriter` implements; its fairness is taken over. A batch that is dropped
spends a fault. `Cleanup` may delete any processed document, also one that a
goroutine still holds, and `ReprocessRawData` may fail like every update; only
its success is a promise (`asked`). The mapper
is a flag: with it set, the payloads of `Mappable` are accepted. A request
outside `Mappable` is a payload that no active mapping accepts, as happens once
the fallback mapping `Inv` has been deleted.

Assumptions of `Ingest`, none of which the code enforces by itself:

* the unique index on `request_id` exists (the error of `CreateMany` is
  ignored, `raw_repository.go:62`);
* a process that died is started again, and a missing mapping comes back (only
  used by the liveness runs).

`RawStats` adds one request for statistics at a time to `Ingest`: the counts it
subtracts, in the order of `service.go:363-364`, with any steps of the ingestion
between them. Any of them may fail and is 0 then, as its error is dropped. The
third count, from which nothing is computed, is part of `Answer`. A request dies
with the process. The field `error` of a document is absent (`omitempty`) until
`MarkError` or `Reprocess` writes it.

### VersionedCache and Mappings

`VersionedCache` is a sequence of values (the rules in force after each change
of the collection `mappings`), a table, the number `asOf` of the value that was
the last one when the table's refresh began, and the keys `missing` from it.
`Change` appends. `Refresh` installs a table that says of each key, unless it is
missing, what some value since `asOf` said, and never moves `asOf` back. `Stop`
is a service that failed to start. Its liveness: a refresh comes that shows all
of the last value.

`Mappings` keeps the same history, the table `memory`, the holders `mu` of the
write lock and a program counter per loader. `Load` is `Lock`; `Find`, which
opens the cursor under the lock, or `FindFails`; one `Read` for each document
the cursor passes, while others go on writing, so that what it has read need not
be one state of the collection; and `Install`, the assignment of `m.mappings` and the
release. In `Iterated` the loop may end although documents are missing: nobody
asks `cursor.Err` (`ultra_mapping.go:92`), so a later batch that cannot be fetched is
taken for the end, and a document that cannot be decoded is skipped
(`94-97`), which only one that this service did not write can be. The loaders are
`Boot` (`NewUltraMapper`: load, `Seed` if nothing was there, load again; a failure
stops the start of the service), `AutoReload` (`Tick`) and the clients that
called `CreateMapping`, `UpdateMapping` or `DeleteMapping`. A client's write
may fail, or fail after it took effect; then the client gets an error and
does not load. A reader is `processAndStore`: `DetectSourceID` and
`MapFields`, two separate regions of the read lock; it ends with either of them
failing (`Leave`) or after the record was made (`Done`).

A mapping is its existence, its flag `active` and the number of the change
that wrote its rules; what the rules do to a payload is in `Rules`. Some
consequences of the code are visible in the guards: a deleted `source_id`
cannot be created again, an update makes it active again, and updating or
deleting an unknown `source_id` succeeds without effect. `MappingCache` is
cleared by the calls and filled by nothing, so it is left out. The refinement
maps the history to the rules in force in each state (`Views`) and the table to
what payloads are mapped with, so what it shows is compared with the collection
and not only dated. The end of the process, with `UltraMapper.Close`, is not
modelled here.

### TTLCache and Queries

`TTLCache` has one operator per lock region of `cache.go`: what `Get` finds, what
`Set` and `cleanup` leave. `Queries` has a clock, the history of the collection of
records (which only grows), the two caches that hold items, and a program
counter per request: `Arrive`, which ends with `Cache.Get`, then for the
statistics `CountTotal` and `CountFaults` (two reads of the collection, the error of the second dropped), for
a page `Query`, then `SetAndAnswer`. `Insert` and `Tick` may come between any two of
them. `Key` is the key as the code builds it: no time range, and `%v` of the
pointer to the fault code is an address, which is free for another request once
this one is answered. `backend` chooses between `MongoRepo` and `InfluxRepo`, whose
filter on `fault_code` names a field no point has and which ignores the offset.
`InfluxRepo` never asks its iterator for an error, so after a fault (`Breaks`) its
`Query` may give any beginning of the page and its `Count` 0, as a success that is
cached.
The cached value carries ghosts: whose filter it is, which state it was read
from, when its load began and ended.

### FieldRules, RecordForms and Rules

Numbers are in tenths, so that truncation, scaling and the difference between
`0.0` and the int `0` are visible; a value is a type and a number, and an object
is a value of the root too (`Root`). One field stands for all that the code treats
alike. `Improved` is one pass of the loop of `DetectSourceID` and `BestUpTo` the
loop, a recursive function of the passes made; `DetectedByKeys` is the set of its
answers over all orders in which Go may iterate. `Mapped` is `MapFields`: the loop
over the rules lets the last one that has a value decide what is written for its
target (`Deciding`), and the conversion is a parameter, of which each mapper has
its own: `LegacyWritten` (`convertType`, `transform`), `OptimizedWritten`
(`applyScale`), `UltraWritten` (`toFloat64Strict`). `ScaleFactor` is constantly 1,
because that is what `fmt.Sscanf` with `"%s:%f"` makes of every transform.
A type that is none of the four leaves the value as it is in the legacy mapper
(`LegacyTyped`). `RecordForms` has the keys each conversion looks up and what `getString`,
`getFloat` and `getInt` do with each type: the first key that has a value of a
usable type counts (`FirstOf`).

`Rules` starts from the seeds of each mapper, lets clients save and delete
mappings (`Valid` is the validation of the API), and ends a behaviour with one
call of a mapper; the properties compare its answer with a reference
definition or with another mapper. How these requests interleave is the
subject of `Mappings`.

### OptimizedIngest

The variant answers before anything is stored: `ProcessData` appends to
`rawBatch`, starts a goroutine and answers. `Take` and `InsertMany` are the two
halves of `flushRawBatch`, run by the flusher and once by `Close`; the insert is
ordered, so it stops at a refused `request_id` and the rest is dropped. The
mapper's `resultBuffer` is a set of the requests whose fields it holds: `Fill`
clears it and writes, `CopyAndAdd` copies; of two that overlap, any mixture may
come out. Of two goroutines in `DetectSourceID` at once each may see the keys of the
other in `keyBuffer` (`mixed`, `Disturbed`): it may detect nothing (`DetectFails`) or
another source (`DetectWrong`), whose `MapFields` gives a record or fails for a
required field (`MapFails`). That Go may end the process on concurrent writes of a
map is a `Crash`.

## 3. Runs

| Configuration | Instance | Checks |
|---|---|---|
| `BatchWriter` | 3 records, 2 handlers, loop, autoFlush, main, batch size 2 | `TypeOK`, `ExactlyOnePlace`, `BufferBound`, `RecordsWrittenBacked`, `ClosedIsDrained`, `ImplementsSink` (with liveness), `CloseReturns` |
| `Ingest_safety` | 2 handlers (symmetric), 2 request_ids of which one is mappable, 2 documents, one fault, crash and reprocess request, strict, statistics with counts that fail | `TypeOK`, `Replayable`, `AckedIsBacked`, `DuplicatesBounded`, `CountersBacked`, `ProcessedIsBacked` |
| `Ingest_live` | 1 document, one fault, crash, gap of the mapping and reprocess request, not strict | `DuplicatesBounded`, `EventuallyHandedOver`, `StoredUnlessFaulty` |
| `Mappings` | 2 sources, 1 client, 1 payload, 3 states of the collection, 1 failed call, 1 cursor that ends early | `TypeOK`, `AnswersAreServed`, `RulesAreCurrent`, `ImplementsCache` (with liveness) |
| `Rules` | 4 sources, 3 seeds, 22 request bodies, 66 payloads, 2 mapping requests | `TypeOK`, `DetectionIsBest`, `DetectedMaps`, `ReadingsReachRecord`, `MappersAgree`, `FormatAgrees` |
| `Queries` | 3 callers (symmetric), 2 records, 2 filters and the statistics, both backends, times 1 to 3, TTL 1, 1 insert, 1 failed call or broken stream | `TypeOK`, `FreshWithinTTL`, `PageIsAskedFor`, `StatsAreCounts` |
| `OptimizedIngest` | 2 request_ids of which one is mappable, 2 requests, 1 goroutine, loop, flusher, main, 1 failure | `TypeOK`, `AcknowledgedIsKept`, `Replayable`, `RecordsBounded`, `OwnFields`, `ClosedIsFlushed`, `EventuallyProcessed` |
| `BatchWriter_shutdown` | 2 records, 1 handler | `ExitLosesNothing` is violated |
| `Ingest_lost_batch` | one fault | `EventuallyStored` is violated |
| `Ingest_reprocess_lost` | one reprocess request, no fault | `ReprocessHonoured` is violated |
| `Queries_stale` | 2 callers, 2 filters that differ in the time range | `KeyedByFilter` is violated |
| `Rules_transforms` | as `Rules` | `LiveTransformsApplied` is violated |

Deadlock is not checked: a process that exited, a service whose traffic ended
and a behaviour of `Rules` that made its call stop, as they should.

**Bounds.** *BatchWriter*: three records with batch size 2 allow a full batch in
flight, a partly filled one for the ticker, and a third thread that finds the
buffer full or empty; two handlers and the loop are the three callers that
`BufferBound` needs to exceed the batch size by more than one. *Ingest*:
`MaxReceived`, `MaxFaults`, `MaxCrashes`, `MaxGaps` and `MaxReprocess` bound how often
the environment does each thing; one of each already meets every pair of steps
of a handler, the loop and the writer, and `MaxDocs`, `MaxHandOvers` are large
enough never to disable a step within these budgets (`DuplicatesBounded` is the
bound on hand-overs, and `MaxHandOvers` exceeds it). The liveness run has one
document, so that no payload that fails for ever shares the fetch with it (what
happens otherwise is the first of the other observations in section 4).
`FetchLimit` is 100 in the code; the
instances have no more documents than their limit. A request for statistics is
followed only until a call of the ingestion fails or the process dies
(`StatsBound`, a constraint of `MCRawStats`; the ingestion goes on without it): a
failed mark leaves a document as it was before, where the counts meet it anyway,
and a crash ends the request. The theorem has no such bound. *Mappings*: `MaxChanges` bounds the length of the history (the first state
counts), `MaxFaults` the failed calls and `MaxLosses` the cursors that end
early. The client, `Boot` and `AutoReload` queue for the lock, each with a
different state to show; two sources are the fallback and another one, so that
`DetectSourceID` can choose either and a table can be partial. In the code a cursor
fails in this way only beyond its first batch of 101 mappings; the model lets
it fail after the first document. *Rules*: the request bodies have every operation, malformed
transforms, two rules for one target, required fields, and enough rules for the
threshold to matter, one of them for an object, a type no mapper knows and the
documented target `power`; the payloads every value type, a hint of each kind, and
readings in the root, in the mapped object and in another one. Two mapping
requests give a tie between two mappings. *Queries*: a TTL of 1 and three times
are enough to load, cache, expire, and load late; with three callers two may
overlap while the third gets what they left. *OptimizedIngest*: two requests may
be one sent twice; the loop and one goroutine are the two that share the mapper,
and a batch of two stops in the middle. One of the requests is not mappable, so
that fields, detections and marks of the two differ.

**Fairness.** Goroutines are scheduled, database calls end within their
context timeouts, tickers tick: weak fairness of those steps. The stop branch
of the select has strong fairness, because Go picks among ready branches at
random, so a closed channel is not passed over for ever. `Shutdown` returns or
times out after 5 s: weak fairness of the disjunction of `CloseBegin` and
`ShutdownTimesOut`, not of each. Callers are never obliged to call, nor the
operator to shut down. `Ingest` takes from `RecordSink` that each record is
settled; `Restart` and `MappingBack` are fair by the assumptions above, failures
end by the bounds. In `Mappings`, whoever holds the lock goes on (`Find` has a
10 s deadline), the ticker ticks, and the `Lock` of `AutoReload` has strong
fairness, since a Go mutex gives way to a waiter that has starved for a
millisecond. Clients and
readers are not fair. In `OptimizedIngest` flusher, goroutines, loop and restart
are fair, requests and `Close` are not. `Queries` and `Rules` state no liveness.

## 4. What the checks show

The pipeline keeps its safety promises. Overlapping flushes neither lose nor
double a record; a stored payload is replayable in every interleaving of
crashes and failures; duplicates beyond the handler/loop overlap are each
paid for by a failure, a crash or a request to reprocess; only a failed call or a
crash can cost a payload its record, unless other payloads fill every fetch. The
table of mappings never goes back, shows every change a client was told of for
each mapping its cursor passed, is repaired after a failed call or a cursor that
ended early, and no payload is mapped with rules older than itself. Cached answers
keep their TTL however loads overlap.
Detection by score passes over no mapping that has the required fields and 40 % of
all, in any order of iteration, and what
detection and `MapFields` can disagree on is exactly a required field in another
object. The optimised service loses an acknowledged payload only by a failure,
a crash, an exit or a `request_id` sent twice, and mixes fields only when two
goroutines map at once.

Five statements of the repository do not hold, each shown by a run:

1. *Eventual consistency* (`README.md:62`). `Flush` drops a batch whose insert
   failed (`batch_writer.go:90-94`), while the payloads are marked processed
   (`service.go:120`); the raw loop never sees them again.
2. *Reprocessing* (`raw_handler.go:44`, `service.go:481`). A mark set while a
   goroutine is between `batch.Add` and its `MarkProcessed` (the handler,
   `service.go:106` and `120`, or the loop, `283` and `288`) is overwritten by it: the
   update selects by `_id` only.
3. *Graceful shutdown flushes batches* (`README.md:158`). The loop is not stopped;
   its flush may hold records of handlers and is cut off by the exit
   (`service.go:570-582`).
4. *Result sets keyed by filter* (`README.md:96`). The key leaves out the time
   range and prints a pointer (`service.go:388`).
5. *Optional transform* (`README.md:72`). `fmt.Sscanf` with `"%s:%f"` never matches
   (`ultra_mapping.go:149`), so the server's mapper applies none.

Other observations of the code, without a run of their own; the properties except
the cases that are named:

* The reprocessor retries what is not processed (`README.md:62`), but the fetch
  returns the oldest 100 unprocessed documents (`service.go:273`), and those that no
  mapping accepts stay unprocessed and are never deleted: 100 of them fill every
  fetch, and no younger document is retried. With `FetchLimit = 1`, a second payload
  that is not mappable and a gap of the mapping, `EventuallyHandedOver` fails so.
* New rules are to be "immediately reloaded" (`README.md:87`), but `Load` does not ask
  `cursor.Err` (`ultra_mapping.go:92`): a client can be told of success while its
  mapping is missing until the next reload. It takes more active mappings than the
  first batch of a cursor holds. `AnswersAreServed` excepts the mappings that the last
  cursor left out, and `ImplementsCache` says that they come back.
* Detection asks for "at least 40 % of defined fields" (`README.md:78`, `mapper.go:142`),
  but the integer division rounds down: 25 % of four fields are enough, 37.5 % of
  eight. `DetectionIsBest` says only that no mapping with 40 % is passed over.
* `power` is the canonical target of `total_output_power` (`README.md:24`, and the
  example at `mapping_handler.go:310`), but `processAndStore` looks up
  `total_output_power` (`service.go:173`), so the record of such a mapping has no
  power. `ReadingsReachRecord` speaks of the names that the seed has.
* The legacy mapper adds nothing to, and subtracts nothing from, a reading of 0.0:
  the test for a failed conversion (`mapper.go:222`) takes it for one.
* "CountErrors returns count of records with errors" (`raw_repository.go:176`), but the
  filter `{error: {$ne: ""}}` matches documents without the field, which `omitempty`
  makes of every document that had no error.
* The errors of the three counts of `GetRawDataStats` are dropped
  (`service.go:363-365`): if the second fails, the answer calls the whole backlog
  processed. `ProcessedIsBacked` excepts that case and shows it is the only one.
* In `GetStats` a second count taken after the first may be greater, so
  `NormalRecords` may be negative (`service.go:348`).
* With InfluxDB a stream that breaks off gives the beginning of a page, or a count
  of 0, as a success that is cached (`influx_repository.go:164`, `243`).
* `README.md:57` says that missing required fields fail the request: the server's
  mapper does not keep `Required`. `README.md:74-78` describes detection by score:
  the server's mapper takes a hint or the fallback `Inv`.
* `GetStats` counts as `FaultRecords` the records *without* an alarm
  (`service.go:334`). `MarkProcessed` keeps the error of an earlier attempt. `ClearCache` clears nothing.
  `GetMappings` is always empty.
* A deleted `source_id` is still in the unique index: creating it again fails,
  updating it revives it (`service.go:425`, `447`); updating or deleting an unknown
  one is answered as a success.
* Readers of the mapper wait while `Load` queries the database under the write
  lock (`ultra_mapping.go:79-85`), up to 10 s.
* With `DB_TYPE=influx` the service has no mapper and no raw store
  (`service.go:59-64`), so the first payload dereferences a nil pointer.
* A serial number that is not a string is printed by the live mapper and left out
  by the format mapper; `FormatAgrees` speaks of strings.
* The default mappings of the optimised mapper write names
  `convertToRecordOptimized` does not look up, and its short key `e` is the total
  energy where the format mapper reads the energy of today.

## 5. Proofs

The proof modules state theorems of `SafetySpec` (`Spec` where there is no
fairness) for every value of the constants: any sets of records, requests,
handlers, sources, clients and callers, any positive batch size and TTL, any
bounds. The assumptions are those of the modules (`ASSUME`): finite sets of
threads in `BatchWriter` and `OptimizedIngest`, finite records in `Queries` (a
page sorts them), positive sizes, limits and TTLs, natural bounds. `Rules`
assumes what decoding a JSON body gives (`RequestAssumption`: the rules are a
list; `PayloadAssumption`: each value has one of the types; `SourceAssumption`: ""
is no source, the names the seeds use are): any requests, any payloads.

* `TypeCorrect`: `TypeOK` plus the finiteness of the buffer is inductive.
* `BufferIsBounded`: by induction on steps; `Add` that fills the buffer also
  joins `WantsFlush`, a thread leaves `WantsFlush` only by emptying the buffer.
* `EachRecordInOnePlace`: needs the strengthening `CopyOnlyInInsert`: a thread
  holds a copy only while it stands at its insert. Without it `FlushTake`
  could overwrite a copy.
* `CloseDrains`: the invariant `DrainInv` follows the shutdown: from `CloseBegin` on
  no handler is at work, after `CloseWait` autoFlush holds nothing, and the last
  flush takes what the buffer holds. What is left is the loop's.
* `RefinesSink`: `SafetySpec => Sink!SafetySpec`, each action mapped to
  `Accept`, `Settle` or a stutter.
* `WrittenAreStored`: the sets `uncounted` of the threads are disjoint parts of
  `stored`, and `recordCount` is the size of the thread's own (`CountInv`), so a
  counter step adds exactly what it takes from the union.
* `IngestTypeCorrect`, on the lemmas of `RawStoreProofs`.
* `StoredIsReplayable`: `ReplayInv` adds `MarkInv` to `Replayable`: a goroutine
  about to mark a document processed has a record of it. That is why the order
  hand over, then mark is essential.
* `SuccessIsBacked`: with `MarkInv`, and the lemma that documents and records
  only grow.
* `DuplicatesAreBounded`: `DueInv` bounds the records of a document together with
  those still due, one from its handler and one from the loop if it may fetch
  the document again, by `2 + faults + crashes + reprocesses`. Each step that
  makes a record spends a due one, each that makes one due again spends a
  failure, a crash or a request. It needs that no two handlers own one document
  (`OwnedInv`) and that only processed ones are deleted (`StoreInv`).
* `CountersAreBacked`: a handler or loop about to mark has a record the counter
  does not claim yet (`ProcessedInv`), a busy handler a request not counted as
  failed (`FailedInv`). The set of handlers need not be finite.
* `AnswersAreBacked`: `StatsInv` says which counts an answer has so far, and that
  the total counted, also by a failed count, is at most the documents there ever
  were.
  `IngestionIsUnharmed`: a count changes nothing of the ingestion, so `StatsSpec`
  implies `SafetySpec` and every theorem of `IngestProofs`.
* `MapperTypeCorrect`: includes that the lock is held by exactly the one loader
  between `Lock` and its release.
* `ChangesAreServed`: `FreshInv` dates the tables: what a loader at its cursor holds
  is no older than `memory`, because the lock keeps others from installing, and no
  older than the client's own write, because it reads after it wrote. `TableInv`
  says what they show: of every source that is not missing, what some state of the
  collection since the begin of the load said, although the states may differ from
  source to source (`Shows`).
* `RefinesCache`: `SafetySpec => Cache!SafetySpec`; needs both for `Refresh`,
  `BootInv` (nobody loads while the service starts) for `Stop`, and `AgeInv`.
* `RulesStayCurrent`: `RulesInv` says that what a reader was given was in force in
  a state no older than the one that was confirmed when its payload came; missing
  mappings do no harm, as a reader that does not find its source fails.
* `QueriesTypeCorrect`: the caches hold answers of their own kind under keys that
  were built for a filter.
* `AnswersAreFresh`: `FreshInv` dates everything in a cache or with a caller: its
  state is no older than the begin of its load, and it expires one TTL after
  the end of it. The slower of two loads sets its own end.
* `PagesAreAskedFor`, `StatsAreOfLoad`: `ContentInv` says what lies under a key is a
  page for the device, limit and offset in the key, or the beginning of one if a
  stream may have broken by now, or counts of states between the begin and the end
  of the load, or 0 after a failed call; the history and the failures only grow.
* `OptimizedTypeCorrect`, and `CallersOwnFields` by `OwnInv`: a mapping that nobody
  overlapped is alone and the buffer is its own.
* `CloseFlushes`: `EarlyInv`: who was answered before the flush has been received.
* `MarkedAfterRecord`: the loop holds the oldest of what it fetched and has made
  a record before it stands at the mark (`LoopInv`); an unprocessed document is
  present (`StoreInv`).
* `RecordsAreBounded`: `Counted` adds to the records of a request the goroutines at
  work, and to its bound the document the loop has made a record of and not
  marked.
* `AcknowledgedAreKept`: without an excuse no request is in two batches, twice in
  one, or in a batch and in the collection (`Once`), so no ordered insert stops;
  `SentInv` lets a request that is somewhere count as sent.

* `RulesTypeCorrect`: besides `TypeOK`, that the mappings are finitely many, which
  an order of them needs (`FiniteInv`).
* `BestIsDetected`: `LoopExists` and `LoopIsBest` say that the function `BestUpTo`
  exists and that after n passes it holds the best of the n mappings seen, by
  `ImprovedIsBest` for each pass; `EnoughSuits`, that what matches 40 % is above the
  rounded threshold of the code. Induction is written as the absence of a least
  counterexample (`LeastNumber`, from the well-foundedness of inclusion of finite
  sets), since the induction theorems of the library take an operator.
* `DetectedFailsElsewhere`: a field of `Keys` that `Reading` does not find is in
  an object it does not read (`UnreadIsElsewhere`).
* `ReadingsAreInRecord`: `DecidingWrites`: the last rule with a value for a target
  is the one whose conversion is written there, for a list of any length; then
  `NumberReachesRecord`.
* `MappersDoAgree`: `PlainlyAgree` for each rule that may decide.
* `FormatsDoAgree`: `TableField` says what the live mapper writes for the rules of the
  format mapper in any order, also repeated; `SerialAgrees` and `NumberAgrees`
  compare it with what the format mapper reads.

These properties of `Rules` speak of the last call, so they need no invariant
beyond `TypeOK`: their proofs are about the operators.

Only model-checked: every liveness property and the liveness parts of
`ImplementsSink` and `ImplementsCache`, as fairness and ENABLED are beyond the
prover. The five violated statements have no theorem, of course.

Operators with names such as `FlushTakeKeepsBuffer` are mutations: each is a
plausible bug, and putting it in the place of the definition that follows it
makes a property fail, which shows that the property can fail.

## 6. Plan

1. A composition of `Mappings` with `Ingest`, whose flag would become
   `DetectSourceID` and `MapFields`.

## 7. Not modelled

Logging, configuration, connection set-up, routing and middleware (no state or
pure I/O). Durations: deadlines appear as steps that may fail, not as times,
but for the clock of `Queries`. In InfluxDB two points of one device and one
time, which overwrite each other, and the column names of the point
conversions. Code without a caller: `GetByTimeRange`, `GetOrSet`, `Delete`,
`ContextCache`, the create, update and delete calls of the legacy mapper,
`GetMappingStats`, `ValidateMappingExists`. Loading and reloading in the legacy and
optimised mappers, which repeat what `Mappings` models. `reportStats`, which
prints. The nil pointers of `DB_TYPE=influx`.
