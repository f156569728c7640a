------------------------------ MODULE Queries ------------------------------
(***************************************************************************)
(* GET /api/stats and GET /api/records: Service.GetStats and Service.Query *)
(* with the caches they keep their answers in, over the collection of      *)
(* records that the Count and Query of MongoRepo or of InfluxRepo read.    *)
(*                                                                         *)
(* A record is its device, its time and whether it has an alarm; a filter  *)
(* is what the handler parsed.  The counters and the buffer size that      *)
(* GetStats adds to its answer are those of Ingest and BatchWriter.        *)
(***************************************************************************)
EXTENDS Integers, Sequences, FiniteSets, SequencesExt, TTLCache

CONSTANTS
  Caller,          \* requests, each the goroutine of its handler
  Record,          \* [device, time, alarm]: the records that may be stored
  Filter,          \* [device, fault, from, limit, offset] as callers ask
  Backend,         \* "mongo", "influx": what DB_TYPE can be
  Address,         \* where the parsed fault code of a request can be
  Unset,           \* a filter's device, fault or time that is not given
  StatsTTL, QueryTTL,
  \* Bounds on the environment:
  MaxTime, MaxInserts, MaxFaults

ASSUME BackendAssumption == Backend \subseteq {"mongo", "influx"}
ASSUME TTLAssumption == {StatsTTL, QueryTTL} \subseteq Nat \ {0}
(* Of two records with one device and one time, which are the identity of  *)
(* a point, InfluxDB would keep the second only.                           *)
ASSUME RecordAssumption ==
  /\ IsFiniteSet(Record)
  /\ \A r \in Record : r.time \in Nat /\ r.alarm \in BOOLEAN
  /\ \A r, s \in Record : r.device = s.device /\ r.time = s.time => r = s
ASSUME FilterAssumption == \A f \in Filter : f.limit \in Nat \ {0}
ASSUME BoundAssumption == {MaxTime, MaxInserts, MaxFaults} \subseteq Nat

VARIABLES
  backend,     \* the repository that NewService chose
  now,         \* the clock
  history,     \* the states of the collection, the present one last
  cache,       \* the items of StatsCache and QueryCache
  pc,          \* where each caller stands
  request,     \* the filter of what it asks for
  address,     \* where its fault code lies, if it has one
  arrived,     \* when it came
  total,       \* GetStats: the first count
  answer,      \* what it has loaded or was given
  lengths,     \* ghost: for each time so far, Len(history) when it began
  faults

callerVars == <<pc, request, address, arrived, total, answer>>
dbVars == <<backend, history>>
vars == <<dbVars, now, cache, callerVars, lengths, faults>>

Present == history[Len(history)]

TTL == [stats |-> StatsTTL, query |-> QueryTTL]
-----------------------------------------------------------------------------
(* MongoRepo: fault code 0 asks for records with no alarm, any other one   *)
(* for records with some alarm.  InfluxRepo asks for a field fault_code,   *)
(* which no point has: nothing matches, if the query is not refused.       *)
Matches(record, f) ==
  /\ f.device \in {Unset, record.device}
  /\ f.fault # Unset =>
       backend = "mongo" /\ (f.fault = 0 <=> ~record.alarm)
  /\ f.from # Unset => record.time >= f.from

Count(f, records) == Cardinality({r \in records : Matches(r, f)})

NewestFirst(records) ==
  SetToSortSeq(records, LAMBDA r, s : r.time > s.time)

(* The newest first, at most f.limit.  InfluxRepo ignores the offset.      *)
Page(f, records) ==
  LET newest == NewestFirst({r \in records : Matches(r, f)})
      offset == IF backend = "mongo" THEN f.offset ELSE 0
  IN  SubSeq(newest, offset + 1, Min({offset + f.limit, Len(newest)}))

(* The empty filter, which no handler of /api/records makes: its limit is  *)
(* at least 1.  Here it also stands for a request of /api/stats.           *)
Stats ==
  [device |-> Unset, fault |-> Unset, from |-> Unset, limit |-> 0, offset |-> 0]
AlarmFree == [Stats EXCEPT !.fault = 0]

\* Mutation of Key: only the page counts.
KeyOfPage(f, a) == <<f.limit, f.offset>>

(* The key has no time range, and %v of the pointer to the fault code is   *)
(* its address.                                                            *)
Key(f, a) ==
  <<f.device, f.limit, f.offset, IF f.fault = Unset THEN Unset ELSE a>>

StatsKey == <<"stats:current">>

\* Mutation of Kind: one cache for all.
KindShared(what) == "stats"

Kind(what) == IF what = Stats THEN "stats" ELSE "query"

KeyOf(what, a) == IF what = Stats THEN StatsKey ELSE Key(what, a)
-----------------------------------------------------------------------------
Nothing == [result |-> << >>, of |-> Stats, asOf |-> 0, began |-> 0,
            loaded |-> 0]

Init ==
  /\ backend \in Backend
  /\ now = 1
  /\ history = <<{}>>
  /\ cache = [n \in {"stats", "query"} |-> NoItems]
  /\ pc = [c \in Caller |-> "idle"]
  /\ request = [c \in Caller |-> Stats]
  /\ address = [c \in Caller |-> Unset]
  /\ arrived = [c \in Caller |-> 0]
  /\ total = [c \in Caller |-> 0]
  /\ answer = [c \in Caller |-> Nothing]
  /\ lengths = <<1>>
  /\ faults = 0

Goto(c, label) == pc' = [pc EXCEPT ![c] = label]

Released(c) == address' = [address EXCEPT ![c] = Unset]

Fault == faults < MaxFaults /\ faults' = faults + 1

(* Where the fault code of a request may be allocated: where no request at *)
(* work has its own.  The place is free again once it is answered.         *)
Places(what) ==
  IF what.fault = Unset THEN {Unset}
  ELSE Address \ {address[d] : d \in Caller}

(* A request is handled up to the Get from the cache, which is the first   *)
(* thing it shares with others: a hit is the answer.                       *)
Arrive(c, what) ==
  LET items == cache[Kind(what)] IN
  /\ pc[c] = "idle"
  /\ request' = [request EXCEPT ![c] = what]
  /\ arrived' = [arrived EXCEPT ![c] = now]
  /\ \E a \in Places(what) :
       LET key == KeyOf(what, a) IN
       IF Found(items, key, now)
         THEN /\ answer' = [answer EXCEPT ![c] = items[key].value]
              /\ Goto(c, "answered") /\ UNCHANGED address
         ELSE /\ address' = [address EXCEPT ![c] = a]
              /\ Goto(c, "load") /\ UNCHANGED answer
  /\ UNCHANGED <<dbVars, now, cache, total, lengths, faults>>

GetStats(c) == Arrive(c, Stats)
GetRecords(c, f) == Arrive(c, f)

(* What the caller has read of the collection.                             *)
Loaded(c, result) ==
  /\ answer' = [answer EXCEPT ![c] =
                  [result |-> result, of |-> request[c],
                   asOf |-> Len(history), began |-> arrived[c],
                   loaded |-> 0]]
  /\ Goto(c, "set")

(* InfluxRepo never asks its iterator for an error: a stream that breaks   *)
(* is to it one that has ended.                                            *)
Breaks == backend = "influx" /\ Fault

(* GetStats counts all records,                                            *)
CountTotal(c) ==
  /\ pc[c] = "load" /\ request[c] = Stats
  /\ \/ total' = [total EXCEPT ![c] = Count(Stats, Present)] /\ UNCHANGED faults
     \/ total' = [total EXCEPT ![c] = 0] /\ Breaks
  /\ Goto(c, "count")
  /\ UNCHANGED <<dbVars, now, cache, request, address, arrived, answer, lengths>>

(* TotalRecords, NormalRecords and FaultRecords.                           *)
Totals(all, faulty) == <<all, all - faulty, faulty>>

(* then those with fault code 0, as 0 when that fails or breaks off.       *)
CountFaults(c) ==
  /\ pc[c] = "count"
  /\ \/ Loaded(c, Totals(total[c], Count(AlarmFree, Present))) /\ UNCHANGED faults
     \/ Loaded(c, Totals(total[c], 0)) /\ Fault
  /\ total' = [total EXCEPT ![c] = 0]
  /\ UNCHANGED <<dbVars, now, cache, request, address, arrived, lengths>>

Query(c) ==
  LET page == Page(request[c], Present) IN
  /\ pc[c] = "load" /\ request[c] # Stats
  /\ \/ Loaded(c, page) /\ UNCHANGED faults
     \/ Breaks /\ \E part \in Prefixes(page) : Loaded(c, part)
  /\ UNCHANGED <<dbVars, now, cache, request, address, arrived, total, lengths>>

\* Mutation of LoadFails: GetStats takes a failed first count for 0.
LoadFailsUnseen(c) ==
  /\ pc[c] = "load"
  /\ Fault
  /\ Goto(c, IF request[c] = Stats THEN "count" ELSE "failed")
  /\ UNCHANGED <<dbVars, now, cache, request, address, arrived, total,
                 answer, lengths>>

(* The first count or the query fails, which InfluxRepo's may for a fault  *)
(* code: so does the request, and nothing is cached.                       *)
LoadFails(c) ==
  /\ pc[c] = "load"
  /\ \/ Fault
     \/ backend = "influx" /\ request[c].fault # Unset /\ UNCHANGED faults
  /\ Goto(c, "failed") /\ Released(c)
  /\ request' = [request EXCEPT ![c] = Stats]
  /\ arrived' = [arrived EXCEPT ![c] = 0]
  /\ UNCHANGED <<dbVars, now, cache, total, answer, lengths>>

(* The answer is cached and given.  Time may have passed since it was read. *)
SetAndAnswer(c) ==
  LET value == [answer[c] EXCEPT !.loaded = now]
      kind == Kind(request[c])
  IN
  /\ pc[c] = "set"
  /\ cache' = [cache EXCEPT ![kind] =
                 Set(@, KeyOf(request[c], address[c]), value, TTL[kind], now)]
  /\ answer' = [answer EXCEPT ![c] = value]
  /\ Goto(c, "answered") /\ Released(c)
  /\ UNCHANGED <<dbVars, now, request, arrived, total, lengths, faults>>

(* A tick of a cleanup loop that finds an expired item.                    *)
Cleanup(n) ==
  /\ \E k \in DOMAIN cache[n] : Expired(cache[n][k], now)
  /\ cache' = [cache EXCEPT ![n] = Cleaned(@, now)]
  /\ UNCHANGED <<dbVars, now, callerVars, lengths, faults>>

(* Records are stored; nothing deletes any.                                *)
Insert(batch) ==
  /\ Len(history) <= MaxInserts
  /\ batch # {} /\ batch \cap Present = {}
  /\ history' = Append(history, Present \cup batch)
  /\ UNCHANGED <<backend, now, cache, callerVars, lengths, faults>>

Tick ==
  /\ now < MaxTime
  /\ now' = now + 1
  /\ lengths' = Append(lengths, Len(history))
  /\ UNCHANGED <<dbVars, cache, callerVars, faults>>

Next ==
  \/ \E c \in Caller :
       \/ GetStats(c) \/ CountTotal(c) \/ CountFaults(c)
       \/ Query(c) \/ LoadFails(c) \/ SetAndAnswer(c)
  \/ \E c \in Caller, f \in Filter : GetRecords(c, f)
  \/ \E n \in {"stats", "query"} : Cleanup(n)
  \/ \E batch \in SUBSET Record : Insert(batch)
  \/ Tick

Spec == Init /\ [][Next]_vars
-----------------------------------------------------------------------------
AnswerOK(a) ==
  /\ a = [result |-> a.result, of |-> a.of, asOf |-> a.asOf,
          began |-> a.began, loaded |-> a.loaded]
  /\ a.of \in Filter \cup {Stats}
  /\ a.asOf \in 0..Len(history)
  /\ a.began \in 0..now /\ a.loaded \in 0..now

TypeOK ==
  /\ backend \in Backend
  /\ now \in Nat \ {0}
  /\ history \in Seq(SUBSET Record) /\ history # << >>
  /\ DOMAIN cache = {"stats", "query"}
  /\ DOMAIN cache["stats"] \subseteq {StatsKey}
  /\ \A n \in DOMAIN cache : \A k \in DOMAIN cache[n] :
       AnswerOK(cache[n][k].value) /\ cache[n][k].expiration \in Nat
  /\ pc \in [Caller -> {"idle", "load", "count", "set", "answered",
                      "failed"}]
  /\ request \in [Caller -> Filter \cup {Stats}]
  /\ address \in [Caller -> Address \cup {Unset}]
  /\ arrived \in [Caller -> 0..now]
  /\ total \in [Caller -> Nat]
  /\ DOMAIN answer = Caller /\ \A c \in Caller : AnswerOK(answer[c])
  /\ lengths \in Seq(Nat) /\ Len(lengths) = now
  /\ faults \in Nat

Answered == {c \in Caller : pc[c] = "answered"}

(* README: StatsCache has 5 s entries and QueryCache 30 s entries.  Of     *)
(* whichever caller an answer is, its load ended no longer than the TTL    *)
(* before it was asked for, and it shows no state of the collection older  *)
(* than the beginning of that load, however loads of several callers and   *)
(* inserts interleave.                                                     *)
FreshWithinTTL ==
  \A c \in Answered :
    /\ arrived[c] <= answer[c].loaded + TTL[Kind(request[c])]
    /\ answer[c].asOf >= lengths[answer[c].began]

(* A stream of InfluxDB may have broken.                                   *)
MayHaveBroken == backend = "influx" /\ faults > 0

(* The page that is answered is what the collection had for the same       *)
(* device, limit and offset, or with InfluxDB the beginning of it: callers *)
(* never get each other's devices.                                         *)
PageIsAskedFor ==
  \A c \in Answered : Kind(request[c]) = "query" =>
    LET a == answer[c]
        page == Page(a.of, history[a.asOf])
    IN
    /\ a.of # Stats
    /\ <<a.of.device, a.of.limit, a.of.offset>> =
         <<request[c].device, request[c].limit, request[c].offset>>
    /\ \/ a.result = page
       \/ MayHaveBroken /\ a.result \in Prefixes(page)

(* The two counts of an answer are of states of the collection no older    *)
(* than the load: the first no greater than the size when the second was   *)
(* read.  Only a call that failed makes a count 0, the first one with      *)
(* InfluxDB only.                                                          *)
StatsAreCounts ==
  \A c \in Answered : Kind(request[c]) = "stats" =>
    LET a == answer[c] IN
    /\ \/ a.result[1] \in Cardinality(history[lengths[a.began]])..
                           Cardinality(history[a.asOf])
       \/ a.result[1] = 0 /\ MayHaveBroken
    /\ \/ a.result[3] = Count(AlarmFree, history[a.asOf])
       \/ a.result[3] = 0 /\ faults > 0

(* README: QueryCache holds the "result sets keyed by filter".  A caller   *)
(* gets what its own filter selects of some state of the collection.       *)
KeyedByFilter ==
  \A c \in Answered : Kind(request[c]) = "query" =>
    \E n \in 1..Len(history) : answer[c].result = Page(request[c], history[n])
=============================================================================
