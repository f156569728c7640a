--------------------------- MODULE RawStatsProofs ---------------------------
(***************************************************************************)
(* Theorems about RawStats: what holds of Ingest holds while its documents *)
(* are counted, and the answer claims no document processed that was not.  *)
(***************************************************************************)
EXTENDS RawStats, IngestProofs

(* Counting changes nothing, and bounds the ingestion it goes on beside.   *)
LEMMA StatsIngestion == StatsSpec => SafetySpec
<1>1. StatsInit => Init
  BY DEF StatsInit
<1>2. [StatsNext]_<<vars, statsVars>> => [Next]_vars
  BY DEF StatsNext, Count, Answer, Ingestion, vars
<1> QED
  BY <1>1, <1>2, PTL DEF StatsSpec, SafetySpec
-----------------------------------------------------------------------------
(* The answer is put together in the order of Order.                       *)
CountsShape == DOMAIN counts \in {{}, {"total"}, {"total", "unprocessed"}}

(* A total counted earlier is of documents that are all still in raw, if   *)
(* only as deleted ones.                                                   *)
TotalInv ==
  "total" \in DOMAIN counts =>
    counts["total"] \in Nat /\ counts["total"] <= Len(raw)

StatsInv == CountsShape /\ TotalInv

(* What ProcessedIsBacked says of a step.                                  *)
Backed ==
  (Subtracted(counts') /\ "unprocessed" \notin failed')
    => Processed(counts') <= EverProcessed(raw)

(* Documents that are present can be counted, and are at most all.         *)
LEMMA PresentCount ==
  ASSUME TypeOK, NEW D \in SUBSET DOMAIN raw
  PROVE  Cardinality(D) \in Nat /\ Cardinality(D) <= Len(raw)
<1>1. DOMAIN raw = 1..Len(raw) /\ Len(raw) \in Nat
  BY RawType
<1>2. IsFiniteSet(1..Len(raw)) /\ Cardinality(1..Len(raw)) = Len(raw)
  BY <1>1, FS_Interval
<1>3. IsFiniteSet(D) /\ Cardinality(D) <= Cardinality(1..Len(raw))
  BY <1>1, <1>2, FS_Subset
<1> QED
  BY <1>2, <1>3, FS_CardinalityType
-----------------------------------------------------------------------------
LEMMA StatsInit0 == StatsInit => StatsInv
BY DEF StatsInit, Nothing, StatsInv, CountsShape, TotalInv

LEMMA NothingSaid == ASSUME Forgotten PROVE StatsInv' /\ Backed
BY DEF Forgotten, Nothing, StatsInv, CountsShape, TotalInv, Backed, Subtracted

(* The step of the answer: each count is what it counts, or 0.             *)
LEMMA CountStep == TypeOK /\ StatsInv /\ Count => StatsInv' /\ Backed
<1> SUFFICES ASSUME TypeOK, StatsInv, Count PROVE StatsInv' /\ Backed
  OBVIOUS
<1> DEFINE n == Cardinality(DOMAIN counts) + 1
           what == Order[n]
<1>1. n <= Len(Order) /\ raw' = raw
  BY DEF Count, vars
<1>2. Order[1] = "total" /\ Order[2] = "unprocessed" /\ Len(Order) = 2
  BY DEF Order
<1>3. PICK c : /\ counts' = CountsWith(what, c)
               /\ \/ c = Cardinality(Counted(what)) /\ failed' = failed
                  \/ c = 0 /\ failed' = failed \cup {what}
  BY DEF Count
<1>4. /\ DOMAIN counts' = DOMAIN counts \cup {what}
      /\ counts'[what] = c
      /\ \A w \in DOMAIN counts : w # what => counts'[w] = counts[w]
  BY <1>3 DEF CountsWith
<1>5. Len(raw) \in Nat
  BY RawType
<1>6. /\ Present(raw) \in SUBSET DOMAIN raw
      /\ Unprocessed(raw) \in SUBSET DOMAIN raw
  BY DEF Present, Unprocessed
<1>a. IsFiniteSet({"total"}) /\ Cardinality({"total"}) = 1
  BY FS_Singleton
<1>7. CASE DOMAIN counts = {}
  <2>1. n = 1
    BY <1>7, FS_EmptySet
  <2>2. DOMAIN counts' = {"total"} /\ counts'["total"] = c
    BY <1>2, <1>4, <1>7, <2>1
  <2>3. c \in Nat /\ c <= Len(raw)
    <3>1. Counted("total") = Present(raw)
      BY DEF Counted
    <3> QED
      BY <1>2, <1>3, <1>5, <1>6, <2>1, <3>1, PresentCount
  <2> QED
    BY <1>1, <2>2, <2>3 DEF StatsInv, CountsShape, TotalInv, Backed, Subtracted
<1>8. CASE DOMAIN counts = {"total"}
  <2>1. n = 2
    BY <1>8, <1>a
  <2>2. /\ DOMAIN counts' = {"total", "unprocessed"}
        /\ counts'["total"] = counts["total"]
        /\ counts'["unprocessed"] = c
    BY <1>2, <1>4, <1>8, <2>1
  <2>3. counts["total"] \in Nat /\ counts["total"] <= Len(raw)
    BY <1>8 DEF StatsInv, TotalInv
  <2>4. Cardinality(Unprocessed(raw)) \in Nat
    BY <1>6, PresentCount
  <2>5. Backed
    <3>1. CASE c = Cardinality(Counted(what))
      <4>1. c = Cardinality(Unprocessed(raw))
        BY <1>2, <2>1, <3>1 DEF Counted
      <4> QED
        BY <1>5, <2>2, <2>3, <2>4, <4>1 DEF Backed, Processed, EverProcessed
    <3>2. CASE failed' = failed \cup {what}
      BY <1>2, <2>1, <3>2 DEF Backed
    <3> QED
      BY <1>3, <3>1, <3>2
  <2> QED
    BY <1>1, <2>2, <2>3, <2>5 DEF StatsInv, CountsShape, TotalInv
<1>9. DOMAIN counts # {"total", "unprocessed"}
  <2>1. /\ IsFiniteSet({"total"} \cup {"unprocessed"})
        /\ Cardinality({"total"} \cup {"unprocessed"}) = 2
    BY <1>a, FS_AddElement
  <2>2. {"total"} \cup {"unprocessed"} = {"total", "unprocessed"}
    OBVIOUS
  <2> QED
    BY <1>1, <1>2, <2>1, <2>2
<1> QED
  BY <1>7, <1>8, <1>9 DEF StatsInv, CountsShape

(* The ingestion inserts documents, processes them and deletes them, but   *)
(* the number of all documents ever inserted never falls.                  *)
LEMMA IngestionStep ==
  ASSUME TypeOK, TypeOK', StatsInv, Next, UNCHANGED statsVars PROVE StatsInv'
<1>1. counts' = counts
  BY DEF statsVars
<1>2. Len(raw) \in Nat /\ Len(raw') \in Nat /\ Len(raw) <= Len(raw')
  BY LenGrows
<1> QED
  BY <1>1, <1>2 DEF StatsInv, CountsShape, TotalInv

(* The total is at most the number of documents there were, or 0 if its    *)
(* count failed, and the second count, unless it failed, leaves those that *)
(* were not processed: whatever happens between the two, the answer claims *)
(* no more than was processed at the second.                               *)
THEOREM AnswersAreBacked == StatsSpec => ProcessedIsBacked
<1>1. StatsSpec => []TypeOK
  BY StatsIngestion, IngestTypeCorrect, PTL
<1>2. TypeOK /\ TypeOK' /\ StatsInv /\ [StatsNext]_<<vars, statsVars>>
      => StatsInv' /\ [Backed]_counts
  <2> SUFFICES ASSUME TypeOK, TypeOK', StatsInv,
                      [StatsNext]_<<vars, statsVars>>
               PROVE  StatsInv' /\ [Backed]_counts
    OBVIOUS
  <2>1. CASE UNCHANGED <<vars, statsVars>>
    BY <2>1 DEF vars, statsVars, StatsInv, CountsShape, TotalInv
  <2>2. CASE Count
    BY <2>2, CountStep
  <2>3. CASE Forgotten
    BY <2>3, NothingSaid
  <2>4. CASE Next /\ UNCHANGED statsVars
    BY <2>4, IngestionStep DEF statsVars
  <2> QED
    BY <2>1, <2>2, <2>3, <2>4 DEF StatsNext, Answer, Ingestion
<1> QED
  BY <1>1, <1>2, StatsInit0, PTL DEF StatsSpec, ProcessedIsBacked, Backed

(* While the documents are counted, the ingestion keeps what it promises:  *)
(* the specification that is model-checked implements the one the theorems *)
(* of IngestProofs are about.                                              *)
THEOREM IngestionIsUnharmed ==
  StatsSpec => []( /\ TypeOK /\ Replayable /\ AckedIsBacked
                   /\ DuplicatesBounded /\ CountersBacked )
BY StatsIngestion, IngestTypeCorrect, StoredIsReplayable, SuccessIsBacked,
   DuplicatesAreBounded, CountersAreBacked, PTL
=============================================================================
