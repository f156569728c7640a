------------------------------ MODULE RawStore ------------------------------
(***************************************************************************)
(* internal/repository/raw_repository.go: the operations on the collection *)
(* raw_data, as functions from one state of the collection to the next.    *)
(*                                                                         *)
(* A state is the sequence of all documents ever inserted, in the order of *)
(* their timestamps; the position of a document stands for its _id.        *)
(* Cleanup clears the field present.  The field error is omitted while it  *)
(* is empty (omitempty), set to a text by MarkError and to "" by Reprocess;*)
(* only which of the three matters.  An update of an _id that is gone      *)
(* matches nothing and is no error.                                        *)
(***************************************************************************)
EXTENDS Naturals, Sequences, FiniteSets

CONSTANT Request    \* values of request_id

ErrorField == {"absent", "empty", "text"}

RawDoc == [req : Request, processed : BOOLEAN, error : ErrorField,
           present : BOOLEAN]

Present(raw) == {d \in DOMAIN raw : raw[d].present}

Unprocessed(raw) == {d \in Present(raw) : ~raw[d].processed}

(* The unique index on request_id.                                         *)
HasRequest(raw, q) == \E d \in Present(raw) : raw[d].req = q

\* Mutation of NewDoc: a document is inserted as processed.
NewDocProcessed(q) ==
  [req |-> q, processed |-> TRUE, error |-> "absent", present |-> TRUE]

NewDoc(q) ==
  [req |-> q, processed |-> FALSE, error |-> "absent", present |-> TRUE]

Inserted(raw, q) == Append(raw, NewDoc(q))

(* The n first documents of a batch are stored.                            *)
InsertedMany(raw, batch, n) == raw \o [i \in 1..n |-> NewDoc(batch[i])]

Updated(raw, d, processed, error) ==
  IF raw[d].present
    THEN [raw EXCEPT ![d].processed = processed, ![d].error = error]
    ELSE raw

\* Mutations: MarkProcessed matches no document; MarkError sets processed.
MarkedNothing(raw, d) == raw
MarkedGivenUp(raw, d) == Updated(raw, d, TRUE, "text")

(* MarkProcessed leaves the error of an earlier attempt in the document.   *)
MarkedProcessed(raw, d) == Updated(raw, d, TRUE, raw[d].error)

MarkedError(raw, d) == Updated(raw, d, FALSE, "text")

Reprocessed(raw, d) == Updated(raw, d, FALSE, "empty")

\* Mutation: the fetch skips the documents that failed before.
GetUntried(raw, limit) ==
  {d \in Unprocessed(raw) :
     /\ raw[d].error # "text"
     /\ Cardinality({e \in Unprocessed(raw) : e < d}) < limit}

(* The oldest unprocessed documents, at most limit of them.                *)
GetUnprocessed(raw, limit) ==
  {d \in Unprocessed(raw) :
     Cardinality({e \in Unprocessed(raw) : e < d}) < limit}

\* Mutation: retention ignores whether a document was processed.
CleanedAll(raw, cutoff) ==
  [d \in DOMAIN raw |->
     IF d <= cutoff THEN [raw[d] EXCEPT !.present = FALSE] ELSE raw[d]]

(* Processed documents up to the cutoff are deleted.                       *)
Cleaned(raw, cutoff) ==
  [d \in DOMAIN raw |->
     IF d <= cutoff /\ raw[d].processed
       THEN [raw[d] EXCEPT !.present = FALSE] ELSE raw[d]]
=============================================================================
