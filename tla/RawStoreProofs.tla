--------------------------- MODULE RawStoreProofs ---------------------------
(***************************************************************************)
(* What the operations on raw_data return, for every collection.  The      *)
(* proofs about Ingest and about OptimizedIngest rest on these lemmas.     *)
(***************************************************************************)
EXTENDS RawStore, TLAPS

(* What the operations of the raw store keep: a document stays at its      *)
(* position with its request, an update never makes one disappear, and     *)
(* only a processed one is cleaned.                                        *)
SameDocs(r, s) ==
  /\ s \in Seq(RawDoc)
  /\ DOMAIN r = DOMAIN s /\ Len(r) = Len(s)
  /\ \A i \in DOMAIN r : s[i].req = r[i].req

LEMMA NewDocType == \A q \in Request : NewDoc(q) \in RawDoc
BY DEF NewDoc, RawDoc, ErrorField

LEMMA InsertedDocs ==
  ASSUME NEW r \in Seq(RawDoc), NEW q \in Request
  PROVE  /\ Inserted(r, q) \in Seq(RawDoc)
         /\ Len(Inserted(r, q)) = Len(r) + 1
         /\ DOMAIN Inserted(r, q) = DOMAIN r \cup {Len(r) + 1}
         /\ \A i \in DOMAIN r : Inserted(r, q)[i] = r[i]
         /\ Inserted(r, q)[Len(r) + 1] = NewDoc(q)
<1> DEFINE doc == NewDoc(q)
<1>1. doc \in RawDoc
  BY NewDocType
<1>2. Inserted(r, q) = Append(r, doc)
  BY DEF Inserted
<1> HIDE DEF doc
<1>3. /\ Append(r, doc) \in Seq(RawDoc)
      /\ Len(Append(r, doc)) = Len(r) + 1
      /\ \A i \in 1..Len(r) : Append(r, doc)[i] = r[i]
      /\ Append(r, doc)[Len(r) + 1] = doc
  BY <1>1
<1>4. /\ DOMAIN r = 1..Len(r)
      /\ DOMAIN Append(r, doc) = 1..Len(r) + 1
      /\ Len(r) \in Nat
  BY <1>1
<1> QED
  BY <1>2, <1>3, <1>4 DEF doc

(* The documents of a batch follow those that were there, in its order.    *)
LEMMA InsertedManyDocs ==
  ASSUME NEW r \in Seq(RawDoc), NEW batch \in Seq(Request),
         NEW n \in 0..Len(batch)
  PROVE  /\ InsertedMany(r, batch, n) \in Seq(RawDoc)
         /\ DOMAIN r \subseteq DOMAIN InsertedMany(r, batch, n)
         /\ \A i \in DOMAIN r : InsertedMany(r, batch, n)[i] = r[i]
         /\ \A i \in DOMAIN InsertedMany(r, batch, n) \ DOMAIN r :
              \E j \in 1..n : InsertedMany(r, batch, n)[i] = NewDoc(batch[j])
         /\ \A j \in 1..n :
              /\ Len(r) + j \in DOMAIN InsertedMany(r, batch, n)
              /\ InsertedMany(r, batch, n)[Len(r) + j] = NewDoc(batch[j])
<1> DEFINE docs == [j \in 1..n |-> NewDoc(batch[j])]
           new == r \o docs
<1>1. n \in Nat /\ \A j \in 1..n : batch[j] \in Request
  OBVIOUS
<1>2. docs \in Seq(RawDoc) /\ Len(docs) = n
  BY <1>1, NewDocType
<1>3. \A j \in 1..n : docs[j] = NewDoc(batch[j])
  OBVIOUS
<1>4. InsertedMany(r, batch, n) = new
  BY DEF InsertedMany
<1> HIDE DEF docs
<1>5. /\ new \in Seq(RawDoc) /\ Len(new) = Len(r) + n
      /\ \A i \in 1..Len(r) : new[i] = r[i]
      /\ \A j \in 1..n : new[Len(r) + j] = docs[j]
  BY <1>1, <1>2
<1>6. DOMAIN r = 1..Len(r) /\ DOMAIN new = 1..Len(r) + n /\ Len(r) \in Nat
  BY <1>1, <1>5
<1> HIDE DEF new
<1>7. \A i \in DOMAIN new \ DOMAIN r : i - Len(r) \in 1..n
                                     /\ i = Len(r) + (i - Len(r))
  BY <1>1, <1>6
<1> QED
  BY <1>1, <1>3, <1>4, <1>5, <1>6, <1>7

LEMMA UpdatedDocs ==
  ASSUME NEW r \in Seq(RawDoc), NEW d \in DOMAIN r,
         NEW p \in BOOLEAN, NEW e \in ErrorField
  PROVE  /\ SameDocs(r, Updated(r, d, p, e))
         /\ \A i \in DOMAIN r : Updated(r, d, p, e)[i].present = r[i].present
         /\ \A i \in DOMAIN r : i # d => Updated(r, d, p, e)[i] = r[i]
         /\ r[d].present => Updated(r, d, p, e)[d].processed = p
<1> DEFINE doc == [r[d] EXCEPT !.processed = p, !.error = e]
<1>1. r[d] \in RawDoc
  OBVIOUS
<1>2. /\ doc \in RawDoc /\ doc.req = r[d].req /\ doc.present = r[d].present
      /\ doc.processed = p
  BY <1>1 DEF RawDoc
<1>3. [r EXCEPT ![d].processed = p, ![d].error = e] = [r EXCEPT ![d] = doc]
  BY <1>1 DEF RawDoc
<1> HIDE DEF doc
<1>4. /\ [r EXCEPT ![d] = doc] \in Seq(RawDoc)
      /\ DOMAIN [r EXCEPT ![d] = doc] = DOMAIN r
      /\ Len([r EXCEPT ![d] = doc]) = Len(r)
      /\ [r EXCEPT ![d] = doc][d] = doc
      /\ \A i \in DOMAIN r : i # d => [r EXCEPT ![d] = doc][i] = r[i]
  BY <1>2
<1>5. CASE r[d].present
  BY <1>2, <1>3, <1>4, <1>5 DEF Updated, SameDocs
<1>6. CASE ~r[d].present
  BY <1>6 DEF Updated, SameDocs
<1> QED
  BY <1>5, <1>6

LEMMA CleanedDocs ==
  ASSUME NEW r \in Seq(RawDoc), NEW c \in Nat
  PROVE  /\ SameDocs(r, Cleaned(r, c))
         /\ \A i \in DOMAIN r :
              /\ Cleaned(r, c)[i].processed = r[i].processed
              /\ ~r[i].processed => Cleaned(r, c)[i].present = r[i].present
<1>1. DOMAIN r = 1..Len(r) /\ Len(r) \in Nat
  OBVIOUS
<1>2. \A i \in DOMAIN r : r[i] \in RawDoc
  OBVIOUS
<1>3. \A i \in DOMAIN r :
        /\ Cleaned(r, c)[i] \in RawDoc
        /\ Cleaned(r, c)[i].req = r[i].req
        /\ Cleaned(r, c)[i].processed = r[i].processed
        /\ ~r[i].processed => Cleaned(r, c)[i] = r[i]
  BY <1>2 DEF Cleaned, RawDoc
<1>4. Cleaned(r, c) \in [1..Len(r) -> RawDoc]
  BY <1>1, <1>3 DEF Cleaned
<1>5. Cleaned(r, c) \in Seq(RawDoc) /\ Len(Cleaned(r, c)) = Len(r)
  BY <1>1, <1>4
<1>6. DOMAIN Cleaned(r, c) = DOMAIN r
  BY DEF Cleaned
<1> QED
  BY <1>3, <1>5, <1>6 DEF SameDocs
=============================================================================
