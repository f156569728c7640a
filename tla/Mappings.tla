------------------------------ MODULE Mappings ------------------------------
(***************************************************************************)
(* internal/service/ultra_mapping.go and the calls of service.go that      *)
(* change mappings: the collection mappings, the table m.mappings that     *)
(* Load compiles from it under the write lock, and who uses the two.       *)
(*                                                                         *)
(*   Boot        NewUltraMapper: load, seed the fallback mapping, load     *)
(*   AutoReload  the goroutine that loads every 10 s                       *)
(*   Client      a handler of POST, PUT or DELETE /api/mappings            *)
(*   Reader      processAndStore: DetectSourceID, then MapFields           *)
(*                                                                         *)
(* A mapping is its source_id, whether it is active, and the number of the *)
(* change that wrote its rules: what the rules say is not modelled here.   *)
(* MappingCache, which the calls clear, is never filled by any code.       *)
(***************************************************************************)
EXTENDS Naturals, Sequences, FiniteSets

CONSTANTS
  Source,          \* values of source_id
  Fallback,        \* "Inv", the source of a payload without a known hint
  Client, Reader, Boot, AutoReload,
  \* Bounds on the environment:
  MaxChanges, MaxFaults, MaxLosses

Loader == Client \cup {Boot, AutoReload}

ASSUME SourceAssumption == Fallback \in Source
ASSUME LoaderAssumption ==
  {Boot, AutoReload} \cap Client = {} /\ Boot # AutoReload
ASSUME LimitAssumption == {MaxChanges, MaxFaults, MaxLosses} \subseteq Nat

VARIABLES
  history,       \* the states of the collection, the present one last
  memory,        \* m.mappings, with when and how it was read
  mu,            \* who holds m.mu for writing: nobody or one loader
  pc,            \* where each loader stands
  found,         \* newMappings of each loader: what it has read so far
  written,       \* clients: the state of the collection their write left
  rpc, chosen,   \* readers: where, and the source they detected
  rules,         \* readers: the rules their last payload was mapped with
  since,         \* ghost: the value of confirmed when the payload arrived
  confirmed,     \* ghost: the last state a client was told of
  faults, losses

readerVars == <<rpc, chosen, rules, since>>
vars == <<history, memory, mu, pc, found, written, readerVars, confirmed,
          faults, losses>>

Doc  == [exists : BOOLEAN, active : BOOLEAN, change : Nat]
Docs == [Source -> Doc]

(* The rules of some sources; the state the collection was in when the     *)
(* query began (ghost); and the sources that the cursor has not passed.    *)
IsTable(table) ==
  /\ table = [mappings |-> table.mappings, asOf |-> table.asOf,
              missing |-> table.missing]
  /\ DOMAIN table.mappings \subseteq Source
  /\ table.mappings \in [DOMAIN table.mappings -> Nat]
  /\ table.asOf \in Nat
  /\ table.missing \subseteq Source

coll == history[Len(history)]

Active(docs) == {s \in Source : docs[s].exists /\ docs[s].active}

(* The rules that are in force in a state of the collection.               *)
Compiled(docs) == [s \in Active(docs) |-> docs[s].change]

None == [s \in {} |-> 0]
Unread(n) == [mappings |-> None, asOf |-> n, missing |-> Source]
Nothing == Unread(0)

(* The table of a cursor that passes the document of s now: it is in the   *)
(* table if it is active.                                                  *)
Passed(table, s) ==
  [mappings |-> [u \in DOMAIN table.mappings \cup ({s} \cap Active(coll)) |->
                   IF u = s THEN coll[s].change ELSE table.mappings[u]],
   asOf |-> table.asOf,
   missing |-> table.missing \ {s}]
-----------------------------------------------------------------------------
(* At the start nobody has loaded, and any of the mappings is there, in    *)
(* use or deleted.                                                         *)
Init ==
  /\ \E there \in SUBSET Source : \E on \in SUBSET there :
       history = <<[s \in Source |-> [exists |-> s \in there,
                                      active |-> s \in on, change |-> 0]]>>
  /\ memory = Nothing
  /\ mu = {}
  /\ pc = [t \in Loader |-> IF t = Boot THEN "lock" ELSE "idle"]
  /\ found = [t \in Loader |-> Nothing]
  /\ written = [c \in Client |-> 0]
  /\ rpc = [r \in Reader |-> "idle"]
  /\ chosen = [r \in Reader |-> Fallback]
  /\ rules = [r \in Reader |-> 0]
  /\ since = [r \in Reader |-> 0]
  /\ confirmed = 0
  /\ faults = 0 /\ losses = 0

Ready == pc[Boot] = "ready"

Goto(t, label) == pc' = [pc EXCEPT ![t] = label]

(* The call that t loads for has ended.                                    *)
Forgotten(t) == written' = [c \in Client |-> IF c = t THEN 0 ELSE written[c]]

Fault == faults < MaxFaults /\ faults' = faults + 1
-----------------------------------------------------------------------------
(* A client's write returns nil, and the client goes on to load.           *)
Answered(c, states) ==
  /\ history' = states
  /\ written' = [written EXCEPT ![c] = Len(states)]
  /\ Goto(c, "lock")
  /\ UNCHANGED faults

(* It returns an error, perhaps after it took effect; so does the client.  *)
Errored(states) ==
  /\ history' \in {history, states}
  /\ Fault
  /\ UNCHANGED <<pc, written>>

Put(s) ==
  Append(history, [coll EXCEPT ![s] = [exists |-> TRUE, active |-> TRUE,
                                       change |-> Len(history)]])
Deactivated(s) == Append(history, [coll EXCEPT ![s].active = FALSE])

Write(c, states) ==
  /\ Ready /\ pc[c] = "idle"
  /\ Len(states) <= MaxChanges
  /\ Answered(c, states) \/ Errored(states)
  /\ UNCHANGED <<memory, mu, found, readerVars, confirmed, losses>>

(* The unique index refuses a source_id that exists, active or not: the    *)
(* client gets an error and nothing changes.                               *)
CreateMapping(c, s) == ~coll[s].exists /\ Write(c, Put(s))

(* UpdateOne without upsert: an unknown source_id is no error.  The rules  *)
(* of a deleted mapping make it active again.                              *)
UpdateMapping(c, s) ==
  Write(c, IF coll[s].exists THEN Put(s) ELSE history)

\* Mutation: a deletion is answered without a reload.
DeleteMappingUnloaded(c, s) ==
  /\ Ready /\ pc[c] = "idle"
  /\ Len(history) < MaxChanges
  /\ history' = Deactivated(s)
  /\ confirmed' = Len(history')
  /\ UNCHANGED <<memory, mu, pc, found, written, readerVars, faults,
                 losses>>

DeleteMapping(c, s) ==
  Write(c, IF coll[s].exists THEN Deactivated(s) ELSE history)
-----------------------------------------------------------------------------
\* Mutation: Load takes a lock for reading, which excludes no other load.
LockShared(t) ==
  /\ pc[t] = "lock"
  /\ mu' = mu \cup {t}
  /\ Goto(t, "find")
  /\ UNCHANGED <<history, memory, found, written, readerVars, confirmed,
                 faults, losses>>

(* Load takes the lock.                                                    *)
Lock(t) ==
  /\ pc[t] = "lock"
  /\ mu = {}
  /\ mu' = {t}
  /\ Goto(t, "find")
  /\ UNCHANGED <<history, memory, found, written, readerVars, confirmed,
                 faults, losses>>

(* Find opens a cursor on the active mappings.                             *)
Find(t) ==
  /\ pc[t] = "find"
  /\ found' = [found EXCEPT ![t] = Unread(Len(history))]
  /\ Goto(t, "read")
  /\ UNCHANGED <<history, memory, mu, written, readerVars, confirmed,
                 faults, losses>>

(* The cursor returns one document after the other, each as it is when its *)
(* batch is made, while others go on to write.                             *)
Read(t, s) ==
  /\ pc[t] = "read" /\ s \in found[t].missing
  /\ found' = [found EXCEPT ![t] = Passed(@, s)]
  /\ UNCHANGED <<history, memory, mu, pc, written, readerVars, confirmed,
                 faults, losses>>

\* Mutation of FindFails: the lock is kept.
FindFailsLocked(t) ==
  /\ pc[t] = "find"
  /\ Fault
  /\ Goto(t, IF t = Boot THEN "failed" ELSE "idle")
  /\ UNCHANGED <<history, memory, mu, found, written, readerVars, confirmed,
                 losses>>

(* Find fails: the table stays.  The client is told of an error, the       *)
(* service does not start, autoReload waits for its next tick.             *)
FindFails(t) ==
  /\ pc[t] = "find"
  /\ Fault
  /\ mu' = mu \ {t}
  /\ Goto(t, IF t = Boot THEN "failed" ELSE "idle")
  /\ Forgotten(t)
  /\ UNCHANGED <<history, memory, found, readerVars, confirmed, losses>>

(* The loop ends after all documents, or without some of them: those of    *)
(* the next batch are not met if fetching it failed after a first one, as  *)
(* nobody asks cursor.Err; and one that cannot be decoded is skipped,      *)
(* which happens to none that this service has written.                    *)
Iterated(t) ==
  IF found[t].missing = {} THEN UNCHANGED losses
  ELSE /\ losses < MaxLosses /\ losses' = losses + 1
       /\ \/ found[t].mappings # None
          \/ \A s \in found[t].missing : coll[s].change = 0

(* The new table replaces the old one and the lock is released.  A client  *)
(* gets its answer; Boot seeds if nothing was loaded the first time.       *)
Install(t) ==
  /\ pc[t] = "read"
  /\ Iterated(t)
  /\ memory' = found[t]
  /\ mu' = mu \ {t}
  /\ Goto(t, IF t # Boot THEN "idle"
             ELSE IF memory.asOf = 0 /\ found[t].mappings = None THEN "seed"
             ELSE "ready")
  /\ confirmed' = IF t \in Client /\ written[t] > confirmed
                    THEN written[t] ELSE confirmed
  /\ found' = [found EXCEPT ![t] = Nothing]
  /\ Forgotten(t)
  /\ UNCHANGED <<history, readerVars, faults>>

(* seedUltraDefaults: the fallback mapping is inserted unless it exists,   *)
(* deleted or not; errors are ignored.                                     *)
Seed ==
  /\ pc[Boot] = "seed"
  /\ \/ ~coll[Fallback].exists /\ history' = Put(Fallback) /\ UNCHANGED faults
     \/ coll[Fallback].exists /\ UNCHANGED <<history, faults>>
     \/ UNCHANGED history /\ Fault
  /\ Goto(Boot, "lock")
  /\ UNCHANGED <<memory, mu, found, written, readerVars, confirmed,
                 losses>>

\* Mutation: autoReload loads only while the table is empty.
TickWhileEmpty ==
  /\ Ready /\ pc[AutoReload] = "idle"
  /\ memory.mappings = None
  /\ Goto(AutoReload, "lock")
  /\ UNCHANGED <<history, memory, mu, found, written, readerVars, confirmed,
                 faults, losses>>

(* autoReload: a tick.                                                     *)
Tick ==
  /\ Ready /\ pc[AutoReload] = "idle"
  /\ Goto(AutoReload, "lock")
  /\ UNCHANGED <<history, memory, mu, found, written, readerVars, confirmed,
                 faults, losses>>
-----------------------------------------------------------------------------
(* A payload arrives.                                                      *)
Arrive(r) ==
  /\ Ready /\ rpc[r] = "idle"
  /\ rpc' = [rpc EXCEPT ![r] = "detect"]
  /\ since' = [since EXCEPT ![r] = confirmed]
  /\ UNCHANGED <<history, memory, mu, pc, found, written, chosen, rules,
                 confirmed, faults, losses>>

(* Its request ends, mapped or not.                                        *)
Leave(r) ==
  /\ rpc' = [rpc EXCEPT ![r] = "idle"]
  /\ chosen' = [chosen EXCEPT ![r] = Fallback]
  /\ rules' = [rules EXCEPT ![r] = 0]
  /\ since' = [since EXCEPT ![r] = 0]

(* DetectSourceID: a hint of the payload if the table has it, else the     *)
(* fallback if the table has that, else nothing.  (A payload has up to two *)
(* hints; the first that the table has is the one that counts.)            *)
(* It waits for the lock.                                                  *)
DetectSourceID(r, hint) ==
  LET known == DOMAIN memory.mappings IN
  /\ rpc[r] = "detect"
  /\ mu = {}
  /\ IF {hint, Fallback} \cap known # {}
       THEN /\ rpc' = [rpc EXCEPT ![r] = "map"]
            /\ chosen' = [chosen EXCEPT ![r] =
                            IF hint \in known THEN hint ELSE Fallback]
            /\ UNCHANGED <<rules, since>>
       ELSE Leave(r)
  /\ UNCHANGED <<history, memory, mu, pc, found, written, confirmed, faults,
                 losses>>

(* MapFields takes the lock anew and looks the source up again: it maps    *)
(* the payload, or fails because the mapping is not there any more.        *)
MapFields(r) ==
  /\ rpc[r] = "map"
  /\ mu = {}
  /\ IF chosen[r] \in DOMAIN memory.mappings
       THEN /\ rpc' = [rpc EXCEPT ![r] = "mapped"]
            /\ rules' = [rules EXCEPT ![r] = memory.mappings[chosen[r]]]
            /\ UNCHANGED <<chosen, since>>
       ELSE Leave(r)
  /\ UNCHANGED <<history, memory, mu, pc, found, written, confirmed, faults,
                 losses>>

(* The record is made, and the request ends.                               *)
Done(r) ==
  /\ rpc[r] = "mapped"
  /\ Leave(r)
  /\ UNCHANGED <<history, memory, mu, pc, found, written, confirmed, faults,
                 losses>>

Load(t) ==
  \/ Lock(t) \/ Find(t) \/ FindFails(t) \/ Install(t)
  \/ \E s \in Source : Read(t, s)

Next ==
  \/ \E c \in Client, s \in Source :
       CreateMapping(c, s) \/ UpdateMapping(c, s) \/ DeleteMapping(c, s)
  \/ \E t \in Loader : Load(t)
  \/ Seed
  \/ Tick
  \/ \E r \in Reader : Arrive(r) \/ MapFields(r) \/ Done(r)
  \/ \E r \in Reader, hint \in Source : DetectSourceID(r, hint)

(* Who holds the lock goes on, since Find has a deadline; autoReload, when *)
(* it waits for a Go mutex, gets it in the end, however often others take  *)
(* it (SF); the ticker ticks.  Nobody is obliged to call the API.          *)
Fairness ==
  /\ WF_vars(\E t \in Loader : Load(t))
  /\ SF_vars(Lock(AutoReload))
  /\ WF_vars(Seed)
  /\ WF_vars(Tick)

SafetySpec == Init /\ [][Next]_vars
Spec == SafetySpec /\ Fairness
-----------------------------------------------------------------------------
TypeOK ==
  /\ history \in Seq(Docs) /\ history # << >>
  /\ IsTable(memory) /\ memory.asOf <= Len(history)
  /\ pc \in [Loader -> {"idle", "lock", "find", "read", "seed", "ready",
                        "failed"}]
  /\ mu = {t \in Loader : pc[t] \in {"find", "read"}}
  /\ \A t, u \in mu : t = u
  /\ found = [t \in Loader |-> found[t]]
  /\ \A t \in Loader : IsTable(found[t]) /\ found[t].asOf <= Len(history)
  /\ written \in [Client -> 0..Len(history)]
  /\ rpc \in [Reader -> {"idle", "detect", "map", "mapped"}]
  /\ chosen \in [Reader -> Source]
  /\ rules \in [Reader -> Nat]
  /\ since \in [Reader -> 0..Len(history)]
  /\ confirmed \in 0..Len(history)
  /\ faults \in Nat /\ losses \in Nat

(* What the table says of s is what that state of the collection said.     *)
Agrees(mappings, s, docs) ==
  IF s \in DOMAIN mappings
    THEN s \in Active(docs) /\ mappings[s] = docs[s].change
    ELSE s \notin Active(docs)

(* What the table says of s was so at some moment after the last change    *)
(* that clients were told of.                                              *)
UpToDate(s) ==
  \E n \in 1..Len(history) :
    n >= confirmed /\ Agrees(memory.mappings, s, history[n])

(* Whatever other loads run or fail, and although a cursor returns the     *)
(* documents at different moments, every change a client was told of is in *)
(* the table that payloads are mapped with, or a later change of the same  *)
(* mapping is; only a mapping that the last cursor has not passed or the   *)
(* decoder refused may be missing.                                         *)
AnswersAreServed == \A s \in Source \ memory.missing : UpToDate(s)

(* The rules a payload is mapped with were in force at some moment after   *)
(* the last change that clients had been told of when the payload arrived, *)
(* although the source is detected and the rules are read under separate   *)
(* locks: a payload sent after DELETE was answered is never mapped with    *)
(* the deleted rules.                                                      *)
RulesAreCurrent ==
  \A r \in Reader : rpc[r] = "mapped" =>
    \E n \in 1..Len(history) :
      /\ n >= since[r]
      /\ chosen[r] \in Active(history[n])
      /\ rules[r] = history[n][chosen[r]].change

(* What VersionedCache sees of the collection.                             *)
Views(states) == [n \in 1..Len(states) |-> Compiled(states[n])]

Cache == INSTANCE VersionedCache
           WITH Key <- Source, history <- Views(history),
                table <- memory.mappings, asOf <- memory.asOf,
                missing <- memory.missing, stopped <- pc[Boot] = "failed"

(* The mapper implements VersionedCache: whatever loads and failures       *)
(* interleave, each load shows of every source what the collection said of *)
(* it during that load, or leaves it out, and no load falls behind an      *)
(* earlier one; and a change is shown at last, also one whose call         *)
(* returned an error or whose mapping was left out, because autoReload     *)
(* loads again.                                                            *)
ImplementsCache == Cache!Spec
=============================================================================
