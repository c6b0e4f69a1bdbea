---------------------- MODULE ExplainabilityStoreProofs ----------------------
(***************************************************************************)
(* The abstract store's type invariant, the exactness of its history, the   *)
(* two promises about change and the exactness of reading it in pages, for  *)
(* any runs, records, times, sequence range, batches and page sizes.        *)
(***************************************************************************)
EXTENDS StorePaging, FiniteSetTheorems, TLAPS

\* NoRun is told from metadata by its fields.
LEMMA NoRunIsNoRun == \A run \in Run : run # NoRun
  <1>1. SUFFICES ASSUME NEW run \in Run, run = NoRun PROVE FALSE
    OBVIOUS
  <1>2. DOMAIN run = DOMAIN NoRun
    BY <1>1
  <1>3. "kind" \in DOMAIN run
    BY DEF Run
  <1>4. "kind" \notin DOMAIN NoRun
    BY DEF NoRun
  <1> QED
    BY <1>2, <1>3, <1>4

\* A batch of Batches is a sequence of envelopes.
LEMMA BatchIsSequence ==
  ASSUME NEW batch \in Batches
  PROVE  batch \in Seq(Envelope)
  <1>1. PICK n \in 0..MaxBatch : batch \in [1..n -> Envelope]
    BY DEF Batches
  <1>2. n \in Nat
    BY <1>1
  <1> QED
    BY <1>1, <1>2

\* What CanAppend says of an accepted batch, with the types of its parts.
LEMMA AcceptedBatch ==
  ASSUME TypeOK, NEW batch \in Batches, CanAppend(runs, batch)
  PROVE  /\ batch \in Seq(Envelope) /\ Len(batch) \in Nat \ {0}
         /\ batch[1].run \in RunIds
         /\ runs[batch[1].run] \in Run
         /\ runs[batch[1].run].status \notin TerminalStatuses
         /\ runs[batch[1].run].eventCount + Len(batch) \in 0..MaxSequence
         /\ \A i \in DOMAIN batch :
                /\ batch[i].run = batch[1].run
                /\ batch[i].sequence = runs[batch[1].run].eventCount + i
  <1>1. batch \in Seq(Envelope)
    BY BatchIsSequence
  <1>2. batch # <<>>
    BY DEF CanAppend
  <1>3. Len(batch) \in Nat \ {0}
    BY <1>1, <1>2
  <1>4. 1 \in DOMAIN batch
    BY <1>1, <1>3
  <1>5. batch[1] \in Envelope
    BY <1>1, <1>4
  <1>6. batch[1].run \in RunIds
    BY <1>5 DEF Envelope
  <1>7. runs[batch[1].run] \in Run
    BY <1>6 DEF TypeOK, CanAppend
  <1>8. runs[batch[1].run].eventCount \in 0..MaxSequence
    BY <1>7 DEF Run
  <1>9. runs[batch[1].run].eventCount + Len(batch) <= MaxSequence
    BY DEF CanAppend
  <1>10. runs[batch[1].run].eventCount + Len(batch) \in 0..MaxSequence
    BY <1>3, <1>8, <1>9, ContractAssumption DEF ContractAssumption
  <1> QED
    BY <1>1, <1>3, <1>6, <1>7, <1>10 DEF CanAppend
-----------------------------------------------------------------------------
LEMMA InitTypes == Init => TypeOK
  BY DEF Init, TypeOK

LEMMA CreateTypes ==
  ASSUME TypeOK, NEW id \in RunIds, NEW run \in Run, create_run(id, run)
  PROVE  TypeOK'
  BY DEF TypeOK, create_run, AfterCreate

LEMMA AppendTypes ==
  ASSUME TypeOK, NEW batch \in Batches, append_events(batch)
  PROVE  TypeOK'
  <1> DEFINE id == batch[1].run
             run == [runs[id] EXCEPT !.eventCount = @ + Len(batch)]
  <1>1. CanAppend(runs, batch)
    BY DEF append_events
  <1>2. /\ batch \in Seq(Envelope) /\ id \in RunIds /\ runs[id] \in Run
        /\ runs[id].eventCount + Len(batch) \in 0..MaxSequence
    BY <1>1, AcceptedBatch
  <1>3. run \in Run
    BY <1>2 DEF Run
  <1>4. runs' = [runs EXCEPT ![id] = run]
    BY DEF append_events, RunsAfterAppend
  <1>5. runs' \in [RunIds -> Run \cup {NoRun}]
    BY <1>2, <1>3, <1>4 DEF TypeOK
  <1>6. events[id] \o batch \in Seq(Envelope)
    BY <1>2 DEF TypeOK
  <1>7. events' = [events EXCEPT ![id] = events[id] \o batch]
    BY DEF append_events, EventsAfterAppend
  <1>8. events' \in [RunIds -> Seq(Envelope)]
    BY <1>2, <1>6, <1>7 DEF TypeOK
  <1> QED
    BY <1>5, <1>8 DEF TypeOK

LEMMA CompleteTypes ==
  ASSUME TypeOK, NEW id \in RunIds, NEW status \in Statuses, NEW at \in Times,
         complete_run(id, status, at)
  PROVE  TypeOK'
  <1> DEFINE run == [runs[id] EXCEPT !.status = status, !.completedAt = at]
  <1>1. runs[id] \in Run
    BY DEF TypeOK, complete_run, CanComplete, Exists
  <1>2. run \in Run
    BY <1>1 DEF Run
  <1>3. runs' = [runs EXCEPT ![id] = run]
    BY DEF complete_run, AfterComplete
  <1> QED
    BY <1>2, <1>3 DEF TypeOK, complete_run

LEMMA DeleteTypes ==
  ASSUME TypeOK, NEW id \in RunIds, delete_run(id)
  PROVE  TypeOK'
  BY DEF TypeOK, delete_run, RunsAfterDelete, EventsAfterDelete

LEMMA NextTypes == TypeOK /\ [Next]_vars => TypeOK'
  <1> SUFFICES ASSUME TypeOK, [Next]_vars PROVE TypeOK'
    OBVIOUS
  <1>1. CASE \E id \in RunIds, run \in Run : create_run(id, run)
    BY <1>1, CreateTypes
  <1>2. CASE \E batch \in Batches : append_events(batch)
    BY <1>2, AppendTypes
  <1>3. CASE \E id \in RunIds, status \in Statuses, at \in Times : complete_run(id, status, at)
    BY <1>3, CompleteTypes
  <1>4. CASE \E id \in RunIds : delete_run(id)
    BY <1>4, DeleteTypes
  <1>5. CASE UNCHANGED vars
    BY <1>5 DEF TypeOK, vars
  <1> QED
    BY <1>1, <1>2, <1>3, <1>4, <1>5 DEF Next

\* Both maps always hold well-formed runs and envelopes: a batch that would
\* pass the last sequence is refused as a whole.
THEOREM StoreTypeCorrect == Spec => []TypeOK
  BY InitTypes, NextTypes, PTL DEF Spec
-----------------------------------------------------------------------------
Frozen(id) ==
    (Exists(runs, id) /\ runs[id].status \in TerminalStatuses)
        => \/ runs'[id] = runs[id] /\ events'[id] = events[id]
           \/ runs'[id] = NoRun

\* Each way of changing the store leaves a terminal run alone or deletes it.
LEMMA CreateFreezes ==
  ASSUME TypeOK, NEW id \in RunIds, NEW run \in Run, create_run(id, run), NEW other \in RunIds
  PROVE  Frozen(other)
  BY DEF TypeOK, create_run, CanCreate, AfterCreate, Exists, Frozen

LEMMA AppendFreezes ==
  ASSUME TypeOK, NEW batch \in Batches, append_events(batch), NEW other \in RunIds
  PROVE  Frozen(other)
  <1> DEFINE id == batch[1].run
  <1>1. id \in RunIds /\ runs[id].status \notin TerminalStatuses
    BY AcceptedBatch DEF append_events
  <1>2. CASE other = id
    BY <1>1, <1>2 DEF Frozen
  <1>3. CASE other # id
    <2>1. runs'[other] = runs[other]
      BY <1>1, <1>3 DEF append_events, RunsAfterAppend, TypeOK
    <2>2. events'[other] = events[other]
      BY <1>1, <1>3 DEF append_events, EventsAfterAppend, TypeOK
    <2> QED
      BY <2>1, <2>2 DEF Frozen
  <1> QED
    BY <1>2, <1>3

LEMMA CompleteFreezes ==
  ASSUME TypeOK, NEW id \in RunIds, NEW status \in Statuses, NEW at \in Times,
         complete_run(id, status, at), NEW other \in RunIds
  PROVE  Frozen(other)
  <1>1. events' = events
    BY DEF complete_run
  <1>2. CASE other # id
    BY <1>1, <1>2 DEF complete_run, AfterComplete, TypeOK, Frozen
  <1>3. CASE other = id /\ runs[id].status \in TerminalStatuses
    <2>1. runs[id] \in Run
      BY DEF TypeOK, complete_run, CanComplete, Exists
    <2>2. runs[id].status = status /\ runs[id].completedAt = at
      BY <1>3 DEF complete_run, CanComplete
    <2>3. [runs[id] EXCEPT !.status = status, !.completedAt = at] = runs[id]
      BY <2>1, <2>2 DEF Run
    <2>4. runs' = [runs EXCEPT ![id] = [runs[id] EXCEPT !.status = status, !.completedAt = at]]
      BY DEF complete_run, AfterComplete
    <2>5. runs'[id] = runs[id]
      BY <2>3, <2>4 DEF TypeOK
    <2> QED
      BY <1>1, <1>3, <2>5 DEF Frozen
  <1>4. CASE other = id /\ runs[id].status \notin TerminalStatuses
    BY <1>4 DEF Frozen
  <1> QED
    BY <1>2, <1>3, <1>4

LEMMA DeleteFreezes ==
  ASSUME TypeOK, NEW id \in RunIds, delete_run(id), NEW other \in RunIds
  PROVE  Frozen(other)
  BY DEF TypeOK, delete_run, RunsAfterDelete, EventsAfterDelete, Frozen

\* A terminal run only ever changes by being deleted: no late event, no other
\* status or completion time, whatever order calls arrive in.
THEOREM TerminalRunsAreFrozen == Spec => TerminalIsFrozen
  <1>1. TypeOK /\ [Next]_vars => [\A id \in RunIds : Frozen(id)]_vars
    <2> SUFFICES ASSUME TypeOK, Next, NEW other \in RunIds PROVE Frozen(other)
      OBVIOUS
    <2>1. CASE \E id \in RunIds, run \in Run : create_run(id, run)
      BY <2>1, CreateFreezes
    <2>2. CASE \E batch \in Batches : append_events(batch)
      BY <2>2, AppendFreezes
    <2>3. CASE \E id \in RunIds, status \in Statuses, at \in Times :
                  complete_run(id, status, at)
      BY <2>3, CompleteFreezes
    <2>4. CASE \E id \in RunIds : delete_run(id)
      BY <2>4, DeleteFreezes
    <2> QED
      BY <2>1, <2>2, <2>3, <2>4 DEF Next
  <1>2. TypeOK /\ [Next]_vars =>
            [\A id \in RunIds :
                (Exists(runs, id) /\ runs[id].status \in TerminalStatuses)
                    => \/ runs'[id] = runs[id] /\ events'[id] = events[id]
                       \/ runs'[id] = NoRun]_vars
    BY <1>1 DEF Frozen
  <1> QED
    BY <1>2, StoreTypeCorrect, PTL DEF Spec, TerminalIsFrozen
-----------------------------------------------------------------------------
\* The part of HistoryExact about one run.
Exact(id) ==
    /\ Exists(runs, id) => runs[id].eventCount = Len(events[id])
    /\ ~Exists(runs, id) => events[id] = <<>>
    /\ \A i \in DOMAIN events[id] :
           events[id][i].run = id /\ events[id][i].sequence = i

LEMMA CreateExact ==
  ASSUME TypeOK, HistoryExact, NEW id \in RunIds, NEW run \in Run, create_run(id, run),
         NEW other \in RunIds
  PROVE  Exact(other)'
  <1>1. Exact(other)
    BY DEF HistoryExact, Exact
  <1>2. CASE other # id
    BY <1>1, <1>2 DEF create_run, AfterCreate, TypeOK, Exists, Exact
  <1>3. CASE other = id
    <2>1. runs'[id] = run /\ events'[id] = <<>>
      BY <1>1, <1>3 DEF create_run, CanCreate, AfterCreate, TypeOK, Exact
    <2>2. run.eventCount = 0 /\ run # NoRun
      BY NoRunIsNoRun DEF create_run, CanCreate, ValidNewRun
    <2> QED
      BY <1>3, <2>1, <2>2 DEF Exists, Exact
  <1> QED
    BY <1>2, <1>3

LEMMA AppendExact ==
  ASSUME TypeOK, HistoryExact, NEW batch \in Batches, append_events(batch),
         NEW other \in RunIds
  PROVE  Exact(other)'
  <1> DEFINE id == batch[1].run
             count == runs[id].eventCount
  <1>1. Exact(other)
    BY DEF HistoryExact, Exact
  <1>2. /\ batch \in Seq(Envelope) /\ Len(batch) \in Nat \ {0}
        /\ id \in RunIds /\ runs[id] \in Run
        /\ \A i \in DOMAIN batch : batch[i].run = id /\ batch[i].sequence = count + i
    BY AcceptedBatch DEF append_events
  <1>3. CASE other # id
    <2>1. runs'[other] = runs[other]
      BY <1>2, <1>3 DEF append_events, RunsAfterAppend, TypeOK
    <2>2. events'[other] = events[other]
      BY <1>2, <1>3 DEF append_events, EventsAfterAppend, TypeOK
    <2> QED
      BY <1>1, <2>1, <2>2 DEF Exists, Exact
  <1>4. CASE other = id
    <2>1. events[id] \in Seq(Envelope) /\ count = Len(events[id])
      BY <1>1, <1>2, <1>4, NoRunIsNoRun DEF Exact, Exists, TypeOK
    <2>2. events'[id] = events[id] \o batch
      BY <1>2 DEF append_events, EventsAfterAppend, TypeOK
    <2>3. runs'[id] = [runs[id] EXCEPT !.eventCount = count + Len(batch)]
      BY <1>2 DEF append_events, RunsAfterAppend, TypeOK
    <2>4. runs'[id].eventCount = count + Len(batch)
      BY <1>2, <2>3 DEF Run
    <2>5. runs'[id] # NoRun
      <3>1. runs'[id] \in Run \cup {NoRun} /\ "kind" \in DOMAIN runs'[id]
        BY <1>2, <2>3, NextTypes DEF Run, TypeOK, Next
      <3> QED
        BY <3>1 DEF NoRun
    <2>6. Len(events'[id]) = count + Len(batch)
      BY <1>2, <2>1, <2>2
    <2>7. ASSUME NEW i \in DOMAIN events'[id]
          PROVE  events'[id][i].run = id /\ events'[id][i].sequence = i
      <3>1. i \in 1..(count + Len(batch))
        BY <1>2, <2>1, <2>2, <2>7
      <3>2. CASE i <= count
        <4>1. events'[id][i] = events[id][i] /\ i \in DOMAIN events[id]
          BY <1>2, <2>1, <2>2, <3>1, <3>2
        <4> QED
          BY <1>1, <1>4, <4>1 DEF Exact
      <3>3. CASE i > count
        <4>1. events'[id][i] = batch[i - count] /\ i - count \in DOMAIN batch
          BY <1>2, <2>1, <2>2, <3>1, <3>3
        <4>2. batch[i - count].run = id /\ batch[i - count].sequence = count + (i - count)
          BY <1>2, <4>1
        <4> QED
          BY <2>1, <3>1, <4>1, <4>2
      <3> QED
        BY <2>1, <3>1, <3>2, <3>3
    <2> QED
      BY <1>4, <2>4, <2>5, <2>6, <2>7 DEF Exists, Exact
  <1> QED
    BY <1>3, <1>4

LEMMA CompleteExact ==
  ASSUME TypeOK, HistoryExact, NEW id \in RunIds, NEW status \in Statuses, NEW at \in Times,
         complete_run(id, status, at), NEW other \in RunIds
  PROVE  Exact(other)'
  <1>1. Exact(other) /\ events' = events
    BY DEF HistoryExact, Exact, complete_run
  <1>2. CASE other # id
    BY <1>1, <1>2 DEF complete_run, AfterComplete, TypeOK, Exists, Exact
  <1>3. CASE other = id
    <2>1. runs[id] \in Run
      BY DEF TypeOK, complete_run, CanComplete, Exists
    <2>2. runs'[id] = [runs[id] EXCEPT !.status = status, !.completedAt = at]
      BY DEF complete_run, AfterComplete, TypeOK
    <2>3. runs'[id].eventCount = runs[id].eventCount /\ "kind" \in DOMAIN runs'[id]
      BY <2>1, <2>2 DEF Run
    <2>4. runs[id] # NoRun /\ runs'[id] # NoRun
      BY <2>1, <2>3, NoRunIsNoRun DEF NoRun
    <2> QED
      BY <1>1, <1>3, <2>3, <2>4 DEF Exists, Exact
  <1> QED
    BY <1>2, <1>3

LEMMA DeleteExact ==
  ASSUME TypeOK, HistoryExact, NEW id \in RunIds, delete_run(id), NEW other \in RunIds
  PROVE  Exact(other)'
  <1>1. Exact(other)
    BY DEF HistoryExact, Exact
  <1>2. CASE other # id
    BY <1>1, <1>2 DEF delete_run, RunsAfterDelete, EventsAfterDelete, TypeOK, Exists, Exact
  <1>3. CASE other = id
    BY <1>3 DEF delete_run, RunsAfterDelete, EventsAfterDelete, TypeOK, Exists, Exact
  <1> QED
    BY <1>2, <1>3

\* event_count is the number of stored envelopes, they are numbered without
\* gap and belong to their run, and a missing run has none left: append,
\* delete and a later re-creation of the same id agree.
THEOREM HistoryCorrect == Spec => []HistoryExact
  <1>1. Init => HistoryExact
    BY DEF Init, HistoryExact, Exists
  <1>2. TypeOK /\ HistoryExact /\ [Next]_vars => HistoryExact'
    <2> SUFFICES ASSUME TypeOK, HistoryExact, [Next]_vars, NEW other \in RunIds
                 PROVE  Exact(other)'
      BY DEF HistoryExact, Exact
    <2>1. CASE \E id \in RunIds, run \in Run : create_run(id, run)
      BY <2>1, CreateExact
    <2>2. CASE \E batch \in Batches : append_events(batch)
      BY <2>2, AppendExact
    <2>3. CASE \E id \in RunIds, status \in Statuses, at \in Times :
                  complete_run(id, status, at)
      BY <2>3, CompleteExact
    <2>4. CASE \E id \in RunIds : delete_run(id)
      BY <2>4, DeleteExact
    <2>5. CASE UNCHANGED vars
      BY <2>5 DEF HistoryExact, Exact, Exists, vars
    <2> QED
      BY <2>1, <2>2, <2>3, <2>4, <2>5 DEF Next
  <1> QED
    BY <1>1, <1>2, StoreTypeCorrect, PTL DEF Spec
-----------------------------------------------------------------------------
\* Reading in pages.  First the order of the history: a set of runs has one
\* list, newest first, in which every run stands at its rank.
RunsFold == INSTANCE FoldInduction WITH Op <- NextRuns
EventsFold == INSTANCE FoldInduction WITH Op <- NextEvents

\* Runs R that have a start time for each number in S.
Dated(R, S) == IsFiniteSet(S) /\ S \subseteq Nat /\ \A id \in S : R[id].startedAt \in Nat
\* The list p of the ids in S, newest first.
Sorted(R, S, p) ==
    /\ p \in [1..Cardinality(S) -> S]
    /\ \A i, j \in 1..Cardinality(S) : i < j => Older(R, p[j], p[i])
Newer(R, S, id) == {x \in S : Older(R, id, x)}
Rank(R, S, id) == Cardinality(Newer(R, S, id)) + 1
-----------------------------------------------------------------------------
LEMMA UpTo ==
  ASSUME NEW n \in Nat
  PROVE  IsFiniteSet(1..n) /\ Cardinality(1..n) = n
  <1>1. 1 \in Int /\ n \in Int /\ ((IF 1 > n THEN 0 ELSE n - 1 + 1) = n)
    OBVIOUS
  <1> QED
    BY <1>1, FS_Interval

\* What is numbered from 1 to n without repetition are n.
LEMMA Counted ==
  ASSUME NEW n \in Nat, NEW f, \A i, j \in 1..n : f[i] = f[j] => i = j
  PROVE  /\ IsFiniteSet({f[i] : i \in 1..n})
         /\ Cardinality({f[i] : i \in 1..n}) = n
  <1> DEFINE T == {f[i] : i \in 1..n}
             g == [i \in 1..n |-> f[i]]
  <1>1. g \in Surjection(1..n, T)
    BY DEF Surjection
  <1>2. g \in Injection(1..n, T)
    BY DEF Injection, IsInjective
  <1> HIDE DEF T, g
  <1>3. IsFiniteSet(T) /\ Cardinality(T) = n
    BY <1>1, <1>2, UpTo, FS_Surjection
  <1> QED
    BY <1>3 DEF T

\* started_at DESC, run_id DESC is a total order.
LEMMA TotalOrder ==
  ASSUME NEW R, NEW S, Dated(R, S)
  PROVE  /\ \A x \in S : ~Older(R, x, x)
         /\ \A x, y \in S : x # y => Older(R, x, y) \/ Older(R, y, x)
         /\ \A x, y, z \in S : Older(R, x, y) /\ Older(R, y, z) => Older(R, x, z)
  <1>1. \A x \in S : x \in Nat /\ R[x].startedAt \in Nat
    BY DEF Dated
  <1> QED
    BY <1>1 DEF Older

LEMMA RankFalls ==
  ASSUME NEW R, NEW S, Dated(R, S), NEW x \in S, NEW y \in S, Older(R, x, y)
  PROVE  Rank(R, S, y) < Rank(R, S, x)
  <1> DEFINE X == Newer(R, S, x)
             Y == Newer(R, S, y)
  <1>1. y \in X /\ y \notin Y /\ Y \subseteq X
    BY TotalOrder DEF Newer
  <1>2. IsFiniteSet(S) /\ X \in SUBSET S
    BY DEF Dated, Newer
  <1> HIDE DEF X, Y
  <1>3. IsFiniteSet(X) /\ Cardinality(X) \in Nat
    BY <1>2, FS_Subset, FS_CardinalityType
  <1>4. IsFiniteSet(X \ {y}) /\ Cardinality(X \ {y}) = Cardinality(X) - 1
    BY <1>1, <1>3, FS_RemoveElement
  <1>5. Y \in SUBSET (X \ {y})
    BY <1>1
  <1>6. IsFiniteSet(Y) /\ Cardinality(Y) <= Cardinality(X) - 1
    BY <1>4, <1>5, FS_Subset
  <1>7. Cardinality(Y) \in Nat
    BY <1>6, FS_CardinalityType
  <1> QED
    BY <1>3, <1>6, <1>7 DEF Rank, X, Y

LEMMA RankInjective ==
  ASSUME NEW R, NEW S, Dated(R, S), NEW x \in S, NEW y \in S, Rank(R, S, x) = Rank(R, S, y)
  PROVE  x = y
  <1>1. \A a, b \in S : Older(R, a, b) => Rank(R, S, b) < Rank(R, S, a)
    BY RankFalls
  <1>2. \A a \in S : Rank(R, S, a) \in Int
    <2> SUFFICES ASSUME NEW a \in S PROVE Rank(R, S, a) \in Int
      OBVIOUS
    <2>1. IsFiniteSet(S) /\ Newer(R, S, a) \in SUBSET S
      BY DEF Dated, Newer
    <2>2. Cardinality(Newer(R, S, a)) \in Nat
      BY <2>1, FS_Subset, FS_CardinalityType
    <2> QED
      BY <2>2 DEF Rank
  <1>3. ~(x # y)
    BY <1>1, <1>2, TotalOrder
  <1> QED
    BY <1>3

LEMMA RankBounds ==
  ASSUME NEW R, NEW S, Dated(R, S), NEW x \in S
  PROVE  Rank(R, S, x) \in 1..Cardinality(S)
  <1>1. IsFiniteSet(S) /\ Newer(R, S, x) \in SUBSET (S \ {x})
    BY TotalOrder DEF Dated, Newer
  <1>2. /\ IsFiniteSet(S \ {x}) /\ Cardinality(S \ {x}) = Cardinality(S) - 1
        /\ Cardinality(S) \in Nat
    BY <1>1, FS_RemoveElement, FS_CardinalityType
  <1>3. /\ IsFiniteSet(Newer(R, S, x))
        /\ Cardinality(Newer(R, S, x)) <= Cardinality(S) - 1
    BY <1>1, <1>2, FS_Subset
  <1>4. Cardinality(Newer(R, S, x)) \in Nat
    BY <1>3, FS_CardinalityType
  <1> QED
    BY <1>2, <1>3, <1>4 DEF Rank

\* Every rank is somebody's: there is a list, newest first.
LEMMA SortedExists ==
  ASSUME NEW R, NEW S, Dated(R, S)
  PROVE  \E p : Sorted(R, S, p)
  <1> DEFINE n == Cardinality(S)
             f == [x \in S |-> Rank(R, S, x)]
             p == [i \in 1..n |-> CHOOSE x \in S : Rank(R, S, x) = i]
  <1>1. n \in Nat /\ IsFiniteSet(S)
    BY FS_CardinalityType DEF Dated
  <1>2. f \in Injection(S, 1..n)
    <2>1. f \in [S -> 1..n]
      BY RankBounds
    <2>2. \A x, y \in S : f[x] = f[y] => x = y
      BY RankInjective
    <2> QED
      BY <2>1, <2>2 DEF Injection, IsInjective
  <1>3. f \in Surjection(S, 1..n)
    <2> HIDE DEF f, n
    <2>1. IsFiniteSet(1..n) /\ Cardinality(1..n) = n
      BY <1>1, UpTo
    <2>2. Cardinality(S) = Cardinality(1..n)
      BY <2>1 DEF n
    <2> QED
      BY <1>2, <2>1, <2>2, FS_Injection
  <1>4. \A i \in 1..n : \E x \in S : Rank(R, S, x) = i
    BY <1>3 DEF Surjection
  <1>5. \A i \in 1..n : p[i] \in S /\ Rank(R, S, p[i]) = i
    BY <1>4
  <1>6. p = [i \in 1..n |-> p[i]]
    OBVIOUS
  <1> HIDE DEF p, n, f
  <1>7. ASSUME NEW i \in 1..n, NEW j \in 1..n, i < j PROVE Older(R, p[j], p[i])
    <2>1. p[i] \in S /\ p[j] \in S /\ Rank(R, S, p[i]) = i /\ Rank(R, S, p[j]) = j
      BY <1>5
    <2>2. p[i] # p[j]
      BY <1>7, <2>1
    <2>3. ~Older(R, p[i], p[j])
      <3>1. Older(R, p[i], p[j]) => j < i
        BY <2>1, RankFalls
      <3> QED
        BY <1>1, <1>7, <3>1
    <2> QED
      BY <2>1, <2>2, <2>3, TotalOrder
  <1>8. p \in [1..n -> S]
    BY <1>5, <1>6
  <1> QED
    BY <1>7, <1>8 DEF Sorted, n

\* The list holds every id once, the i-th newest at place i: there is only one.
LEMMA SortedRanks ==
  ASSUME NEW R, NEW S, Dated(R, S), NEW p, Sorted(R, S, p), NEW k \in 1..Cardinality(S)
  PROVE  /\ Rank(R, S, p[k]) = k /\ p[k] \in S
         /\ S = {p[i] : i \in 1..Cardinality(S)}
         /\ \A i, j \in 1..Cardinality(S) : p[i] = p[j] => i = j
  <1> DEFINE n == Cardinality(S)
             T(m) == {p[i] : i \in 1..m}
  <1>1. n \in Nat /\ IsFiniteSet(S)
    BY FS_CardinalityType DEF Dated
  <1>2. /\ \A i \in 1..n : p[i] \in S
        /\ \A i, j \in 1..n : i < j => Older(R, p[j], p[i])
    BY DEF Sorted
  <1> HIDE DEF n
  <1>3. \A i, j \in 1..n : p[i] = p[j] => i = j
    <2> SUFFICES ASSUME NEW i \in 1..n, NEW j \in 1..n, p[i] = p[j] PROVE i = j
      OBVIOUS
    <2>1. ~(i < j) /\ ~(j < i)
      BY <1>2, TotalOrder
    <2> QED
      BY <1>1, <2>1
  <1>9. ASSUME NEW m \in 0..n PROVE IsFiniteSet(T(m)) /\ Cardinality(T(m)) = m
    <2>1. m \in Nat /\ \A i \in 1..m : i \in 1..n
      BY <1>1
    <2>2. \A i, j \in 1..m : p[i] = p[j] => i = j
      BY <1>3, <2>1
    <2>3. IsFiniteSet({p[i] : i \in 1..m}) /\ Cardinality({p[i] : i \in 1..m}) = m
      <3> HIDE DEF T
      <3> QED
        BY <2>1, <2>2, Counted
    <2> QED
      BY <2>3
  <1>4. S = T(n)
    <2>1. IsFiniteSet(T(n)) /\ Cardinality(T(n)) = n
      BY <1>1, <1>9
    <2>2. T(n) \in SUBSET S
      BY <1>2
    <2> QED
      BY <1>1, <2>1, <2>2, FS_Subset DEF n
  <1>5. k \in 1..n
    BY DEF n
  <1>6. Newer(R, S, p[k]) = T(k - 1)
    <2>1. \A i \in 1..n : Older(R, p[k], p[i]) <=> i < k
      <3> SUFFICES ASSUME NEW i \in 1..n PROVE Older(R, p[k], p[i]) <=> i < k
        OBVIOUS
      <3>1. i < k => Older(R, p[k], p[i])
        BY <1>2, <1>5
      <3>2. k < i => Older(R, p[i], p[k])
        BY <1>2, <1>5
      <3>3. ~(Older(R, p[i], p[k]) /\ Older(R, p[k], p[i])) /\ ~Older(R, p[k], p[k])
        BY <1>2, <1>5, TotalOrder
      <3> QED
        BY <1>1, <1>5, <3>1, <3>2, <3>3
    <2>2. \A i : i \in 1..(k - 1) <=> i \in 1..n /\ i < k
      BY <1>1, <1>5
    <2>3. \A x : x \in T(k - 1) <=> x \in S /\ Older(R, p[k], x)
      BY <1>4, <2>1, <2>2
    <2> QED
      BY <2>3 DEF Newer
  <1>7. Cardinality(T(k - 1)) = k - 1
    <2>1. k - 1 \in 0..n
      BY <1>1, <1>5
    <2> QED
      BY <1>9, <2>1
  <1>8. Rank(R, S, p[k]) = k
    BY <1>5, <1>6, <1>7 DEF Rank
  <1> QED
    BY <1>2, <1>3, <1>4, <1>5, <1>8 DEF n

LEMMA SortedOnce ==
  ASSUME NEW R, NEW S, Dated(R, S), NEW p, Sorted(R, S, p), NEW q, Sorted(R, S, q)
  PROVE  p = q
  <1>1. ASSUME NEW i \in 1..Cardinality(S) PROVE p[i] = q[i]
    <2>1. /\ Rank(R, S, p[i]) = i /\ p[i] \in S
          /\ Rank(R, S, q[i]) = i /\ q[i] \in S
      BY SortedRanks
    <2> QED
      BY <2>1, RankInjective
  <1> DEFINE D == 1..Cardinality(S)
  <1>2. p \in [D -> S] /\ q \in [D -> S] /\ \A i \in D : p[i] = q[i]
    BY <1>1 DEF Sorted
  <1> HIDE DEF D
  <1> QED
    BY <1>2

LEMMA NewestFirstSorted ==
  ASSUME NEW R, NEW S, Dated(R, S)
  PROVE  Sorted(R, S, NewestFirst(R, S))
  <1>1. PICK p : Sorted(R, S, p)
    BY SortedExists
  <1>2. \A q \in [1..Cardinality(S) -> S] : DOMAIN q = 1..Cardinality(S)
    OBVIOUS
  <1>3. \E q \in [1..Cardinality(S) -> S] :
            \A i, j \in DOMAIN q : i < j => Older(R, q[j], q[i])
    BY <1>1, <1>2 DEF Sorted
  <1> QED
    BY <1>2, <1>3 DEF NewestFirst, Sorted
-----------------------------------------------------------------------------
\* Then the pages: what a client was shown, and what is left behind it.
\* The first k elements of f, and the page of m elements behind them.
Shown(f, k) == [i \in 1..k |-> f[i]]
Behind(f, k, m) == [i \in 1..m |-> f[k + i]]
PageSize(n, k, limit) == IF n - k < limit THEN n - k ELSE limit

LEMMA ListOf ==
  ASSUME NEW n \in Nat, NEW f, NEW s, s = [i \in 1..n |-> f[i]]
  PROVE  /\ s \in Seq({f[i] : i \in 1..n}) /\ Len(s) = n
         /\ DOMAIN s = 1..n /\ \A i \in 1..n : s[i] = f[i]
  <1>1. s \in [1..n -> {f[i] : i \in 1..n}]
    OBVIOUS
  <1> QED
    BY <1>1

LEMMA FirstOf ==
  ASSUME NEW n \in Nat, NEW f, NEW m \in 0..n
  PROVE  SubSeq([i \in 1..n |-> f[i]], 1, m) = [i \in 1..m |-> f[i]]
  <1> DEFINE s == [i \in 1..n |-> f[i]]
             C == {f[i] : i \in 1..n}
  <1>1. s \in Seq(C) /\ Len(s) = n /\ \A i \in 1..n : s[i] = f[i]
    BY ListOf
  <1> HIDE DEF s, C
  <1>2. SubSeq(s, 1, m) = [i \in 1..m |-> s[i]]
    BY <1>1
  <1>3. \A i \in 1..m : s[i] = f[i]
    BY <1>1
  <1> QED
    BY <1>2, <1>3 DEF s

LEMMA PageJoins ==
  ASSUME NEW f, NEW k \in Nat, NEW m \in Nat
  PROVE  Shown(f, k) \o Behind(f, k, m) = Shown(f, k + m)
  <1> DEFINE g == [i \in 1..m |-> f[k + i]]
             s == Shown(f, k)
             t == Behind(f, k, m)
             C == {f[i] : i \in 1..(k + m)}
  <1>1. s \in Seq(C) /\ Len(s) = k /\ \A i \in 1..k : s[i] = f[i]
    <2>1. s \in [1..k -> C]
      BY DEF Shown
    <2>2. \A i \in 1..k : s[i] = f[i]
      BY DEF Shown
    <2> HIDE DEF s, C
    <2> QED
      BY <2>1, <2>2
  <1>2. t \in Seq(C) /\ Len(t) = m /\ \A i \in 1..m : t[i] = f[k + i]
    <2>1. t \in [1..m -> C]
      BY DEF Behind
    <2>2. \A i \in 1..m : t[i] = f[k + i]
      BY DEF Behind
    <2> HIDE DEF t, C
    <2> QED
      BY <2>1, <2>2
  <1> HIDE DEF s, t, C
  <1> DEFINE u == s \o t
  <1>3. u \in Seq(C) /\ Len(u) = k + m
    BY <1>1, <1>2
  <1>4. ASSUME NEW i \in 1..(k + m) PROVE u[i] = f[i]
    <2>1. CASE i <= k
      <3>1. i \in 1..k /\ u[i] = s[i]
        BY <1>1, <1>2, <2>1
      <3> QED
        BY <1>1, <3>1
    <2>2. CASE i > k
      <3>1. i - k \in 1..m /\ u[i] = t[i - k] /\ k + (i - k) = i
        BY <1>1, <1>2, <2>2
      <3>2. \A j \in 1..m : t[j] = f[k + j]
        BY <1>2
      <3>3. t[i - k] = f[k + (i - k)]
        BY <3>1, <3>2
      <3>4. u[i] = f[k + (i - k)]
        BY <3>1, <3>3
      <3> QED
        BY <3>1, <3>4, Zenon
    <2>3. i <= k \/ i > k
      OBVIOUS
    <2> QED
      BY <2>1, <2>2, <2>3, Zenon
  <1> HIDE DEF u
  <1>5. u = [i \in 1..(k + m) |-> f[i]]
    BY <1>3, <1>4
  <1> QED
    BY <1>5 DEF Shown, s, t, u
-----------------------------------------------------------------------------
\* A client that was shown the first k runs of the list all and may ask for
\* more, and one that was shown all n.
RunsShown(all, k) ==
    [listed |-> Shown(all, k), more |-> TRUE,
     cursor |-> IF k = 0 THEN NoCursor
                ELSE [startedAt |-> runs[all[k]].startedAt, run |-> all[k]]]
RunsDone(all, n) == [listed |-> Shown(all, n), more |-> FALSE, cursor |-> NoCursor]

\* What the client finds next: the matching runs behind its cursor.
Found(matching, all, k) ==
    {id \in matching : Exists(runs, id) /\ OlderThanCursor(runs, id, RunsShown(all, k).cursor)}
Rest(all, k, m) == {Behind(all, k, m)[i] : i \in 1..m}
Matched(matching) == {id \in matching : Exists(runs, id)}

\* The cursor hides the first k runs of the list, and nothing else.
LEMMA CursorHides ==
  ASSUME NEW matching, NEW M, M = Matched(matching), Dated(runs, M),
         NEW all, Sorted(runs, M, all), NEW k \in 0..Cardinality(M)
  PROVE  Found(matching, all, k) = Rest(all, k, Cardinality(M) - k)
  <1> DEFINE n == Cardinality(M)
             cursor == RunsShown(all, k).cursor
             rest == {all[i] : i \in (k + 1)..n}
  <1>1. n \in Nat
    BY FS_CardinalityType DEF Dated
  <1>2. /\ M = {all[i] : i \in 1..n} /\ \A i \in 1..n : all[i] \in M
        /\ \A i, j \in 1..n : i < j => Older(runs, all[j], all[i])
    <2>1. CASE n = 0
      <3>1. M = {}
        BY <2>1, FS_EmptySet DEF Dated
      <3>2. \A i \in 1..n : FALSE
        BY <2>1
      <3> HIDE DEF n
      <3> QED
        BY <3>1, <3>2
    <2>2. CASE n # 0
      <3>1. 1 \in 1..Cardinality(M)
        BY <1>1, <2>2
      <3>2. M = {all[i] : i \in 1..Cardinality(M)}
        BY <3>1, SortedRanks
      <3> QED
        BY <3>2 DEF Sorted
    <2> QED
      BY <2>1, <2>2
  <1>3. k \in 0..n
    OBVIOUS
  <1>4. {Behind(all, k, n - k)[i] : i \in 1..(n - k)} = rest
    <2>1. \A i \in 1..(n - k) : Behind(all, k, n - k)[i] = all[k + i] /\ k + i \in (k + 1)..n
      BY <1>1, <1>3 DEF Behind
    <2>2. \A i \in (k + 1)..n : i - k \in 1..(n - k) /\ k + (i - k) = i
      BY <1>1, <1>3
    <2> HIDE DEF n
    <2> QED
      BY <2>1, <2>2
  <1>5. ASSUME NEW i \in 1..n PROVE OlderThanCursor(runs, all[i], cursor) <=> i > k
    <2>1. CASE k = 0
      BY <1>5, <2>1 DEF OlderThanCursor, RunsShown
    <2>2. CASE k # 0
      <3>1. k \in 1..n
        BY <1>1, <1>3, <2>2
      <3>2. /\ cursor = [startedAt |-> runs[all[k]].startedAt, run |-> all[k]]
            /\ cursor.startedAt = runs[all[k]].startedAt /\ cursor.run = all[k]
        BY <2>2 DEF RunsShown
      <3>3. runs[all[k]].startedAt \in Nat
        BY <1>2, <3>1 DEF Dated
      <3>4. cursor # NoCursor
        BY <3>2, <3>3 DEF NoCursor, NoTime
      <3>5. OlderThanCursor(runs, all[i], cursor) <=> Older(runs, all[i], all[k])
        BY <3>2, <3>4 DEF OlderThanCursor, Older
      <3>6. i > k => Older(runs, all[i], all[k])
        BY <1>2, <1>5, <3>1
      <3>7. i < k => Older(runs, all[k], all[i])
        BY <1>2, <1>5, <3>1
      <3>8. ~Older(runs, all[k], all[k])
            /\ ~(Older(runs, all[i], all[k]) /\ Older(runs, all[k], all[i]))
        BY <1>2, <1>5, <3>1, TotalOrder
      <3>9. i = k \/ i < k \/ i > k
        BY <1>1, <1>5, <3>1
      <3> QED
        BY <1>1, <1>5, <3>1, <3>5, <3>6, <3>7, <3>8, <3>9
    <2> QED
      BY <2>1, <2>2
  <1>6. {id \in M : OlderThanCursor(runs, id, cursor)} = rest
    <2>1. \A i : i \in (k + 1)..n <=> i \in 1..n /\ i > k
      BY <1>1, <1>3
    <2> HIDE DEF n, cursor
    <2> QED
      BY <1>2, <1>5, <2>1
  <1>7. Found(matching, all, k) = {id \in M : OlderThanCursor(runs, id, cursor)}
    BY DEF Found, Matched
  <1> QED
    BY <1>4, <1>6, <1>7 DEF Rest

\* What is left of a sorted list is sorted.
LEMMA RestSorted ==
  ASSUME NEW M, Dated(runs, M), NEW all, Sorted(runs, M, all), NEW k \in 0..Cardinality(M),
         NEW S, NEW m, m = Cardinality(M) - k, S = Rest(all, k, m)
  PROVE  /\ Dated(runs, S) /\ Cardinality(S) = m /\ m \in Nat
         /\ NewestFirst(runs, S) = Behind(all, k, m)
  <1> DEFINE n == Cardinality(M)
             rest == Behind(all, k, m)
  <1>1. n \in Nat /\ m \in Nat /\ \A i \in 1..m : k + i \in 1..n
    BY FS_CardinalityType DEF Dated
  <1>2. \A i \in 1..m : rest[i] = all[k + i]
    BY DEF Behind
  <1>3. /\ \A i \in 1..n : all[i] \in M
        /\ \A i, j \in 1..n : i < j => Older(runs, all[j], all[i])
    BY DEF Sorted
  <1>4. \A i, j \in 1..n : all[i] = all[j] => i = j
    BY SortedRanks
  <1> HIDE DEF n
  <1>5. \A i, j \in 1..m : rest[i] = rest[j] => i = j
    BY <1>1, <1>2, <1>4
  <1>6. \A i, j \in 1..m : i < j => Older(runs, rest[j], rest[i])
    BY <1>1, <1>2, <1>3
  <1>7. rest = [i \in 1..m |-> rest[i]]
    BY DEF Behind
  <1>8. S = {rest[i] : i \in 1..m}
    BY DEF Rest
  <1> HIDE DEF rest
  <1>9. IsFiniteSet(S) /\ Cardinality(S) = m
    <2>1. IsFiniteSet({rest[i] : i \in 1..m}) /\ Cardinality({rest[i] : i \in 1..m}) = m
      BY <1>1, <1>5, Counted
    <2> QED
      BY <1>8, <2>1
  <1>10. S \subseteq M
    BY <1>1, <1>2, <1>3, <1>8
  <1>11. Dated(runs, S)
    BY <1>9, <1>10 DEF Dated
  <1>12. rest \in [1..m -> S]
    BY <1>7, <1>8
  <1>13. Sorted(runs, S, rest)
    BY <1>6, <1>9, <1>12 DEF Sorted
  <1>14. NewestFirst(runs, S) = rest
    BY <1>11, <1>13, NewestFirstSorted, SortedOnce
  <1> QED
    BY <1>1, <1>9, <1>11, <1>14 DEF rest

\* The page behind the first k runs.
LEMMA NextPage ==
  ASSUME NEW matching, NEW M, M = Matched(matching), Dated(runs, M),
         NEW all, Sorted(runs, M, all), NEW k \in 0..Cardinality(M), NEW limit \in Nat \ {0}
  PROVE  LET m == PageSize(Cardinality(M), k, limit)
         IN  NextRuns(RunsShown(all, k), [matching |-> matching, limit |-> limit])
                 = IF m = limit THEN RunsShown(all, k + m) ELSE RunsDone(all, k + m)
  <1> DEFINE n == Cardinality(M)
             m == PageSize(n, k, limit)
             found == Found(matching, all, k)
             page == ListRuns(runs, matching, RunsShown(all, k).cursor, limit)
  <1>1. n \in Nat
    BY FS_CardinalityType DEF Dated
  <1>2. n - k \in Nat /\ NewestFirst(runs, found) = Behind(all, k, n - k)
    <2> DEFINE left == n - k
    <2>1. left = Cardinality(M) - k /\ found = Rest(all, k, left)
      BY CursorHides
    <2> HIDE DEF left, found, m, page, n
    <2>2. left \in Nat /\ NewestFirst(runs, found) = Behind(all, k, left)
      BY <2>1, RestSorted
    <2> QED
      BY <2>2 DEF left
  <1>3. m \in 0..(n - k)
    BY <1>1, <1>2 DEF PageSize
  <1>4. page = Behind(all, k, m)
    <2> DEFINE g == [i \in 1..(n - k) |-> all[k + i]]
    <2>1. Behind(all, k, n - k) = [i \in 1..(n - k) |-> g[i]]
      BY DEF Behind
    <2>2. Len(Behind(all, k, n - k)) = n - k
      BY <1>2, <2>1, ListOf
    <2>3. page = SubSeq(Behind(all, k, n - k), 1, m)
      BY <1>2, <2>2 DEF ListRuns, PageSize, Found
    <2>4. page = [i \in 1..m |-> g[i]]
      <3> DEFINE left == n - k
                 h == [i \in 1..left |-> g[i]]
      <3>1. page = SubSeq(h, 1, m) /\ left \in Nat /\ m \in 0..left
        BY <1>2, <1>3, <2>1, <2>3
      <3> HIDE DEF g, m, page, left
      <3> QED
        BY <3>1, FirstOf
    <2>5. \A i \in 1..m : g[i] = all[k + i]
      BY <1>1, <1>2, <1>3
    <2> HIDE DEF g, page, m, n
    <2> QED
      BY <2>4, <2>5 DEF Behind
  <1>5. Len(page) = m /\ \A i \in 1..m : page[i] = all[k + i]
    <2> DEFINE g == [i \in 1..m |-> all[k + i]]
    <2>1. page = [i \in 1..m |-> g[i]] /\ \A i \in 1..m : g[i] = all[k + i]
      BY <1>4 DEF Behind
    <2> HIDE DEF g, page
    <2>2. m \in Nat
      BY <1>2, <1>3
    <2> HIDE DEF m
    <2> QED
      BY <2>1, <2>2, ListOf
  <1> HIDE DEF page, m, n
  <1>6. NextRuns(RunsShown(all, k), [matching |-> matching, limit |-> limit])
            = [listed |-> RunsShown(all, k).listed \o page, more |-> (Len(page) = limit),
               cursor |-> IF Len(page) = limit THEN CursorAfter(runs, page) ELSE NoCursor]
    BY DEF NextRuns, page, RunsShown
  <1>7. k \in Nat /\ m \in Nat /\ RunsShown(all, k).listed \o page = Shown(all, k + m)
    <2>1. k \in Nat /\ m \in Nat
      BY <1>1, <1>2, <1>3
    <2> QED
      BY <1>4, <2>1, PageJoins DEF RunsShown
  <1>8. CASE m # limit
    <2>1. Len(page) # limit
      BY <1>5, <1>8
    <2>2. NextRuns(RunsShown(all, k), [matching |-> matching, limit |-> limit]) = RunsDone(all, k + m)
      BY <1>6, <1>7, <2>1 DEF RunsDone
    <2> QED
      BY <1>8, <2>2 DEF m, n
  <1>9. CASE m = limit
    <2>1. m \in 1..m /\ k + m # 0
      BY <1>7, <1>9
    <2>2. Len(page) = limit
      BY <1>5, <1>9
    <2>3. CursorAfter(runs, page) = [startedAt |-> runs[all[k + m]].startedAt, run |-> all[k + m]]
      BY <1>5, <2>1 DEF CursorAfter
    <2>4. NextRuns(RunsShown(all, k), [matching |-> matching, limit |-> limit])
              = [listed |-> Shown(all, k + m), more |-> TRUE,
                 cursor |-> [startedAt |-> runs[all[k + m]].startedAt, run |-> all[k + m]]]
      BY <1>6, <1>7, <2>2, <2>3
    <2>5. NextRuns(RunsShown(all, k), [matching |-> matching, limit |-> limit]) = RunsShown(all, k + m)
      BY <2>1, <2>4 DEF RunsShown
    <2> QED
      BY <1>9, <2>5 DEF m, n
  <1> QED
    BY <1>8, <1>9 DEF m, n

\* Page after page, the client is shown all there is.
LEMMA RunsReadAll ==
  ASSUME Dated(runs, Existing), NEW matching \in SUBSET RunIds, NEW limit \in Nat \ {0}
  PROVE  RunsRead(matching, limit) = NewestFirst(runs, matching \cap Existing)
  <1> DEFINE M == Matched(matching)
             n == Cardinality(M)
             e == Cardinality(Existing)
             all == NewestFirst(runs, M)
             query == [matching |-> matching, limit |-> limit]
             s == [i \in 1..e |-> query]
             S == [j \in 0..e |-> {RunsDone(all, n)} \cup
                                  {RunsShown(all, k) : k \in {i \in 0..n : i >= j \/ i = n}}]
             base == [listed |-> <<>>, more |-> TRUE, cursor |-> NoCursor]
  <1>1. M = matching \cap Existing /\ M \in SUBSET Existing
    BY DEF Matched, Existing
  <1>2. Dated(runs, M) /\ n \in Nat /\ e \in Nat /\ n <= e
    <2>1. IsFiniteSet(M) /\ n <= e
      BY <1>1, FS_Subset DEF Dated
    <2>2. Dated(runs, M)
      BY <1>1, <2>1 DEF Dated
    <2> QED
      BY <2>1, <2>2, FS_CardinalityType DEF Dated
  <1>3. Sorted(runs, M, all)
    BY <1>2, NewestFirstSorted
  <1> HIDE DEF M, all, n, e
  <1>4. base = RunsShown(all, 0)
    BY DEF RunsShown, Shown
  <1>5. base \in S[0]
    <2>1. 0 \in 0..e /\ 0 \in {i \in 0..n : i >= 0 \/ i = n}
      BY <1>2
    <2> QED
      BY <1>4, <2>1
  <1>6. ASSUME NEW j \in 1..e, NEW x \in S[j - 1] PROVE NextRuns(x, s[j]) \in S[j]
    <2>1. j \in 0..e /\ j - 1 \in 0..e /\ s[j] = query
      BY <1>2
    <2>2. CASE x = RunsDone(all, n)
      <3>1. NextRuns(x, query) = x
        BY <2>2 DEF NextRuns, RunsDone
      <3> QED
        BY <2>1, <2>2, <3>1
    <2>3. ASSUME NEW k \in 0..n, k >= j - 1 \/ k = n, x = RunsShown(all, k)
          PROVE  NextRuns(x, query) \in S[j]
      <3> DEFINE m == PageSize(n, k, limit)
      <3>1. NextRuns(x, query) = IF m = limit THEN RunsShown(all, k + m) ELSE RunsDone(all, k + m)
        BY <1>2, <1>3, <2>3, NextPage DEF M, n
      <3>2. k + m \in 0..n /\ (m = limit => (k + m >= j \/ k + m = n)) /\ (m # limit => k + m = n)
        BY <1>2, <2>1, <2>3 DEF PageSize
      <3> HIDE DEF m
      <3> QED
        BY <2>1, <3>1, <3>2
    <2>4. \/ x = RunsDone(all, n)
          \/ \E k \in 0..n : (k >= j - 1 \/ k = n) /\ x = RunsShown(all, k)
      BY <1>6, <2>1
    <2> HIDE DEF S
    <2> QED
      BY <2>1, <2>2, <2>3, <2>4
  <1> HIDE DEF S, s, base
  <1>7. RunsFold!Folded(base, s, e) \in S[e]
    BY <1>2, <1>5, <1>6, RunsFold!FoldReaches
  <1>8. RunsFold!Folded(base, s, e) \in {RunsShown(all, n), RunsDone(all, n)}
    <2>1. \A k \in 0..n : k >= e \/ k = n => k = n
      BY <1>2
    <2> QED
      BY <1>2, <1>7, <2>1 DEF S
  <1>9. FoldLeft(NextRuns, base, s) = RunsFold!Folded(base, s, e)
    <2>1. e \in Nat /\ DOMAIN s = 1..e
      BY <1>2 DEF s
    <2> QED
      BY <2>1 DEF FoldLeft, MapThenFoldSet, Max, RunsFold!Folded, RunsFold!Iterates, RunsFold!Max
  <1>10. RunsShown(all, n).listed = all /\ RunsDone(all, n).listed = all
    <2>1. all \in [1..n -> M]
      BY <1>3 DEF Sorted, n
    <2> QED
      BY <2>1 DEF RunsShown, RunsDone, Shown
  <1>11. RunsRead(matching, limit) = FoldLeft(NextRuns, base, s).listed
    BY DEF RunsRead, base, s, e
  <1> QED
    BY <1>1, <1>8, <1>9, <1>10, <1>11 DEF all
-----------------------------------------------------------------------------
Numbered(h) == DOMAIN h = 1..Len(h) /\ Len(h) \in Nat /\ \A i \in 1..Len(h) : h[i].sequence = i

\* The events behind the first k, numbered without gaps.
LEMMA LoadsBehind ==
  ASSUME NEW id, Numbered(events[id]), NEW k \in 0..Len(events[id]), NEW limit \in Nat \ {0}
  PROVE  LoadEvents(events, id, k, limit)
             = Behind(events[id], k, PageSize(Len(events[id]), k, limit))
  <1> DEFINE h == events[id]
             L == Len(h)
             later == {i \in DOMAIN h : h[i].sequence > k}
             card == Cardinality(later)
             size == IF card < limit THEN card ELSE limit
             place(i) == CHOOSE j \in later : Cardinality({x \in later : x <= j}) = i
             m == PageSize(L, k, limit)
  <1>1. L \in Nat /\ DOMAIN h = 1..L /\ \A i \in 1..L : h[i].sequence = i
    BY DEF Numbered
  <1>2. later = (k + 1)..L
    BY <1>1
  <1>3. LoadEvents(events, id, k, limit) = [i \in 1..size |-> h[place(i)]]
    BY DEF LoadEvents
  <1>4. k \in 0..L
    OBVIOUS
  <1> HIDE DEF h, later, L
  <1>5. ASSUME NEW i \in k..L PROVE Cardinality((k + 1)..i) = i - k
    <2>1. k + 1 \in Int /\ i \in Int /\ (IF k + 1 > i THEN 0 ELSE i - (k + 1) + 1) = i - k
      BY <1>1, <1>4
    <2> HIDE DEF card
    <2> QED
      BY <2>1, FS_Interval
  <1>6. card = L - k /\ size = m
    <2>1. L \in k..L
      BY <1>1, <1>4
    <2>2. card = L - k
      BY <1>2, <1>5, <2>1
    <2> QED
      BY <2>2 DEF PageSize
  <1>7. ASSUME NEW i \in 1..m PROVE place(i) = k + i
    <2>1. k + i \in later /\ m <= L - k
      BY <1>1, <1>2, <1>4 DEF PageSize
    <2>2. ASSUME NEW j \in later PROVE Cardinality({x \in later : x <= j}) = j - k
      <3>1. {x \in later : x <= j} = (k + 1)..j /\ j \in k..L
        BY <1>1, <1>2, <1>4
      <3> QED
        BY <1>5, <3>1
    <2>3. \A j \in later : j - k = i <=> j = k + i
      BY <1>1, <1>2, <1>4
    <2>4. \A j \in later : Cardinality({x \in later : x <= j}) = i <=> j = k + i
      BY <2>2, <2>3
    <2> HIDE DEF m
    <2> QED
      BY <2>1, <2>4
  <1> HIDE DEF place, size, m
  <1>8. LoadEvents(events, id, k, limit) = [i \in 1..m |-> h[k + i]]
    BY <1>3, <1>6, <1>7
  <1> QED
    BY <1>8 DEF Behind, m, L, h

EventsShown(h, k) == [replayed |-> Shown(h, k), after |-> k]

LEMMA NextEventsPage ==
  ASSUME NEW id, Numbered(events[id]), NEW k \in 0..Len(events[id]), NEW limit \in Nat \ {0}
  PROVE  NextEvents(EventsShown(events[id], k), [run |-> id, limit |-> limit])
             = EventsShown(events[id], k + PageSize(Len(events[id]), k, limit))
  <1> DEFINE h == events[id]
             L == Len(h)
             m == PageSize(L, k, limit)
             page == LoadEvents(events, id, k, limit)
  <1>1. L \in Nat /\ k \in 0..L /\ \A i \in 1..L : h[i].sequence = i
    BY DEF Numbered
  <1>2. page = Behind(h, k, m)
    BY LoadsBehind
  <1>3. m \in Nat /\ m <= L - k /\ k \in Nat
    BY <1>1 DEF PageSize
  <1>4. Len(page) = m /\ \A i \in 1..m : page[i] = h[k + i]
    <2> DEFINE g == [i \in 1..m |-> h[k + i]]
    <2>1. page = [i \in 1..m |-> g[i]] /\ \A i \in 1..m : g[i] = h[k + i]
      BY <1>2 DEF Behind
    <2> HIDE DEF g, page, m, h
    <2> QED
      BY <1>3, <2>1, ListOf
  <1>5. NextEvents(EventsShown(h, k), [run |-> id, limit |-> limit])
            = IF page = <<>> THEN EventsShown(h, k)
              ELSE [replayed |-> Shown(h, k) \o page, after |-> page[Len(page)].sequence]
    BY DEF NextEvents, EventsShown
  <1> HIDE DEF h, L, m, page
  <1>6. CASE m = 0
    <2>1. page = <<>> /\ k + m = k
      BY <1>2, <1>3, <1>6 DEF Behind
    <2> QED
      BY <1>5, <2>1 DEF h, L, m
  <1>7. CASE m # 0
    <2>1. m \in 1..m /\ k + m \in 1..L
      BY <1>1, <1>3, <1>7
    <2>2. page # <<>>
      BY <1>4, <1>7
    <2>3. page[Len(page)].sequence = k + m
      BY <1>1, <1>4, <2>1
    <2>4. Shown(h, k) \o page = Shown(h, k + m)
      BY <1>2, <1>3, PageJoins
    <2>5. NextEvents(EventsShown(h, k), [run |-> id, limit |-> limit]) = EventsShown(h, k + m)
      BY <1>5, <2>2, <2>3, <2>4 DEF EventsShown
    <2> QED
      BY <2>5 DEF h, L, m
  <1> QED
    BY <1>6, <1>7

LEMMA EventsReadAll ==
  ASSUME NEW id, Numbered(events[id]), events[id] = [i \in DOMAIN events[id] |-> events[id][i]],
         NEW limit \in Nat \ {0}
  PROVE  EventsRead(id, limit) = events[id]
  <1> DEFINE h == events[id]
             n == Len(h)
             query == [run |-> id, limit |-> limit]
             s == [i \in 1..n |-> query]
             S == [j \in 0..n |-> {EventsShown(h, k) : k \in {i \in 0..n : i >= j}}]
             base == [replayed |-> <<>>, after |-> 0]
  <1>1. n \in Nat /\ h = [i \in 1..n |-> h[i]]
    BY DEF Numbered
  <1>2. base = EventsShown(h, 0)
    BY DEF EventsShown, Shown
  <1>3. ASSUME NEW k \in 0..n
        PROVE  NextEvents(EventsShown(h, k), query) = EventsShown(h, k + PageSize(n, k, limit))
    BY NextEventsPage
  <1> HIDE DEF h, n
  <1>4. base \in S[0]
    <2>1. 0 \in 0..n /\ 0 \in {i \in 0..n : i >= 0}
      BY <1>1
    <2> QED
      BY <1>2, <2>1
  <1>5. ASSUME NEW j \in 1..n, NEW x \in S[j - 1] PROVE NextEvents(x, s[j]) \in S[j]
    <2>1. j \in 0..n /\ j - 1 \in 0..n /\ s[j] = query
      BY <1>1
    <2>2. PICK k \in 0..n : k >= j - 1 /\ x = EventsShown(h, k)
      BY <1>5, <2>1
    <2> DEFINE m == PageSize(n, k, limit)
    <2>3. NextEvents(x, query) = EventsShown(h, k + m)
      BY <1>3, <2>2
    <2>4. k + m \in 0..n /\ k + m >= j
      BY <1>1, <2>1, <2>2 DEF PageSize
    <2> HIDE DEF m
    <2> QED
      BY <2>1, <2>3, <2>4
  <1> HIDE DEF S, s, base
  <1>6. EventsFold!Folded(base, s, n) \in S[n]
    BY <1>1, <1>4, <1>5, EventsFold!FoldReaches
  <1>7. EventsFold!Folded(base, s, n) = EventsShown(h, n)
    <2>1. PICK k \in 0..n : k >= n /\ EventsFold!Folded(base, s, n) = EventsShown(h, k)
      BY <1>1, <1>6 DEF S
    <2>2. k = n
      BY <1>1, <2>1
    <2> QED
      BY <2>1, <2>2
  <1>8. FoldLeft(NextEvents, base, s) = EventsFold!Folded(base, s, n)
    <2>1. n \in Nat /\ DOMAIN s = 1..n
      BY <1>1 DEF s
    <2> QED
      BY <2>1 DEF FoldLeft, MapThenFoldSet, Max, EventsFold!Folded, EventsFold!Iterates, EventsFold!Max
  <1>9. EventsShown(h, n).replayed = h
    BY <1>1 DEF EventsShown, Shown
  <1>10. EventsRead(id, limit) = FoldLeft(NextEvents, base, s).replayed
    BY DEF EventsRead, base, s, n, h
  <1> QED
    BY <1>7, <1>8, <1>9, <1>10 DEF h
-----------------------------------------------------------------------------
\* Every call leaves finitely many runs.
FinitelyMany == IsFiniteSet(Existing)
LEMMA StaysFinite == TypeOK /\ FinitelyMany /\ [Next]_vars => FinitelyMany'
  <1> SUFFICES ASSUME TypeOK, FinitelyMany, [Next]_vars PROVE FinitelyMany'
    OBVIOUS
  <1>1. ASSUME NEW id \in RunIds, \A other \in RunIds \ {id} : runs'[other] = runs[other]
        PROVE  IsFiniteSet(Existing')
    <2>1. IsFiniteSet(Existing \cup {id})
      BY FS_AddElement DEF FinitelyMany
    <2>2. Existing' \in SUBSET (Existing \cup {id})
      BY <1>1 DEF Existing, Exists
    <2> QED
      BY <2>1, <2>2, FS_Subset
  <1>2. ASSUME NEW id \in RunIds, NEW run \in Run, create_run(id, run) PROVE FinitelyMany'
    BY <1>1, <1>2 DEF create_run, AfterCreate, TypeOK, FinitelyMany
  <1>3. ASSUME NEW batch \in Batches, append_events(batch) PROVE FinitelyMany'
    <2>1. batch[1].run \in RunIds
      BY <1>3, AcceptedBatch DEF append_events
    <2>2. \A other \in RunIds \ {batch[1].run} : runs'[other] = runs[other]
      BY <1>3, <2>1 DEF append_events, RunsAfterAppend, TypeOK
    <2> QED
      BY <1>1, <2>1, <2>2 DEF FinitelyMany
  <1>4. ASSUME NEW id \in RunIds, NEW status \in Statuses, NEW at \in Times,
               complete_run(id, status, at)
        PROVE  FinitelyMany'
    BY <1>1, <1>4 DEF complete_run, AfterComplete, TypeOK, FinitelyMany
  <1>5. ASSUME NEW id \in RunIds, delete_run(id) PROVE FinitelyMany'
    BY <1>1, <1>5 DEF delete_run, RunsAfterDelete, TypeOK, FinitelyMany
  <1>6. CASE UNCHANGED vars
    BY <1>6 DEF vars, FinitelyMany, Existing, Exists
  <1> QED
    BY <1>2, <1>3, <1>4, <1>5, <1>6 DEF Next

\* Reading the history page by page shows every run a filter lets through
\* once, newest first, and replaying a run page by page its whole history,
\* for every page size: no run that started with the last one of a page is
\* skipped, none is shown twice.
THEOREM PagingCorrect == Spec => []PagingIsExact
  <1>1. Init => FinitelyMany
    <2> SUFFICES ASSUME Init PROVE FinitelyMany
      OBVIOUS
    <2>1. Existing = {}
      BY DEF Init, Existing, Exists
    <2> QED
      BY <2>1, FS_EmptySet DEF FinitelyMany
  <1>2. TypeOK /\ HistoryExact /\ FinitelyMany => PagingIsExact
    <2> SUFFICES ASSUME TypeOK, HistoryExact, FinitelyMany PROVE PagingIsExact
      OBVIOUS
    <2>1. ASSUME NEW limit \in 1..MaxPage PROVE limit \in Nat \ {0}
      BY PagingAssumption
    <2>2. Dated(runs, Existing)
      <3>1. \A id \in Existing : id \in RunIds /\ runs[id] \in Run
        BY DEF Existing, Exists, TypeOK
      <3>2. \A id \in Existing : runs[id].startedAt \in Times
        BY <3>1 DEF Run
      <3> QED
        BY <3>1, <3>2, ContractAssumption DEF FinitelyMany, Dated
    <2>3. ASSUME NEW limit \in 1..MaxPage, NEW matching \in SUBSET RunIds
          PROVE  RunsRead(matching, limit) = NewestFirst(runs, matching \cap Existing)
      BY <2>1, <2>2, RunsReadAll
    <2>4. ASSUME NEW id \in RunIds, NEW limit \in 1..MaxPage
          PROVE  EventsRead(id, limit) = events[id]
      <3>1. events[id] \in Seq(Envelope)
        BY DEF TypeOK
      <3>2. \A i \in DOMAIN events[id] : events[id][i].sequence = i
        BY DEF HistoryExact
      <3> DEFINE h == events[id]
      <3>3. /\ DOMAIN h = 1..Len(h) /\ Len(h) \in Nat
            /\ h = [i \in DOMAIN h |-> h[i]]
        <4>1. h \in Seq(Envelope)
          BY <3>1
        <4> HIDE DEF h
        <4> QED
          BY <4>1
      <3>4. Numbered(events[id])
        BY <3>2, <3>3 DEF Numbered
      <3> QED
        BY <2>1, <3>3, <3>4, EventsReadAll
    <2> QED
      BY <2>3, <2>4 DEF PagingIsExact
  <1> QED
    BY <1>1, <1>2, StaysFinite, StoreTypeCorrect, HistoryCorrect, PTL DEF Spec
=============================================================================
