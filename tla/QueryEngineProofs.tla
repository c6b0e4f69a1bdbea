-------------------------- MODULE QueryEngineProofs --------------------------
(***************************************************************************)
(* For any requests, keys, hierarchies, replies, numbers of reads, index   *)
(* runs and concurrency: requests of one key search one snapshot           *)
(* (CacheInv); what models reply lands where it was asked, in whatever     *)
(* order they reply (SearchInv, from WaveInv and Graphs); dynamic          *)
(* selection returns what its ratings say (SearchInv, from Core, ByLevel   *)
(* and Finished); and the state is well typed (LoadInv).  The folds of the *)
(* model are reasoned about through the instances of FoldInduction.        *)
(***************************************************************************)
EXTENDS QueryEngine, FiniteSetTheorems, TLAPS

-----------------------------------------------------------------------------
\* The cache: one load per key.

\* The parts of the state the cache works with are functions, and whoever is
\* past "Idle" has asked something.
CacheTypes ==
    /\ \E s \in Scenarios : config = s.asks
    /\ DOMAIN config \subseteq Requests
    /\ pc = [r \in Requests |-> pc[r]]
    /\ cell = [k \in Keys |-> cell[k]]
    /\ loader = [k \in Keys |-> loader[k]]
    /\ runtime = [r \in Requests |-> runtime[r]]
    /\ \A r \in Requests : /\ pc[r] # "Idle" => r \in DOMAIN config
                           /\ pc[r] = "Wait" => Cacheable(r)
    /\ \A k \in Keys : loader[k] \in Requests \cup {None}

\* A cell is filled by the holder of its permit, once.
PermitOnlyWhenEmpty == \A k \in Keys : cell[k] # None => loader[k] = None
\* A request has its resources once it stops waiting and loading.
CacheInv == CacheTypes /\ PermitOnlyWhenEmpty /\ OneSnapshotPerKey
-----------------------------------------------------------------------------
LEMMA KeyOfRequest ==
  ASSUME CacheTypes, NEW r \in DOMAIN config
  PROVE  Key(r) \in Keys
  <1>1. PICK s \in Scenarios : config = s.asks
    BY DEF CacheTypes
  <1> QED
    BY <1>1 DEF Key, Keys

LEMMA InitCache == Init => CacheInv
  BY EngineAssumption
  DEF EngineAssumption, Init, CacheInv, CacheTypes, PermitOnlyWhenEmpty, OneSnapshotPerKey

\* Whatever a search does after it has its resources, or before it asks for
\* them, leaves the cache alone.
LEMMA SearchKeeps ==
  ASSUME CacheInv, NEW r \in Requests, NEW there,
         pc[r] # "Idle" \/ r \in DOMAIN config, pc' = [pc EXCEPT ![r] = there],
         there # "Load" \/ ~Cacheable(r), there # "Wait" \/ Cacheable(r), pc[r] # "Load",
         UNCHANGED <<config, cell, loader, runtime>>
  PROVE  CacheInv'
  <1>1. pc'[r] = there /\ \A q \in Requests \ {r} : pc'[q] = pc[q]
    BY DEF CacheInv, CacheTypes
  <1>2. CacheTypes'
    BY <1>1 DEF CacheInv, CacheTypes, Cacheable
  <1>3. OneSnapshotPerKey'
    <2> SUFFICES ASSUME NEW q \in DOMAIN config, NEW k \in Keys
                 PROVE  loader[k] = q <=> (pc'[q] = "Load" /\ Cacheable(q) /\ Key(q) = k)
      BY DEF CacheInv, OneSnapshotPerKey, Cacheable, Key
    <2>1. loader[k] = q <=> (pc[q] = "Load" /\ Cacheable(q) /\ Key(q) = k)
      BY DEF CacheInv, OneSnapshotPerKey
    <2>2. q \in Requests
      BY DEF CacheInv, CacheTypes
    <2> QED
      BY <1>1, <2>1, <2>2
  <1> QED
    BY <1>2, <1>3 DEF CacheInv, PermitOnlyWhenEmpty

\* A clone of an initialized cell.
LEMMA UseCellKeeps ==
  ASSUME CacheInv, NEW r \in Requests, UseCell(r)
  PROVE  CacheInv'
  <1> USE DEF Go
  <1>1. /\ pc' = [pc EXCEPT ![r] = "Prepare"] /\ pc[r] = "Wait" /\ r \in DOMAIN config
        /\ runtime' = [runtime EXCEPT ![r] = cell[Key(r)]]
        /\ UNCHANGED <<config, cell, loader>>
    BY DEF UseCell, CacheInv, CacheTypes
  <1>2. CacheTypes'
    BY <1>1 DEF CacheInv, CacheTypes, Cacheable
  <1>3. OneSnapshotPerKey'
    <2> SUFFICES ASSUME NEW q \in DOMAIN config
                 PROVE  /\ Cacheable(q) /\ runtime'[q] # None => runtime'[q] = cell[Key(q)]
                        /\ \A k \in Keys :
                              loader[k] = q <=> (pc'[q] = "Load" /\ Cacheable(q) /\ Key(q) = k)
      BY <1>1 DEF OneSnapshotPerKey, Cacheable, Key
    <2>1. /\ Cacheable(q) /\ runtime[q] # None => runtime[q] = cell[Key(q)]
          /\ \A k \in Keys : loader[k] = q <=> (pc[q] = "Load" /\ Cacheable(q) /\ Key(q) = k)
      BY DEF CacheInv, OneSnapshotPerKey
    <2>2. q \in Requests
      BY DEF CacheInv, CacheTypes
    <2> QED
      BY <1>1, <2>1, <2>2 DEF CacheInv, CacheTypes
  <1> QED
    BY <1>1, <1>2, <1>3 DEF CacheInv, PermitOnlyWhenEmpty

\* The permit of an empty cell goes to one request.
LEMMA TakePermitKeeps ==
  ASSUME CacheInv, NEW r \in Requests, TakePermit(r)
  PROVE  CacheInv'
  <1>1. /\ pc' = [pc EXCEPT ![r] = "Load"] /\ pc[r] = "Wait" /\ r \in DOMAIN config
        /\ loader' = [loader EXCEPT ![Key(r)] = r]
        /\ cell[Key(r)] = None /\ loader[Key(r)] = None
        /\ UNCHANGED <<config, cell, runtime>>
    BY DEF TakePermit, MayLoad, Go, CacheInv, CacheTypes
  <1>2. Key(r) \in Keys
    BY <1>1, KeyOfRequest DEF CacheInv
  <1>3. CacheTypes'
    BY <1>1, <1>2 DEF CacheInv, CacheTypes, Cacheable
  <1>4. OneSnapshotPerKey'
    <2> SUFFICES ASSUME NEW q \in DOMAIN config, NEW k \in Keys
                 PROVE  loader'[k] = q <=> (pc'[q] = "Load" /\ Cacheable(q) /\ Key(q) = k)
      BY <1>1 DEF CacheInv, OneSnapshotPerKey, Cacheable, Key
    <2>1. loader[k] = q <=> (pc[q] = "Load" /\ Cacheable(q) /\ Key(q) = k)
      BY DEF CacheInv, OneSnapshotPerKey
    <2>2. q \in Requests /\ q # None
      BY EngineAssumption DEF EngineAssumption, CacheInv, CacheTypes
    <2> QED
      BY <1>1, <1>2, <2>1, <2>2 DEF CacheInv, CacheTypes
  <1> QED
    BY <1>1, <1>2, <1>3, <1>4 DEF CacheInv, CacheTypes, PermitOnlyWhenEmpty

\* A request that gives up its load, or never held one, releases its permit.
LEMMA ReleaseKeeps ==
  ASSUME CacheInv, NEW r \in Requests, NEW there, there \notin {"Load", "Wait"},
         pc[r] # "Idle", pc' = [pc EXCEPT ![r] = there], loader' = Released(r),
         UNCHANGED <<config, cell, runtime>>
  PROVE  CacheInv'
  <1>1. pc'[r] = there /\ \A q \in Requests \ {r} : pc'[q] = pc[q]
    BY DEF CacheInv, CacheTypes
  <1>2. \A k \in Keys : loader'[k] = IF loader[k] = r THEN None ELSE loader[k]
    BY DEF Released
  <1>3. CacheTypes'
    BY <1>1, <1>2 DEF CacheInv, CacheTypes, Cacheable, Released
  <1>4. OneSnapshotPerKey'
    <2> SUFFICES ASSUME NEW q \in DOMAIN config, NEW k \in Keys
                 PROVE  loader'[k] = q <=> (pc'[q] = "Load" /\ Cacheable(q) /\ Key(q) = k)
      BY DEF CacheInv, OneSnapshotPerKey, Cacheable, Key
    <2>1. loader[k] = q <=> (pc[q] = "Load" /\ Cacheable(q) /\ Key(q) = k)
      BY DEF CacheInv, OneSnapshotPerKey
    <2>2. q \in Requests /\ q # None
      BY EngineAssumption DEF EngineAssumption, CacheInv, CacheTypes
    <2> QED
      BY <1>1, <1>2, <2>1, <2>2
  <1> QED
    BY <1>2, <1>3, <1>4 DEF CacheInv, PermitOnlyWhenEmpty

\* A load that succeeds fills the cell it held the permit of: nobody has
\* resources of that key yet.
LEMMA LoadedKeeps ==
  ASSUME CacheInv, NEW r \in Requests, Loaded(r)
  PROVE  CacheInv'
  <1>1. /\ pc' = [pc EXCEPT ![r] = "Prepare"] /\ pc[r] = "Load" /\ r \in DOMAIN config
        /\ cell' = IF Cacheable(r) THEN [cell EXCEPT ![Key(r)] = reads[r]] ELSE cell
        /\ runtime' = [runtime EXCEPT ![r] = reads[r]]
        /\ loader' = Released(r) /\ UNCHANGED config
    BY DEF Loaded, Go, CacheInv, CacheTypes
  <1>2. Key(r) \in Keys
    BY <1>1, KeyOfRequest DEF CacheInv
  <1>3. pc'[r] = "Prepare" /\ \A q \in Requests \ {r} : pc'[q] = pc[q]
    BY <1>1 DEF CacheInv, CacheTypes
  <1>4. \A k \in Keys : loader'[k] = IF loader[k] = r THEN None ELSE loader[k]
    BY <1>1 DEF Released
  <1>5. /\ runtime'[r] = reads[r] /\ \A q \in Requests \ {r} : runtime'[q] = runtime[q]
        /\ Cacheable(r) => cell'[Key(r)] = reads[r]
        /\ \A k \in Keys : k # Key(r) \/ ~Cacheable(r) => cell'[k] = cell[k]
    BY <1>1, <1>2 DEF CacheInv, CacheTypes
  <1>6. \A k \in Keys : loader[k] = r <=> Cacheable(r) /\ Key(r) = k
    BY <1>1 DEF CacheInv, OneSnapshotPerKey
  <1>7. r # None
    BY EngineAssumption DEF EngineAssumption
  <1>8. Cacheable(r) => cell[Key(r)] = None
    BY <1>2, <1>6, <1>7 DEF CacheInv, PermitOnlyWhenEmpty
  <1>9. CacheTypes'
    <2>1. loader' = [k \in Keys |-> loader'[k]] /\ cell' = [k \in Keys |-> cell'[k]]
      BY <1>1, <1>2 DEF CacheInv, CacheTypes, Released
    <2>2. /\ pc' = [q \in Requests |-> pc'[q]] /\ runtime' = [q \in Requests |-> runtime'[q]]
      BY <1>1 DEF CacheInv, CacheTypes
    <2> QED
      BY <1>1, <1>3, <1>4, <2>1, <2>2 DEF CacheInv, CacheTypes, Cacheable
  <1>10. PermitOnlyWhenEmpty'
    BY <1>4, <1>5, <1>6, <1>7 DEF CacheInv, PermitOnlyWhenEmpty
  <1>11. OneSnapshotPerKey'
    <2> SUFFICES ASSUME NEW q \in DOMAIN config
                 PROVE  /\ Cacheable(q) /\ runtime'[q] # None => runtime'[q] = cell'[Key(q)]
                        /\ \A k \in Keys :
                              loader'[k] = q <=> (pc'[q] = "Load" /\ Cacheable(q) /\ Key(q) = k)
      BY <1>1 DEF OneSnapshotPerKey, Cacheable, Key
    <2>1. /\ Cacheable(q) /\ runtime[q] # None => runtime[q] = cell[Key(q)]
          /\ \A k \in Keys : loader[k] = q <=> (pc[q] = "Load" /\ Cacheable(q) /\ Key(q) = k)
      BY DEF CacheInv, OneSnapshotPerKey
    <2>2. q \in Requests /\ q # None
      BY EngineAssumption DEF EngineAssumption, CacheInv, CacheTypes
    <2>3. Key(q) \in Keys
      BY KeyOfRequest DEF CacheInv
    <2>4. Cacheable(q) /\ runtime'[q] # None => runtime'[q] = cell'[Key(q)]
      <3>1. CASE q = r
        BY <1>5, <3>1
      <3>2. CASE q # r
        BY <1>5, <1>8, <2>1, <2>2, <2>3, <3>2
      <3> QED
        BY <3>1, <3>2
    <2>5. \A k \in Keys :
              loader'[k] = q <=> (pc'[q] = "Load" /\ Cacheable(q) /\ Key(q) = k)
      BY <1>3, <1>4, <2>1, <2>2
    <2> QED
      BY <2>4, <2>5
  <1> QED
    BY <1>9, <1>10, <1>11 DEF CacheInv

LEMMA NextCache == CacheInv /\ [Next]_vars => CacheInv'
  <1> USE DEF engine, searching, Go, StartWave
  <1>1. SUFFICES ASSUME CacheInv, [Next]_vars PROVE CacheInv'
    OBVIOUS
  <1>2. ASSUME UNCHANGED <<config, pc, cell, loader, runtime>> PROVE CacheInv'
    BY <1>1, <1>2 DEF CacheInv, CacheTypes, PermitOnlyWhenEmpty, OneSnapshotPerKey,
                      Cacheable, Key
  <1>3. CASE Reindex \/ UNCHANGED vars
    BY <1>2, <1>3 DEF Reindex, vars
  <1>4. ASSUME NEW r \in Requests, query(r) PROVE CacheInv'
    BY <1>1, <1>4, SearchKeeps DEF query
  <1>5. ASSUME NEW r \in Requests, key(r) PROVE CacheInv'
    <2>1. CASE Cacheable(r)
      BY <1>1, <1>5, <2>1, SearchKeeps DEF key
    <2>2. CASE ~Cacheable(r)
      BY <1>1, <1>5, <2>2, SearchKeeps DEF key
    <2> QED
      BY <2>1, <2>2
  <1>6. ASSUME NEW r \in Requests, UseCell(r) \/ TakePermit(r) \/ Loaded(r) PROVE CacheInv'
    BY <1>1, <1>6, UseCellKeeps, TakePermitKeeps, LoadedKeeps
  <1>7. ASSUME NEW r \in Requests, Read(r) \/ Reply(r) PROVE CacheInv'
    BY <1>2, <1>7 DEF Read, Reply
  <1>8. ASSUME NEW r \in Requests, LoadFails(r) PROVE CacheInv'
    BY <1>1, <1>8, ReleaseKeeps DEF LoadFails
  <1>9. ASSUME NEW r \in Requests, Stop(r) PROVE CacheInv'
    BY <1>1, <1>9, ReleaseKeeps DEF Stop
  <1>10. ASSUME NEW r \in Requests, NEW there,
                pc[r] \in Waves \cup {"Prepare", "Select", "Handshake", "Context",
                                      "Tokens", "NoData", "Key"},
                there \in Waves \cup {"Select", "Handshake", "Context", "Tokens", "NoData"}
                            \cup Ended,
                pc' = [pc EXCEPT ![r] = there],
                UNCHANGED <<config, cell, loader, runtime>>
         PROVE  CacheInv'
    BY <1>1, <1>10, SearchKeeps DEF Waves, Ended
  <1>11. ASSUME NEW r \in Requests, Fail(r) PROVE CacheInv'
    BY <1>10, <1>11 DEF Fail, Ended
  <1>12. ASSUME NEW r \in Requests, Prepare(r) PROVE CacheInv'
    BY <1>10, <1>12 DEF Prepare, Waves, Ended
  <1>13. ASSUME NEW r \in Requests, CollectPrimer(r) PROVE CacheInv'
    BY <1>10, <1>13 DEF CollectPrimer, Collected, Waves, Ended
  <1>14. ASSUME NEW r \in Requests, SelectActions(r) PROVE CacheInv'
    BY <1>10, <1>14 DEF SelectActions, Waves
  <1>15. ASSUME NEW r \in Requests, CollectDepth(r) \/ CollectMap(r) PROVE CacheInv'
    BY <1>10, <1>15 DEF CollectDepth, CollectMap, Collected, Waves
  <1>16. ASSUME NEW r \in Requests, CollectRatings(r) PROVE CacheInv'
    BY <1>10, <1>16 DEF CollectRatings, Collected, Waves
  <1>17. ASSUME NEW r \in Requests, Deliver(r) PROVE CacheInv'
    BY <1>10, <1>17 DEF Deliver, Ended
  <1> QED
    BY <1>1, <1>3, <1>4, <1>5, <1>6, <1>7, <1>8, <1>9, <1>11, <1>12, <1>13, <1>14, <1>15, <1>16,
       <1>17 DEF Next, Step

\* All requests of one key search with the resources of one load, whatever
\* loads fail or are abandoned and whenever the index is replaced, and only a
\* request that is loading holds the permit of a key.
THEOREM KeysShareOneSnapshot == Spec => []OneSnapshotPerKey
  <1>1. CacheInv => OneSnapshotPerKey
    BY DEF CacheInv
  <1> QED
    BY <1>1, InitCache, NextCache, PTL DEF Spec
-----------------------------------------------------------------------------
\* The waves: the replies are those of different calls.

IsSeq(s) == s \in Seq(Range(s))

\* A wave under way: the replies are those of different calls, and after m of
\* them Concurrency + m calls were polled, or all.
WaveInv(w) ==
    /\ w = [tasks |-> w.tasks, done |-> w.done, started |-> w.started]
    /\ IsSeq(w.tasks) /\ IsSeq(w.done)
    /\ w.started = IF Len(w.tasks) < Concurrency + Len(w.done) THEN Len(w.tasks)
                   ELSE Concurrency + Len(w.done)
    /\ \A i \in 1..Len(w.done) : w.done[i].index \in 1..w.started
    /\ \A i, j \in 1..Len(w.done) : w.done[i].index = w.done[j].index => i = j
\* Every reply is one to the task of its call.
Replied(w, stage) ==
    \A i \in 1..Len(w.done) : w.done[i].reply \in Replies(stage, w.tasks[w.done[i].index])
-----------------------------------------------------------------------------
LEMMA SeqByDomain ==
  ASSUME NEW n \in Nat, NEW s, s = [i \in 1..n |-> s[i]]
  PROVE  IsSeq(s) /\ Len(s) = n
  <1>1. s \in [1..n -> Range(s)]
    BY DEF Range
  <1>2. s \in Seq(Range(s))
    BY <1>1
  <1> QED
    BY <1>1, <1>2 DEF IsSeq

LEMMA SeqIsSeq ==
  ASSUME NEW S, NEW s \in Seq(S)
  PROVE  IsSeq(s) /\ Range(s) \subseteq S
  <1>1. Range(s) \subseteq S
    BY DEF Range
  <1>2. s = [i \in 1..Len(s) |-> s[i]] /\ Len(s) \in Nat
    OBVIOUS
  <1> QED
    BY <1>1, <1>2, SeqByDomain

LEMMA SeqParts ==
  ASSUME NEW s, IsSeq(s)
  PROVE  /\ Len(s) \in Nat /\ DOMAIN s = 1..Len(s) /\ s = [i \in 1..Len(s) |-> s[i]]
         /\ \A i \in 1..Len(s) : s[i] \in Range(s)
         /\ \A x \in Range(s) : \E i \in 1..Len(s) : x = s[i]
  <1>1. Len(s) \in Nat /\ DOMAIN s = 1..Len(s) /\ s = [i \in 1..Len(s) |-> s[i]]
    BY DEF IsSeq
  <1> QED
    BY <1>1 DEF Range

LEMMA AppendIsSeq ==
  ASSUME NEW s, IsSeq(s), NEW x
  PROVE  /\ IsSeq(Append(s, x)) /\ Len(Append(s, x)) = Len(s) + 1
         /\ \A i \in 1..Len(s) : Append(s, x)[i] = s[i]
         /\ Append(s, x)[Len(s) + 1] = x
         /\ Range(Append(s, x)) = Range(s) \cup {x}
  <1> DEFINE S == Range(s) \cup {x}
             a == Append(s, x)
  <1>1. s \in Seq(S)
    BY DEF IsSeq
  <1>2. /\ a \in Seq(S) /\ Len(a) = Len(s) + 1 /\ Len(s) \in Nat
        /\ \A i \in 1..Len(s) : a[i] = s[i]
        /\ a[Len(s) + 1] = x
    BY <1>1
  <1>3. IsSeq(a) /\ Range(a) \subseteq S
    BY <1>2, SeqIsSeq
  <1>4. S \subseteq Range(a)
    <2>1. DOMAIN a = 1..(Len(s) + 1)
      BY <1>2
    <2>2. ASSUME NEW y \in Range(s) PROVE y \in Range(a)
      <3>1. PICK i \in 1..Len(s) : y = s[i]
        BY SeqParts
      <3>2. i \in DOMAIN a /\ a[i] = y
        BY <1>2, <2>1, <3>1
      <3> QED
        BY <3>2 DEF Range
    <2>3. x \in Range(a)
      <3>1. Len(s) + 1 \in DOMAIN a
        BY <1>2, <2>1
      <3> QED
        BY <1>2, <3>1 DEF Range
    <2> QED
      BY <2>2, <2>3
  <1> QED
    BY <1>2, <1>3, <1>4
-----------------------------------------------------------------------------
LEMMA IntervalSize ==
  ASSUME NEW n \in Nat
  PROVE  IsFiniteSet(1..n) /\ Cardinality(1..n) = n
  <1>1. 1 \in Int /\ n \in Int /\ ((IF 1 > n THEN 0 ELSE n - 1 + 1) = n)
    OBVIOUS
  <1> QED
    BY <1>1, FS_Interval

LEMMA NextStarted ==
  ASSUME NEW t \in Nat, NEW d \in Nat, NEW c \in Nat, NEW s, NEW u,
         s = IF t < c + d THEN t ELSE c + d,
         u = IF s < t THEN s + 1 ELSE s
  PROVE  u = IF t < c + (d + 1) THEN t ELSE c + (d + 1)
  OBVIOUS

LEMMA NewWave ==
  ASSUME NEW tasks, IsSeq(tasks)
  PROVE  /\ WaveInv(WaveOf(tasks)) /\ WaveOf(tasks).tasks = tasks
         /\ \A stage : Replied(WaveOf(tasks), stage)
  <1> DEFINE w == WaveOf(tasks)
  <1>1. /\ w = [tasks |-> w.tasks, done |-> w.done, started |-> w.started]
        /\ w.tasks = tasks /\ w.done = <<>>
        /\ w.started = IF Len(tasks) < Concurrency THEN Len(tasks) ELSE Concurrency
    BY DEF WaveOf
  <1>2. Len(w.done) = 0 /\ IsSeq(w.done)
    BY <1>1 DEF IsSeq
  <1>3. Concurrency \in Nat
    BY EngineAssumption DEF EngineAssumption
  <1> HIDE DEF w
  <1>4. WaveInv(w)
    <2>1. Len(tasks) \in Nat
      BY SeqParts
    <2>2. w.started = IF Len(tasks) < Concurrency + 0 THEN Len(tasks) ELSE Concurrency + 0
      BY <1>1, <1>3, <2>1
    <2>3. \A i \in 1..0 : FALSE
      OBVIOUS
    <2> QED
      BY <1>1, <1>2, <2>2, <2>3 DEF WaveInv
  <1>5. \A stage : Replied(w, stage)
    BY <1>2 DEF Replied
  <1> QED
    BY <1>1, <1>4, <1>5 DEF w

LEMMA EmptyWave ==
  WaveInv(NoWave) /\ \A stage : Replied(NoWave, stage)
  <1>1. IsSeq(<<>>)
    BY DEF IsSeq
  <1> QED
    BY <1>1, NewWave DEF NoWave

LEMMA ReplyWave ==
  ASSUME NEW w, WaveInv(w), NEW stage, Replied(w, stage),
         NEW i \in 1..w.started, \A j \in DOMAIN w.done : w.done[j].index # i,
         NEW reply \in Replies(stage, w.tasks[i])
  PROVE  /\ WaveInv(After(w, i, reply)) /\ Replied(After(w, i, reply), stage)
         /\ After(w, i, reply).tasks = w.tasks
  <1> DEFINE d == [index |-> i, reply |-> reply]
             u == After(w, i, reply)
  <1>1. /\ u = [tasks |-> u.tasks, done |-> u.done, started |-> u.started]
        /\ u.tasks = w.tasks /\ u.done = Append(w.done, d)
        /\ u.started = IF w.started < Len(w.tasks) THEN w.started + 1 ELSE w.started
    <2>1. PICK tasks, done, started : w = [tasks |-> tasks, done |-> done, started |-> started]
      BY DEF WaveInv
    <2> DEFINE more == IF w.started < Len(w.tasks) THEN w.started + 1 ELSE w.started
               added == Append(w.done, d)
    <2>2. u = [[w EXCEPT !.done = added] EXCEPT !.started = more]
      BY <2>1 DEF After
    <2> HIDE DEF more, added, u
    <2>3. u = [tasks |-> tasks, done |-> added, started |-> more]
      BY <2>1, <2>2
    <2> QED
      BY <2>1, <2>3 DEF more, added
  <1>2. d.index = i /\ d.reply = reply
    OBVIOUS
  <1> HIDE DEF u, d
  <1>3. /\ IsSeq(w.tasks) /\ IsSeq(w.done)
        /\ Len(w.tasks) \in Nat /\ Len(w.done) \in Nat /\ DOMAIN w.done = 1..Len(w.done)
    BY SeqParts DEF WaveInv
  <1>4. /\ IsSeq(u.done) /\ Len(u.done) = Len(w.done) + 1
        /\ \A j \in 1..Len(w.done) : u.done[j] = w.done[j]
        /\ u.done[Len(w.done) + 1] = d
    BY <1>1, <1>3, AppendIsSeq
  <1>5. Concurrency \in Nat
    BY EngineAssumption DEF EngineAssumption
  <1>6. w.started = IF Len(w.tasks) < Concurrency + Len(w.done) THEN Len(w.tasks)
                   ELSE Concurrency + Len(w.done)
    BY DEF WaveInv
  <1>7. u.started = IF Len(u.tasks) < Concurrency + Len(u.done) THEN Len(u.tasks)
                   ELSE Concurrency + Len(u.done)
    <2>1. u.started = IF Len(w.tasks) < Concurrency + (Len(w.done) + 1) THEN Len(w.tasks)
                      ELSE Concurrency + (Len(w.done) + 1)
      <3> DEFINE t == Len(w.tasks)
                 m == Len(w.done)
                 s == w.started
                 v == u.started
      <3>1. t \in Nat /\ m \in Nat /\ Concurrency \in Nat
        BY <1>3, <1>5
      <3>2. s = IF t < Concurrency + m THEN t ELSE Concurrency + m
        BY <1>6
      <3>3. v = IF s < t THEN s + 1 ELSE s
        BY <1>1
      <3> HIDE DEF t, m, s, v
      <3>4. v = IF t < Concurrency + (m + 1) THEN t ELSE Concurrency + (m + 1)
        BY <3>1, <3>2, <3>3, NextStarted
      <3> QED
        BY <3>4 DEF t, m, s, v
    <2> QED
      BY <1>1, <1>4, <2>1
  <1>8. w.started \in Nat /\ u.started \in Nat /\ w.started <= u.started
    BY <1>1, <1>3, <1>5, <1>6
  <1>9. \A j \in 1..Len(w.done) : w.done[j].index \in 1..w.started /\ w.done[j].index # i
    BY <1>3 DEF WaveInv
  <1>10. \A j \in 1..Len(u.done) : j \in 1..Len(w.done) \/ j = Len(w.done) + 1
    BY <1>3, <1>4
  <1>11. \A j \in 1..Len(u.done) : u.done[j].index \in 1..u.started
    BY <1>2, <1>4, <1>8, <1>9, <1>10, SMTT(30)
  <1>12. \A j, k \in 1..Len(w.done) : w.done[j].index = w.done[k].index => j = k
    BY DEF WaveInv
  <1>13. \A j, k \in 1..Len(u.done) : u.done[j].index = u.done[k].index => j = k
    BY <1>2, <1>4, <1>9, <1>10, <1>12
  <1>14. Replied(u, stage)
    <2>1. \A j \in 1..Len(w.done) : w.done[j].reply \in Replies(stage, w.tasks[w.done[j].index])
      BY DEF Replied
    <2>2. \A j \in 1..Len(u.done) : u.done[j].reply \in Replies(stage, u.tasks[u.done[j].index])
      BY <1>1, <1>2, <1>4, <1>10, <2>1
    <2> QED
      BY <2>2 DEF Replied
  <1>15. WaveInv(u)
    BY <1>1, <1>3, <1>4, <1>7, <1>11, <1>13 DEF WaveInv
  <1> QED
    BY <1>1, <1>14, <1>15 DEF u

\* The calls of a wave are few, and when every call has replied, the reply with
\* number i is one to task i.
Indices(w) == [i \in 1..Len(w.done) |-> w.done[i].index]
LEMMA IndicesInject ==
  ASSUME NEW w, WaveInv(w)
  PROVE  /\ Len(w.tasks) \in Nat /\ Len(w.done) \in Nat /\ w.started \in Nat
         /\ w.started <= Len(w.tasks) /\ w.started <= Concurrency + Len(w.done)
         /\ Indices(w) \in Injection(1..Len(w.done), 1..w.started)
  <1>1. /\ Len(w.tasks) \in Nat /\ Len(w.done) \in Nat
    BY SeqParts DEF WaveInv
  <1>2. Concurrency \in Nat
    BY EngineAssumption DEF EngineAssumption
  <1>3. w.started \in Nat /\ w.started <= Len(w.tasks) /\ w.started <= Concurrency + Len(w.done)
    BY <1>1, <1>2 DEF WaveInv
  <1>4. Indices(w) \in [1..Len(w.done) -> 1..w.started]
    BY DEF WaveInv, Indices
  <1>5. \A i, j \in 1..Len(w.done) : Indices(w)[i] = Indices(w)[j] => i = j
    BY DEF WaveInv, Indices
  <1>6. Indices(w) \in Injection(1..Len(w.done), 1..w.started)
    BY <1>4, <1>5 DEF Injection, IsInjective
  <1> QED
    BY <1>1, <1>3, <1>6

LEMMA FewInFlight ==
  ASSUME NEW r, WaveInv(wave[r])
  PROVE  Cardinality(InFlight(r)) <= Concurrency
  <1> DEFINE w == wave[r]
             S == 1..w.started
             T == {w.done[i].index : i \in 1..Len(w.done)}
  <1>1. /\ Len(w.done) \in Nat /\ w.started \in Nat /\ w.started <= Concurrency + Len(w.done)
        /\ Indices(w) \in Injection(1..Len(w.done), S)
    BY IndicesInject
  <1>2. DOMAIN w.done = 1..Len(w.done)
    BY SeqParts DEF WaveInv
  <1>3. InFlight(r) = S \ T
    BY <1>2 DEF InFlight
  <1>4. IsFiniteSet(S) /\ Cardinality(S) = w.started
    BY <1>1, IntervalSize
  <1>5. IsFiniteSet(1..Len(w.done)) /\ Cardinality(1..Len(w.done)) = Len(w.done)
    BY <1>1, IntervalSize
  <1>6. T \subseteq S
    BY DEF WaveInv
  <1>7. Cardinality(T) = Len(w.done) /\ IsFiniteSet(T)
    <2>1. Indices(w) \in Surjection(1..Len(w.done), T)
      BY <1>1 DEF Injection, Surjection, Indices
    <2>2. Indices(w) \in Injection(1..Len(w.done), T)
      BY <1>1, <2>1 DEF Injection, Surjection
    <2> QED
      BY <1>5, <2>1, <2>2, FS_Surjection
  <1>8. Cardinality(S \ T) = Cardinality(S) - Cardinality(S \cap T)
    BY <1>4, FS_Difference
  <1>9. S \cap T = T
    BY <1>6
  <1>10. Concurrency \in Nat
    BY EngineAssumption DEF EngineAssumption
  <1>11. w.started - Len(w.done) <= Concurrency
    BY <1>1, <1>10
  <1>12. Cardinality(InFlight(r)) = w.started - Len(w.done)
    BY <1>3, <1>4, <1>7, <1>8, <1>9
  <1> QED
    BY <1>11, <1>12

LEMMA OrderedReplies ==
  ASSUME NEW w, WaveInv(w), NEW stage, Replied(w, stage), Len(w.done) = Len(w.tasks)
  PROVE  /\ Ordered(w.done) = [i \in 1..Len(w.tasks) |-> Ordered(w.done)[i]]
         /\ IsSeq(Ordered(w.done)) /\ Len(Ordered(w.done)) = Len(w.tasks)
         /\ \A i \in 1..Len(w.tasks) : Ordered(w.done)[i] \in Replies(stage, w.tasks[i])
  <1> DEFINE n == Len(w.tasks)
             o == Ordered(w.done)
  <1>1. /\ n \in Nat /\ w.started \in Nat /\ w.started <= n
        /\ Indices(w) \in Injection(1..n, 1..w.started)
    BY IndicesInject
  <1>2. IsSeq(w.done) /\ DOMAIN w.done = 1..n
    BY SeqParts DEF WaveInv
  <1>3. IsFiniteSet(1..n) /\ IsFiniteSet(1..w.started)
    BY <1>1, IntervalSize
  <1>4. Indices(w) \in Injection(1..n, 1..n)
    BY <1>1 DEF Injection
  <1>5. Indices(w) \in Surjection(1..n, 1..n)
    BY <1>3, <1>4, FS_Injection
  <1>6. ASSUME NEW i \in 1..n PROVE o[i] \in Replies(stage, w.tasks[i])
    <2>1. PICK j \in 1..n : Indices(w)[j] = i
      BY <1>5 DEF Surjection
    <2>2. w.done[j].index = i /\ w.done[j] \in Range(w.done)
      BY <1>2, <2>1 DEF Indices, Range
    <2> DEFINE d == CHOOSE e \in Range(w.done) : e.index = i
    <2>3. d \in Range(w.done) /\ d.index = i
      BY <2>2
    <2>4. o[i] = d.reply
      BY <1>2 DEF Ordered
    <2> HIDE DEF d
    <2>5. PICK k \in 1..n : d = w.done[k]
      BY <1>2, <2>3 DEF Range
    <2> QED
      BY <2>3, <2>4, <2>5 DEF Replied
  <1>7. o = [i \in 1..n |-> o[i]]
    BY <1>2 DEF Ordered
  <1> HIDE DEF o, n
  <1>8. IsSeq(o) /\ Len(o) = n
    BY <1>1, <1>7, SeqByDomain
  <1> QED
    BY <1>6, <1>7, <1>8 DEF o, n
-----------------------------------------------------------------------------
\* The DRIFT graph: a question is in it once.

AddFold == INSTANCE FoldInduction WITH Op <- AddOrGet
FollowUpsFold == INSTANCE FoldInduction WITH Op <- AddFollowUps
ApplyFold == INSTANCE FoldInduction WITH Op <- Apply

Texts == {Question} \cup UNION {Range(f) : f \in FollowUps}
Node == [text : Texts, answer : Texts \cup {None}]
\* DRIFT graphs: a question is in them once, and an answer is one to its question.
Graphs ==
    {g \in Seq(Node) :
        /\ \A n \in 1..Len(g) : g[n].answer \in {None, g[n].text}
        /\ \A m, n \in 1..Len(g) : g[m].text = g[n].text => m = n}
-----------------------------------------------------------------------------
LEMMA FollowUpsAreTexts ==
  ASSUME NEW f \in FollowUps
  PROVE  f \in Seq(Texts)
  <1>1. f \in Seq(Range(f))
    BY EngineAssumption DEF EngineAssumption
  <1>2. Range(f) \subseteq Texts
    BY DEF Texts
  <1> QED
    BY <1>1, <1>2

LEMMA AddOrGetKeeps ==
  ASSUME NEW g \in Graphs, NEW text \in Texts
  PROVE  AddOrGet(g, text) \in Graphs
  <1>1. CASE \E n \in DOMAIN g : g[n].text = text
    BY <1>1 DEF AddOrGet
  <1>2. CASE ~\E n \in DOMAIN g : g[n].text = text
    <2> DEFINE a == Append(g, Incomplete(text))
    <2>1. g \in Seq(Node) /\ Incomplete(text) \in Node
      BY DEF Graphs, Node, Incomplete
    <2>2. /\ a \in Seq(Node) /\ Len(a) = Len(g) + 1 /\ Len(g) \in Nat /\ DOMAIN g = 1..Len(g)
          /\ \A n \in 1..Len(g) : a[n] = g[n]
          /\ a[Len(g) + 1] = Incomplete(text)
      BY <2>1
    <2>3. AddOrGet(g, text) = a
      BY <1>2 DEF AddOrGet
    <2> HIDE DEF a
    <2>4. \A n \in 1..Len(a) : n \in 1..Len(g) \/ n = Len(g) + 1
      BY <2>2
    <2>5. Incomplete(text).text = text /\ Incomplete(text).answer = None
      BY DEF Incomplete
    <2>6. \A n \in 1..Len(g) : g[n].text # text
      BY <1>2, <2>2
    <2>7. /\ \A n \in 1..Len(g) : g[n].answer \in {None, g[n].text}
          /\ \A m, n \in 1..Len(g) : g[m].text = g[n].text => m = n
      BY DEF Graphs
    <2>8. \A n \in 1..Len(a) : a[n].answer \in {None, a[n].text}
      BY <2>2, <2>4, <2>5, <2>7
    <2>9. \A m, n \in 1..Len(a) : a[m].text = a[n].text => m = n
      BY <2>2, <2>4, <2>5, <2>6, <2>7
    <2> QED
      BY <2>2, <2>3, <2>8, <2>9 DEF Graphs
  <1> QED
    BY <1>1, <1>2

LEMMA AddAllKeeps ==
  ASSUME NEW g \in Graphs, NEW texts \in Seq(Texts)
  PROVE  AddAll(g, texts) \in Graphs
  <1> DEFINE n == Len(texts)
  <1>1. n \in Nat /\ DOMAIN texts = 1..n /\ \A k \in 1..n : texts[k] \in Texts
    OBVIOUS
  <1> HIDE DEF n
  <1>2. FoldLeft(AddOrGet, g, texts) = AddFold!Folded(g, texts, n)
    BY <1>1 DEF FoldLeft, MapThenFoldSet, Max, AddFold!Folded, AddFold!Iterates, AddFold!Max
  <1>3. \A k \in 1..n : \A x \in Graphs : AddOrGet(x, texts[k]) \in Graphs
    BY <1>1, AddOrGetKeeps
  <1>4. AddFold!Folded(g, texts, n) \in Graphs
    BY <1>1, <1>3, AddFold!FoldStays
  <1> QED
    BY <1>2, <1>4 DEF AddAll

\* The primer's follow-ups join the root.
LEMMA PrimerGraph ==
  ASSUME NEW replies, IsSeq(replies),
         \A i \in 1..Len(replies) : replies[i].followups \in FollowUps
  PROVE  FoldLeft(AddFollowUps, <<[text |-> Question, answer |-> Question]>>, replies) \in Graphs
  <1> DEFINE root == [text |-> Question, answer |-> Question]
             n == Len(replies)
  <1>1. n \in Nat /\ DOMAIN replies = 1..n
    BY SeqParts
  <1>2. <<root>> \in Graphs
    <2>1. root \in Node
      BY DEF Node, Texts
    <2>2. <<root>> \in Seq(Node) /\ Len(<<root>>) = 1 /\ <<root>>[1] = root
      BY <2>1
    <2>3. \A k \in 1..1 : k = 1
      OBVIOUS
    <2> QED
      BY <2>2, <2>3 DEF Graphs
  <1>3. ASSUME NEW k \in 1..n, NEW x \in Graphs
        PROVE  AddFollowUps(x, replies[k]) \in Graphs
    <2>1. replies[k].followups \in Seq(Texts)
      BY FollowUpsAreTexts
    <2> QED
      BY <2>1, AddAllKeeps DEF AddFollowUps
  <1> HIDE DEF n, root
  <1>4. FoldLeft(AddFollowUps, <<root>>, replies) = FollowUpsFold!Folded(<<root>>, replies, n)
    BY <1>1 DEF FoldLeft, MapThenFoldSet, Max, FollowUpsFold!Folded, FollowUpsFold!Iterates, FollowUpsFold!Max
  <1>5. FollowUpsFold!Folded(<<root>>, replies, n) \in Graphs
    BY <1>1, <1>2, <1>3, FollowUpsFold!FoldStays
  <1> QED
    BY <1>4, <1>5 DEF root

\* An action's reply completes its own question and adds what follows up.
LEMMA ApplyKeeps ==
  ASSUME NEW g \in Graphs, NEW result, result.reply.of = result.text,
         result.reply.followups \in FollowUps
  PROVE  Apply(g, result) \in Graphs
  <1> DEFINE answer == IF result.reply.answered THEN result.reply.of ELSE None
             done(node) == IF node.text = result.text THEN [node EXCEPT !.answer = answer] ELSE node
             a == [n \in DOMAIN g |-> done(g[n])]
  <1>1. g \in Seq(Node) /\ Len(g) \in Nat /\ DOMAIN g = 1..Len(g)
    BY DEF Graphs
  <1>2. /\ \A n \in 1..Len(g) : g[n].answer \in {None, g[n].text}
        /\ \A m, n \in 1..Len(g) : g[m].text = g[n].text => m = n
    BY DEF Graphs
  <1>3. answer \in {None, result.text}
    OBVIOUS
  <1>4. ASSUME NEW node \in Node, node.answer \in {None, node.text}
        PROVE  /\ done(node) \in Node /\ done(node).text = node.text
               /\ done(node).answer \in {None, node.text}
    <2> HIDE DEF answer
    <2> QED
      BY <1>3, <1>4 DEF Node
  <1>5. \A n \in 1..Len(g) : /\ a[n] \in Node /\ a[n].text = g[n].text
                             /\ a[n].answer \in {None, a[n].text}
    <2> SUFFICES ASSUME NEW n \in 1..Len(g)
                 PROVE  /\ a[n] \in Node /\ a[n].text = g[n].text
                        /\ a[n].answer \in {None, a[n].text}
      OBVIOUS
    <2>1. g[n] \in Node /\ a[n] = done(g[n])
      BY <1>1
    <2> HIDE DEF done, a
    <2> QED
      BY <1>2, <1>4, <2>1
  <1>6. a = [n \in 1..Len(g) |-> a[n]]
    BY <1>1
  <1> HIDE DEF a
  <1>7. a \in Seq(Node) /\ Len(a) = Len(g)
    BY <1>1, <1>5, <1>6
  <1>8. a \in Graphs
    BY <1>2, <1>5, <1>7 DEF Graphs
  <1>9. result.reply.followups \in Seq(Texts)
    BY FollowUpsAreTexts
  <1>10. Apply(g, result) = AddAll(a, result.reply.followups)
    BY DEF Apply, a
  <1> QED
    BY <1>8, <1>9, <1>10, AddAllKeeps

LEMMA DepthGraph ==
  ASSUME NEW g \in Graphs, NEW results, IsSeq(results),
         \A i \in 1..Len(results) :
             /\ results[i].reply.of = results[i].text
             /\ results[i].reply.followups \in FollowUps
  PROVE  FoldLeft(Apply, g, results) \in Graphs
  <1> DEFINE n == Len(results)
  <1>1. n \in Nat /\ DOMAIN results = 1..n
    BY SeqParts
  <1>2. \A k \in 1..n : \A x \in Graphs : Apply(x, results[k]) \in Graphs
    BY ApplyKeeps
  <1> HIDE DEF n
  <1>3. FoldLeft(Apply, g, results) = ApplyFold!Folded(g, results, n)
    BY <1>1 DEF FoldLeft, MapThenFoldSet, Max, ApplyFold!Folded, ApplyFold!Iterates, ApplyFold!Max
  <1>4. ApplyFold!Folded(g, results, n) \in Graphs
    BY <1>1, <1>2, ApplyFold!FoldStays
  <1> QED
    BY <1>3, <1>4
-----------------------------------------------------------------------------
\* The traversal: what enqueueing does, what the levels of a hierarchy hold.

EnqueueFold == INSTANCE FoldInduction WITH Op <- Enqueue
LevelFold == INSTANCE FoldInduction WITH Op <- PutAtLevel
ChooseFold == INSTANCE FoldInduction WITH Op <- Choose

Distinct(s) == \A i, j \in 1..Len(s) : s[i] = s[j] => i = j
First(s, k) == {s[j] : j \in 1..k}

Named(h) == DOMAIN h.level
KnownIn(h) == Range(h.order) \cap h.backed
ChildrenIn(h, c) == Range(h.children[c]) \cap h.backed
WellFormed(h) ==
    /\ h.order \in Seq(Named(h))
    /\ h.backed \subseteq Named(h) /\ IsFiniteSet(h.backed)
    /\ h.level \in [Named(h) -> Nat]
    /\ h.children \in [Named(h) -> Seq(Named(h))]
    /\ \A c \in Named(h) : h.parent[c] # c
Ratings(h) == [community : Named(h), of : Named(h), passed : BOOLEAN]
Traversals(h) ==
    [queue : Seq(Named(h)), visited : SUBSET Named(h), relevant : SUBSET Named(h),
     first : Seq(Named(h)), next : Seq(Named(h)), level : Nat, ratings : Seq(Ratings(h))]
-----------------------------------------------------------------------------
LEMMA FirstMore ==
  ASSUME NEW s, NEW k \in Nat \ {0}
  PROVE  First(s, k) = First(s, k - 1) \cup {s[k]}
  <1>1. 1..k = (1..(k - 1)) \cup {k}
    OBVIOUS
  <1> QED
    BY <1>1 DEF First

LEMMA FirstAll ==
  ASSUME NEW s, IsSeq(s)
  PROVE  First(s, Len(s)) = Range(s) /\ First(s, 0) = {}
  <1>1. 1..0 = {}
    OBVIOUS
  <1> QED
    BY <1>1, SeqParts DEF First

LEMMA AppendDistinct ==
  ASSUME NEW s, IsSeq(s), Distinct(s), NEW x, x \notin Range(s)
  PROVE  Distinct(Append(s, x))
  <1> DEFINE a == Append(s, x)
  <1>1. /\ Len(a) = Len(s) + 1 /\ Len(s) \in Nat
        /\ \A i \in 1..Len(s) : a[i] = s[i] /\ a[i] # x
        /\ a[Len(s) + 1] = x
    BY SeqParts, AppendIsSeq
  <1> HIDE DEF a
  <1>2. \A i \in 1..Len(a) : i \in 1..Len(s) \/ i = Len(s) + 1
    BY <1>1
  <1>3. Distinct(a)
    BY <1>1, <1>2 DEF Distinct
  <1> QED
    BY <1>3 DEF a

LEMMA DistinctSize ==
  ASSUME NEW s, IsSeq(s), Distinct(s)
  PROVE  IsFiniteSet(Range(s)) /\ Cardinality(Range(s)) = Len(s)
  <1> DEFINE n == Len(s)
  <1>1. n \in Nat /\ s = [i \in 1..n |-> s[i]] /\ Range(s) = {s[i] : i \in 1..n}
    BY SeqParts
  <1>2. IsFiniteSet(1..n) /\ Cardinality(1..n) = n
    BY <1>1, IntervalSize
  <1>3. s \in [1..n -> Range(s)]
    BY <1>1
  <1>4. \A x \in Range(s) : \E i \in 1..n : s[i] = x
    BY <1>1
  <1>5. \A i, j \in 1..n : s[i] = s[j] => i = j
    BY DEF Distinct
  <1>6. s \in Surjection(1..n, Range(s))
    BY <1>3, <1>4 DEF Surjection
  <1>7. s \in Injection(1..n, Range(s))
    BY <1>3, <1>5 DEF Injection, IsInjective
  <1> QED
    BY <1>2, <1>6, <1>7, FS_Surjection
-----------------------------------------------------------------------------
\* What enqueueing the communities of a list does to a traversal.
Queued(h, t, u, D) ==
    /\ u \in Traversals(h)
    /\ u.queue = t.queue /\ u.relevant = t.relevant /\ u.first = t.first
    /\ u.level = t.level /\ u.ratings = t.ratings
    /\ u.visited = t.visited \cup D
    /\ Range(u.next) = Range(t.next) \cup (D \ t.visited)
    /\ Distinct(u.next)

LEMMA EnqueueOne ==
  ASSUME WellFormed(hierarchy), NEW t, NEW u, NEW D, Queued(hierarchy, t, u, D),
         Range(t.next) \subseteq t.visited, NEW c \in Named(hierarchy)
  PROVE  Queued(hierarchy, t, Enqueue(u, c), (D \cup {c}) \cap (D \cup hierarchy.backed))
  <1> DEFINE E == (D \cup {c}) \cap (D \cup hierarchy.backed)
  <1>1. CASE c \in hierarchy.backed /\ c \notin u.visited
    <2> DEFINE next == Append(u.next, c)
               visited == u.visited \cup {c}
               e == Enqueue(u, c)
    <2>1. e = [[u EXCEPT !.next = next] EXCEPT !.visited = visited]
      BY <1>1 DEF Enqueue
    <2>2. u \in Traversals(hierarchy) /\ IsSeq(u.next)
      BY SeqIsSeq DEF Queued, Traversals
    <2>3. c \notin Range(u.next)
      BY <1>1 DEF Queued
    <2>4. Distinct(next) /\ Range(next) = Range(u.next) \cup {c}
      BY <2>2, <2>3, AppendDistinct, AppendIsSeq DEF Queued
    <2>5. next \in Seq(Named(hierarchy)) /\ visited \in SUBSET Named(hierarchy)
      BY <2>2 DEF Traversals
    <2> HIDE DEF next, visited, e
    <2>6. /\ e \in Traversals(hierarchy)
          /\ e.queue = u.queue /\ e.relevant = u.relevant /\ e.first = u.first
          /\ e.level = u.level /\ e.ratings = u.ratings
          /\ e.next = next /\ e.visited = visited
      BY <2>1, <2>2, <2>5 DEF Traversals
    <2>7. E = D \cup {c} /\ c \notin t.visited
      BY <1>1 DEF Queued
    <2>8. e.visited = t.visited \cup E
      BY <2>6, <2>7 DEF Queued, visited
    <2>9. Range(e.next) = Range(t.next) \cup (E \ t.visited)
      BY <2>4, <2>6, <2>7 DEF Queued
    <2>10. Queued(hierarchy, t, e, E)
      BY <2>4, <2>6, <2>8, <2>9 DEF Queued
    <2> QED
      BY <2>10 DEF e
  <1>2. CASE c \in hierarchy.backed /\ c \in u.visited
    <2>1. Enqueue(u, c) = u /\ E = D \cup {c} /\ c \in t.visited \cup D
      BY <1>2 DEF Enqueue, Queued
    <2>2. E \ t.visited = D \ t.visited /\ t.visited \cup E = t.visited \cup D
      BY <2>1
    <2> HIDE DEF E
    <2>3. Queued(hierarchy, t, u, E)
      BY <2>2 DEF Queued
    <2> QED
      BY <2>1, <2>3 DEF E
  <1>3. CASE c \notin hierarchy.backed
    <2>1. Enqueue(u, c) = u /\ E = D
      BY <1>3 DEF Enqueue
    <2> QED
      BY <2>1
  <1> QED
    BY <1>1, <1>2, <1>3

LEMMA EnqueueAll ==
  ASSUME WellFormed(hierarchy), NEW t \in Traversals(hierarchy),
         Distinct(t.next), Range(t.next) \subseteq t.visited,
         NEW s \in Seq(Named(hierarchy))
  PROVE  Queued(hierarchy, t, FoldLeft(Enqueue, t, s), Range(s) \cap hierarchy.backed)
  <1> DEFINE n == Len(s)
             D(k) == First(s, k) \cap hierarchy.backed
             S == [k \in 0..n |-> {u \in Traversals(hierarchy) : Queued(hierarchy, t, u, D(k))}]
  <1>1. n \in Nat /\ DOMAIN s = 1..n /\ \A k \in 1..n : s[k] \in Named(hierarchy)
    OBVIOUS
  <1>2. IsSeq(s)
    BY SeqIsSeq
  <1>3. t \in S[0]
    <2>1. D(0) = {}
      BY <1>2, FirstAll
    <2> HIDE DEF D
    <2>2. Queued(hierarchy, t, t, D(0))
      BY <2>1 DEF Queued
    <2> QED
      BY <1>1, <2>2
  <1>4. ASSUME NEW k \in 1..n, NEW u \in S[k - 1] PROVE Enqueue(u, s[k]) \in S[k]
    <2>1. k \in 0..n /\ k - 1 \in 0..n /\ k \in Nat \ {0}
      BY <1>1
    <2>2. Queued(hierarchy, t, u, D(k - 1))
      BY <2>1
    <2>3. (D(k - 1) \cup {s[k]}) \cap (D(k - 1) \cup hierarchy.backed) = D(k)
      BY <2>1, FirstMore
    <2> HIDE DEF D
    <2>4. Queued(hierarchy, t, Enqueue(u, s[k]), D(k))
      BY <1>1, <2>2, <2>3, EnqueueOne
    <2>5. Enqueue(u, s[k]) \in Traversals(hierarchy)
      BY <2>4 DEF Queued
    <2> QED
      BY <2>1, <2>4, <2>5
  <1> HIDE DEF S
  <1>5. FoldLeft(Enqueue, t, s) = EnqueueFold!Folded(t, s, n)
    BY <1>1 DEF FoldLeft, MapThenFoldSet, Max, EnqueueFold!Folded, EnqueueFold!Iterates,
                EnqueueFold!Max
  <1>6. EnqueueFold!Folded(t, s, n) \in S[n]
    BY <1>1, <1>3, <1>4, EnqueueFold!FoldReaches
  <1>7. Queued(hierarchy, t, EnqueueFold!Folded(t, s, n), D(n))
    BY <1>1, <1>6 DEF S
  <1>8. D(n) = Range(s) \cap hierarchy.backed
    BY <1>2, FirstAll
  <1> QED
    BY <1>5, <1>7, <1>8

\* The communities of a level are those with a row and a report, each once.
LEMMA LevelLists ==
  ASSUME WellFormed(hierarchy), NEW l
  PROVE  /\ AtLevel(l) \in Seq(Named(hierarchy)) /\ Distinct(AtLevel(l))
         /\ Range(AtLevel(l)) = {c \in KnownIn(hierarchy) : hierarchy.level[c] = l}
  <1> DEFINE s == hierarchy.order
             n == Len(s)
             B == hierarchy.backed
             L == {hierarchy.level[c] : c \in Known}
             D(k, m) == {c \in First(s, k) \cap B : hierarchy.level[c] = m}
             Lists(f, k) == \A m \in L : Distinct(f[m]) /\ Range(f[m]) = D(k, m)
             S == [k \in 0..n |-> {f \in [L -> Seq(Named(hierarchy))] : Lists(f, k)}]
             base == [m \in L |-> <<>>]
  <1>1. s \in Seq(Named(hierarchy)) /\ B \subseteq Named(hierarchy)
    BY DEF WellFormed
  <1>2. n \in Nat /\ DOMAIN s = 1..n /\ \A k \in 1..n : s[k] \in Named(hierarchy)
    BY <1>1
  <1>3. IsSeq(s)
    BY <1>1, SeqIsSeq
  <1>4. base \in S[0]
    <2>1. base \in [L -> Seq(Named(hierarchy))]
      OBVIOUS
    <2>2. First(s, 0) = {}
      BY <1>3, FirstAll
    <2>3. Distinct(<<>>) /\ Range(<<>>) = {}
      BY DEF Distinct, Range
    <2>4. Lists(base, 0)
      BY <2>2, <2>3
    <2>5. S[0] = {f \in [L -> Seq(Named(hierarchy))] : Lists(f, 0)}
      BY <1>2
    <2> HIDE DEF S, base, L, Lists
    <2> QED
      BY <2>1, <2>4, <2>5
  <1>5. ASSUME NEW k \in 1..n, NEW f \in S[k - 1] PROVE PutAtLevel(f, s[k]) \in S[k]
    <2> DEFINE c == s[k]
               m == hierarchy.level[c]
               p == PutAtLevel(f, c)
    <2>1. k \in 0..n /\ k - 1 \in 0..n /\ k \in Nat \ {0} /\ c \in Named(hierarchy)
      BY <1>2
    <2>2. f \in [L -> Seq(Named(hierarchy))] /\ Lists(f, k - 1)
      BY <2>1
    <2>3. First(s, k) = First(s, k - 1) \cup {c}
      BY <2>1, FirstMore
    <2>4. c \in B => c \in Known /\ m \in L
      <3>1. c \in Range(s)
        BY <1>2 DEF Range
      <3> QED
        BY <3>1 DEF Known
    <2> SUFFICES p \in [L -> Seq(Named(hierarchy))] /\ Lists(p, k)
      BY <2>1
    <2>5. CASE c \in B /\ c \notin Range(f[m])
      <3>1. p = [f EXCEPT ![m] = Append(@, c)]
        BY <2>5 DEF PutAtLevel
      <3> HIDE DEF p, c
      <3>2. p \in [L -> Seq(Named(hierarchy))]
        BY <2>1, <2>2, <2>4, <2>5, <3>1
      <3>3. p[m] = Append(f[m], c) /\ \A q \in L \ {m} : p[q] = f[q]
        BY <2>2, <2>4, <2>5, <3>1
      <3>4. f[m] \in Seq(Named(hierarchy)) /\ IsSeq(f[m]) /\ Distinct(f[m])
        BY <2>2, <2>4, <2>5, SeqIsSeq
      <3>5. Distinct(p[m]) /\ Range(p[m]) = Range(f[m]) \cup {c}
        BY <2>5, <3>3, <3>4, AppendDistinct, AppendIsSeq
      <3>6. ASSUME NEW q \in L PROVE Distinct(p[q]) /\ Range(p[q]) = D(k, q)
        <4>1. CASE q = m
          <5>1. Range(f[m]) = D(k - 1, m)
            BY <2>2, <2>4, <2>5
          <5> QED
            BY <2>3, <2>5, <3>5, <4>1, <5>1
        <4>2. CASE q # m
          <5>1. Distinct(f[q]) /\ Range(f[q]) = D(k - 1, q)
            BY <2>2
          <5> QED
            BY <2>3, <3>3, <4>2, <5>1
        <4> QED
          BY <4>1, <4>2
      <3> QED
        BY <3>2, <3>6
    <2>6. CASE ~(c \in B /\ c \notin Range(f[m]))
      <3>1. p = f
        BY <2>6 DEF PutAtLevel
      <3>2. ASSUME NEW q \in L PROVE D(k, q) = D(k - 1, q)
        <4>1. Range(f[q]) = D(k - 1, q)
          BY <2>2
        <4> QED
          BY <2>3, <2>4, <2>6, <4>1
      <3> QED
        BY <2>2, <3>1, <3>2
    <2> QED
      BY <2>5, <2>6
  <1> HIDE DEF S, base
  <1>6. FoldLeft(PutAtLevel, base, s) = LevelFold!Folded(base, s, n)
    BY <1>2 DEF FoldLeft, MapThenFoldSet, Max, LevelFold!Folded, LevelFold!Iterates, LevelFold!Max
  <1>7. LevelFold!Folded(base, s, n) \in S[n]
    BY <1>2, <1>4, <1>5, LevelFold!FoldReaches
  <1>8. Levels \in [L -> Seq(Named(hierarchy))] /\ Lists(Levels, n)
    BY <1>2, <1>6, <1>7 DEF S, Levels, base
  <1>9. First(s, n) \cap B = KnownIn(hierarchy) /\ Known = KnownIn(hierarchy)
    BY <1>3, FirstAll DEF KnownIn, Known
  <1>10. CASE l \in L
    BY <1>8, <1>9, <1>10 DEF AtLevel
  <1>11. CASE l \notin L
    <2>1. AtLevel(l) = <<>> /\ {c \in KnownIn(hierarchy) : hierarchy.level[c] = l} = {}
      BY <1>8, <1>9, <1>11 DEF AtLevel
    <2>2. Distinct(<<>>) /\ Range(<<>>) = {} /\ <<>> \in Seq(Named(hierarchy))
      BY DEF Distinct, Range
    <2> QED
      BY <2>1, <2>2
  <1> QED
    BY <1>10, <1>11

\* What is selected is what was seen first and is still relevant, each once.
LEMMA SelectedOnce ==
  ASSUME NEW C, NEW t, t.first \in Seq(C), Distinct(t.first)
  PROVE  /\ IsSeq(Selected(t)) /\ Distinct(Selected(t))
         /\ Range(Selected(t)) = Range(t.first) \cap t.relevant
  <1> DEFINE f == t.first
             n == Len(f)
             seen == [i \in DOMAIN f |-> [community |-> f[i], relevant |-> f[i] \in t.relevant]]
             D(k) == First(f, k) \cap t.relevant
             S == [k \in 0..n |-> {q \in Seq(C) : Distinct(q) /\ Range(q) = D(k)}]
  <1>1. n \in Nat /\ DOMAIN f = 1..n /\ IsSeq(f) /\ DOMAIN seen = 1..n
    BY SeqIsSeq
  <1>2. ASSUME NEW k \in 1..n
        PROVE  /\ f[k] \in C /\ seen[k].community = f[k]
               /\ seen[k].relevant = (f[k] \in t.relevant)
    <2>1. f[k] \in C /\ k \in DOMAIN f
      BY <1>1
    <2>2. seen[k] = [community |-> f[k], relevant |-> f[k] \in t.relevant]
      BY <2>1
    <2>3. \A x, y : [community |-> x, relevant |-> y].community = x
                  /\ [community |-> x, relevant |-> y].relevant = y
      OBVIOUS
    <2> QED
      BY <2>1, <2>2, <2>3, Zenon
  <1>3. <<>> \in S[0]
    <2>1. Distinct(<<>>) /\ Range(<<>>) = {} /\ <<>> \in Seq(C)
      BY DEF Distinct, Range
    <2>2. D(0) = {}
      BY <1>1, FirstAll
    <2> QED
      BY <1>1, <2>1, <2>2
  <1>4. ASSUME NEW k \in 1..n, NEW q \in S[k - 1] PROVE Choose(q, seen[k]) \in S[k]
    <2> HIDE DEF seen
    <2>1. k \in 0..n /\ k - 1 \in 0..n /\ k \in Nat \ {0}
      BY <1>1
    <2>2. q \in Seq(C) /\ Distinct(q) /\ Range(q) = D(k - 1) /\ IsSeq(q)
      BY <2>1, SeqIsSeq
    <2>3. First(f, k) = First(f, k - 1) \cup {f[k]}
      BY <2>1, FirstMore
    <2>4. CASE f[k] \in t.relevant
      <3>1. Choose(q, seen[k]) = Append(q, f[k])
        BY <1>2, <2>4, Zenon DEF Choose
      <3>2. f[k] \notin First(f, k - 1)
        BY <1>1, <2>1 DEF First, Distinct
      <3>3. Append(q, f[k]) \in Seq(C)
        BY <1>2, <2>2
      <3>4. Distinct(Append(q, f[k])) /\ Range(Append(q, f[k])) = D(k)
        <4>1. f[k] \notin Range(q)
          BY <2>2, <3>2
        <4>2. Distinct(Append(q, f[k])) /\ Range(Append(q, f[k])) = Range(q) \cup {f[k]}
          BY <2>2, <4>1, AppendDistinct, AppendIsSeq
        <4> QED
          BY <2>2, <2>3, <2>4, <4>2
      <3> QED
        BY <2>1, <3>1, <3>3, <3>4
    <2>5. CASE f[k] \notin t.relevant
      <3>1. Choose(q, seen[k]) = q
        BY <1>2, <2>5, Zenon DEF Choose
      <3>2. D(k) = D(k - 1)
        BY <2>3, <2>5
      <3> QED
        BY <2>1, <2>2, <3>1, <3>2
    <2> QED
      BY <2>4, <2>5
  <1> HIDE DEF S
  <1>5. FoldLeft(Choose, <<>>, seen) = ChooseFold!Folded(<<>>, seen, n)
    BY <1>1 DEF FoldLeft, MapThenFoldSet, Max, ChooseFold!Folded, ChooseFold!Iterates, ChooseFold!Max
  <1>6. ChooseFold!Folded(<<>>, seen, n) \in S[n]
    <2> HIDE DEF seen
    <2> QED
      BY <1>1, <1>3, <1>4, ChooseFold!FoldReaches
  <1>7. Selected(t) \in Seq(C) /\ Distinct(Selected(t)) /\ Range(Selected(t)) = D(n)
    <2>1. Selected(t) = ChooseFold!Folded(<<>>, seen, n)
      BY <1>5 DEF Selected
    <2>2. S[n] = {q \in Seq(C) : Distinct(q) /\ Range(q) = D(n)}
      BY <1>1 DEF S
    <2> HIDE DEF seen, D
    <2> QED
      BY <1>6, <2>1, <2>2
  <1> QED
    BY <1>1, <1>7, SeqIsSeq, FirstAll
-----------------------------------------------------------------------------
\* A wave of ratings.

VoteFold == INSTANCE FoldInduction WITH Op <- Vote

\* What the ratings of a traversal say, for a hierarchy.
KeptIn(h, t) ==
    {c \in Passed(t) : KeepParent \/
        \A d \in Passed(t) : h.parent[d] = c => Place(t, d) < Place(t, c)}
RatedOnce(t) ==
    /\ \A i \in 1..Len(t.ratings) : t.ratings[i].of = t.ratings[i].community
    /\ \A i, j \in 1..Len(t.ratings) :
           t.ratings[i].community = t.ratings[j].community => i = j
Inhabited(h, l) == \E d \in KnownIn(h) : h.level[d] = l
Reached(h, t, c) ==
    \/ c \in KnownIn(h) /\ h.level[c] = 0
    \/ \E p \in Passed(t) : c \in ChildrenIn(h, p)
    \/ /\ c \in KnownIn(h) /\ h.level[c] <= MaxLevel
       /\ \A d \in KnownIn(h) : h.level[d] < h.level[c] => d \in Rated(t) \ Passed(t)
\* A traversal that has yet to rate the communities of todo and of next.
Core(h, t, todo) ==
    /\ t \in Traversals(h)
    /\ RatedOnce(t)
    /\ Distinct(t.next)
    /\ t.visited = Rated(t) \cup todo \cup Range(t.next)
    /\ Rated(t) \cap todo = {} /\ (Rated(t) \cup todo) \cap Range(t.next) = {}
    /\ t.visited \subseteq h.backed
    /\ Distinct(t.first) /\ Range(t.first) = Passed(t)
    /\ t.relevant = KeptIn(h, t) /\ (Passed(t) # {} => t.relevant # {})
    /\ \A p \in Passed(t) : ChildrenIn(h, p) \subseteq t.visited
    /\ \A c \in t.visited : Reached(h, t, c)
    /\ {c \in KnownIn(h) : h.level[c] = 0} \subseteq t.visited
\* While nothing has passed, the levels down to the current one are rated whole.
ByLevel(h, t) ==
    /\ t.visited = {c \in KnownIn(h) : h.level[c] <= t.level}
    /\ t.level <= MaxLevel
    /\ \A l \in 0..t.level : Inhabited(h, l)
Exhausted(h, t) ==
    Rated(t) = {c \in KnownIn(h) : h.level[c] <= MaxLevel /\
                   \A l \in 0..h.level[c] : Inhabited(h, l)}
Rating(h, t, todo) ==
    Core(h, t, todo) /\ (Passed(t) = {} => t.next = <<>> /\ ByLevel(h, t))
Travelled(h, t) == Rating(h, t, Range(t.queue)) /\ Distinct(t.queue) /\ t.next = <<>>
Finished(h, t) == Core(h, t, {}) /\ t.next = <<>> /\ (Passed(t) = {} => Exhausted(h, t))
-----------------------------------------------------------------------------
LEMMA RatedParts ==
  ASSUME NEW t, IsSeq(t.ratings)
  PROVE  /\ \A i \in 1..Len(t.ratings) : t.ratings[i].community \in Rated(t)
         /\ \A c \in Rated(t) : \E i \in 1..Len(t.ratings) : t.ratings[i].community = c
         /\ Passed(t) \subseteq Rated(t)
  <1>1. \A i \in 1..Len(t.ratings) : t.ratings[i] \in Range(t.ratings)
    BY SeqParts
  <1>2. \A v \in Range(t.ratings) : \E i \in 1..Len(t.ratings) : v = t.ratings[i]
    BY SeqParts
  <1>3. \A i \in 1..Len(t.ratings) : t.ratings[i].community \in Rated(t)
    BY <1>1 DEF Rated
  <1>4. \A c \in Rated(t) : \E i \in 1..Len(t.ratings) : t.ratings[i].community = c
    BY <1>2 DEF Rated
  <1> QED
    BY <1>3, <1>4 DEF Rated, Passed

LEMMA PlaceOfRating ==
  ASSUME NEW t, IsSeq(t.ratings), RatedOnce(t), NEW c \in Rated(t)
  PROVE  Place(t, c) \in 1..Len(t.ratings) /\ t.ratings[Place(t, c)].community = c
  <1>1. DOMAIN t.ratings = 1..Len(t.ratings)
    BY SeqParts
  <1>2. \E i \in DOMAIN t.ratings : t.ratings[i].community = c
    BY <1>1, RatedParts
  <1> QED
    BY <1>1, <1>2 DEF Place

\* A rating more.
LEMMA RateOne ==
  ASSUME NEW h, NEW t, NEW u, NEW v, IsSeq(t.ratings), RatedOnce(t),
         u.ratings = Append(t.ratings, v), v.of = v.community, v.community \notin Rated(t),
         h.parent[v.community] # v.community
  PROVE  /\ RatedOnce(u) /\ Rated(u) = Rated(t) \cup {v.community}
         /\ Passed(u) = Passed(t) \cup (IF v.passed THEN {v.community} ELSE {})
         /\ KeptIn(h, u) =
                IF v.passed
                  THEN (KeptIn(h, t) \cup {v.community}) \
                           (IF KeepParent THEN {} ELSE {h.parent[v.community]})
                  ELSE KeptIn(h, t)
  <1> DEFINE n == Len(t.ratings)
             c == v.community
  <1>1. /\ IsSeq(u.ratings) /\ Len(u.ratings) = n + 1 /\ n \in Nat
        /\ \A i \in 1..n : u.ratings[i] = t.ratings[i]
        /\ u.ratings[n + 1] = v
        /\ Range(u.ratings) = Range(t.ratings) \cup {v}
    BY SeqParts, AppendIsSeq
  <1>2. Rated(u) = Rated(t) \cup {c}
    BY <1>1 DEF Rated
  <1>3. Passed(u) = Passed(t) \cup (IF v.passed THEN {c} ELSE {})
    BY <1>1 DEF Passed
  <1>4. \A i \in 1..(n + 1) : i \in 1..n \/ i = n + 1
    BY <1>1
  <1>5. \A i \in 1..n : t.ratings[i].community # c
    BY RatedParts
  <1>6. RatedOnce(u)
    <2>1. /\ \A i \in 1..n : t.ratings[i].of = t.ratings[i].community
          /\ \A i, j \in 1..n : t.ratings[i].community = t.ratings[j].community => i = j
      BY DEF RatedOnce
    <2> HIDE DEF n
    <2>2. \A i \in 1..(n + 1) : u.ratings[i].of = u.ratings[i].community
      BY <1>1, <1>4, <2>1
    <2>3. \A i, j \in 1..(n + 1) :
              u.ratings[i].community = u.ratings[j].community => i = j
      BY <1>1, <1>4, <1>5, <2>1
    <2> QED
      BY <1>1, <2>2, <2>3 DEF RatedOnce
  <1>7. /\ Place(u, c) = n + 1
        /\ \A d \in Rated(t) : Place(u, d) = Place(t, d) /\ Place(t, d) \in 1..n
    <2>1. Place(u, c) \in 1..(n + 1) /\ u.ratings[Place(u, c)].community = c
      <3>1. c \in Rated(u)
        BY <1>2
      <3> HIDE DEF n, c
      <3>2. Place(u, c) \in 1..Len(u.ratings) /\ u.ratings[Place(u, c)].community = c
        BY <1>1, <1>6, <3>1, PlaceOfRating
      <3> QED
        BY <1>1, <3>2
    <2>2. Place(u, c) = n + 1
      BY <1>1, <1>4, <1>5, <2>1
    <2>3. ASSUME NEW d \in Rated(t)
          PROVE  Place(u, d) = Place(t, d) /\ Place(t, d) \in 1..n
      <3>1. Place(t, d) \in 1..n /\ t.ratings[Place(t, d)].community = d
        BY PlaceOfRating
      <3>2. Place(u, d) \in 1..(n + 1) /\ u.ratings[Place(u, d)].community = d
        BY <1>1, <1>2, <1>6, PlaceOfRating
      <3>3. Place(t, d) \in 1..(n + 1) /\ u.ratings[Place(t, d)].community = d
        BY <1>1, <3>1
      <3>4. \A i, j \in 1..(n + 1) : u.ratings[i].community = u.ratings[j].community => i = j
        BY <1>1, <1>6 DEF RatedOnce
      <3>5. Place(u, d) = Place(t, d)
        BY <3>2, <3>3, <3>4
      <3> QED
        BY <3>1, <3>5
    <2> QED
      BY <2>2, <2>3
  <1>8. Passed(t) \subseteq Rated(t)
    BY RatedParts
  <1> HIDE DEF n, c
  <1>9. CASE ~v.passed
    <2>1. Passed(u) = Passed(t)
      BY <1>3, <1>9
    <2>2. KeptIn(h, u) = KeptIn(h, t)
      BY <1>7, <1>8, <2>1 DEF KeptIn
    <2> QED
      BY <1>2, <1>3, <1>6, <1>9, <2>2 DEF c
  <1>10. CASE v.passed
    <2>1. Passed(u) = Passed(t) \cup {c} /\ c \notin Passed(t) /\ h.parent[c] # c
      BY <1>3, <1>8, <1>10 DEF c
    <2>2. CASE KeepParent
      BY <1>2, <1>3, <1>6, <1>10, <2>1, <2>2 DEF KeptIn, c
    <2>3. CASE ~KeepParent
      <3>1. c \in KeptIn(h, u)
        <4> SUFFICES ASSUME NEW d \in Passed(u), h.parent[d] = c
                     PROVE  Place(u, d) < Place(u, c)
          BY <2>1 DEF KeptIn
        <4>1. d \in Passed(t)
          BY <2>1
        <4>2. Place(u, d) \in 1..n /\ Place(u, c) = n + 1
          BY <1>7, <1>8, <4>1
        <4> QED
          BY <1>1, <4>2
      <3>2. ASSUME NEW x \in Passed(t)
            PROVE  x \in KeptIn(h, u) <=> x \in KeptIn(h, t) /\ x # h.parent[c]
        <4>1. x \in KeptIn(h, u) <=>
                  \A d \in Passed(t) \cup {c} : h.parent[d] = x => Place(u, d) < Place(u, x)
          BY <2>1, <2>3 DEF KeptIn
        <4>2. x \in KeptIn(h, t) <=>
                  \A d \in Passed(t) : h.parent[d] = x => Place(t, d) < Place(t, x)
          BY <2>3 DEF KeptIn
        <4>3. \A d \in Passed(t) : Place(u, d) = Place(t, d)
          BY <1>7, <1>8
        <4>4. Place(u, x) = Place(t, x)
          BY <4>3
        <4>5. ~(Place(u, c) < Place(u, x))
          <5>1. Place(u, x) \in 1..n /\ Place(u, c) = n + 1
            BY <1>7, <1>8
          <5> QED
            BY <1>1, <5>1
        <4> QED
          BY <4>1, <4>2, <4>3, <4>4, <4>5
      <3>3. KeptIn(h, u) \subseteq Passed(t) \cup {c} /\ KeptIn(h, t) \subseteq Passed(t)
        BY <2>1 DEF KeptIn
      <3>4. KeptIn(h, u) = (KeptIn(h, t) \cup {c}) \ {h.parent[c]}
        BY <2>1, <3>1, <3>2, <3>3
      <3> QED
        BY <1>2, <1>3, <1>6, <1>10, <2>3, <3>4 DEF c
    <2> QED
      BY <2>2, <2>3
  <1> QED
    BY <1>9, <1>10
-----------------------------------------------------------------------------
\* One community of the wave is rated.
LEMMA VoteKeeps ==
  ASSUME WellFormed(hierarchy), NEW todo, NEW t, Rating(hierarchy, t, todo),
         NEW v \in Ratings(hierarchy), v.of = v.community, v.community \in todo
  PROVE  /\ Rating(hierarchy, Vote(t, v), todo \ {v.community})
         /\ Vote(t, v).level = t.level
  <1> DEFINE h == hierarchy
             c == v.community
             left == todo \ {c}
             parents == IF KeepParent THEN {} ELSE {h.parent[c]}
             ratings == Append(t.ratings, v)
             rated == [t EXCEPT !.ratings = ratings]
  <1>1. t \in Traversals(h) /\ IsSeq(t.ratings) /\ IsSeq(t.next) /\ IsSeq(t.first) /\ RatedOnce(t)
    <2>1. t \in Traversals(h) /\ RatedOnce(t)
      BY DEF Rating, Core
    <2>2. t.ratings \in Seq(Ratings(h)) /\ t.next \in Seq(Named(h)) /\ t.first \in Seq(Named(h))
      BY <2>1 DEF Traversals
    <2> QED
      BY <2>1, <2>2, SeqIsSeq
  <1>2. c \in Named(h) /\ h.parent[c] # c
    BY DEF Ratings, WellFormed
  <1>3. ratings \in Seq(Ratings(h))
    BY <1>1 DEF Traversals
  <1>4. c \notin Rated(t) /\ c \in t.visited /\ c \notin Range(t.next)
    BY DEF Rating, Core
  <1> HIDE DEF ratings
  <1>5. /\ rated \in Traversals(h) /\ rated.ratings = ratings
        /\ rated.queue = t.queue /\ rated.visited = t.visited /\ rated.relevant = t.relevant
        /\ rated.first = t.first /\ rated.next = t.next /\ rated.level = t.level
    BY <1>1, <1>3 DEF Traversals
  <1> HIDE DEF rated
  <1>6. /\ t.visited = Rated(t) \cup todo \cup Range(t.next)
        /\ Rated(t) \cap todo = {} /\ (Rated(t) \cup todo) \cap Range(t.next) = {}
        /\ t.visited \subseteq h.backed /\ Distinct(t.next)
    BY DEF Rating, Core
  <1>7. /\ Distinct(t.first) /\ Range(t.first) = Passed(t)
        /\ t.relevant = KeptIn(h, t) /\ (Passed(t) # {} => t.relevant # {})
    BY DEF Rating, Core
  <1>8. /\ \A p \in Passed(t) : ChildrenIn(h, p) \subseteq t.visited
        /\ \A x \in t.visited : Reached(h, t, x)
        /\ {x \in KnownIn(h) : h.level[x] = 0} \subseteq t.visited
    BY DEF Rating, Core
  <1>9. ASSUME NEW u, u.ratings = ratings
        PROVE  /\ RatedOnce(u) /\ Rated(u) = Rated(t) \cup {c}
               /\ Passed(u) = Passed(t) \cup (IF v.passed THEN {c} ELSE {})
               /\ KeptIn(h, u) = IF v.passed THEN (KeptIn(h, t) \cup {c}) \ parents
                                 ELSE KeptIn(h, t)
               /\ \A x : Reached(h, t, x) => Reached(h, u, x)
    <2> HIDE DEF h
    <2>1. /\ RatedOnce(u) /\ Rated(u) = Rated(t) \cup {c}
          /\ Passed(u) = Passed(t) \cup (IF v.passed THEN {c} ELSE {})
          /\ KeptIn(h, u) = IF v.passed THEN (KeptIn(h, t) \cup {c}) \ parents
                            ELSE KeptIn(h, t)
      BY <1>1, <1>2, <1>4, <1>9, RateOne DEF ratings
    <2>2. Passed(t) \subseteq Passed(u) /\ Rated(t) \ Passed(t) \subseteq Rated(u) \ Passed(u)
      BY <1>4, <2>1
    <2>3. \A x : Reached(h, t, x) => Reached(h, u, x)
      BY <2>2 DEF Reached
    <2> QED
      BY <2>1, <2>3
  <1>10. CASE ~v.passed
    <2>1. Vote(t, v) = rated
      BY <1>10 DEF Vote, rated, ratings
    <2>2. /\ RatedOnce(rated) /\ Rated(rated) = Rated(t) \cup {c} /\ Passed(rated) = Passed(t)
          /\ KeptIn(h, rated) = KeptIn(h, t)
          /\ \A x : Reached(h, t, x) => Reached(h, rated, x)
      BY <1>5, <1>9, <1>10
    <2>3. rated.visited = Rated(rated) \cup left \cup Range(rated.next)
      BY <1>4, <1>5, <1>6, <2>2
    <2>4. Rated(rated) \cap left = {} /\ (Rated(rated) \cup left) \cap Range(rated.next) = {}
      BY <1>4, <1>5, <1>6, <2>2
    <2> HIDE DEF h, left
    <2>5. Core(h, rated, left)
      BY <1>5, <1>6, <1>7, <1>8, <2>2, <2>3, <2>4 DEF Core
    <2>6. Passed(rated) = {} => rated.next = <<>> /\ ByLevel(h, rated)
      BY <1>5, <2>2 DEF Rating, ByLevel, h
    <2> QED
      BY <1>5, <2>1, <2>5, <2>6 DEF Rating, h, left
  <1>11. CASE v.passed
    <2> DEFINE first == Append(t.first, c)
               relevant == (t.relevant \cup {c}) \ parents
               chosen == [[rated EXCEPT !.first = first] EXCEPT !.relevant = relevant]
               D == ChildrenIn(h, c)
               u == FoldLeft(Enqueue, chosen, h.children[c])
    <2>1. Passed(t) \subseteq Rated(t)
      BY <1>1, RatedParts
    <2>2. c \notin t.relevant /\ c \notin Range(t.first)
      BY <1>4, <1>7, <2>1 DEF KeptIn
    <2>3. Vote(t, v) = u
      BY <1>5, <1>11, <2>2 DEF Vote, rated, ratings
    <2>4. /\ first \in Seq(Named(h)) /\ Distinct(first) /\ Range(first) = Range(t.first) \cup {c}
      <3>1. t.first \in Seq(Named(h))
        BY <1>1 DEF Traversals
      <3> QED
        BY <1>1, <1>2, <1>7, <2>2, <3>1, AppendDistinct, AppendIsSeq
    <2>5. relevant \in SUBSET Named(h) /\ c \in relevant
      BY <1>1, <1>2 DEF Traversals
    <2> HIDE DEF first, relevant
    <2>6. /\ chosen \in Traversals(h) /\ chosen.ratings = ratings
          /\ chosen.queue = t.queue /\ chosen.visited = t.visited /\ chosen.relevant = relevant
          /\ chosen.first = first /\ chosen.next = t.next /\ chosen.level = t.level
      BY <1>5, <2>4, <2>5 DEF Traversals
    <2> HIDE DEF chosen
    <2>7. h.children[c] \in Seq(Named(h))
      BY <1>2 DEF WellFormed
    <2>8. Queued(h, chosen, u, D)
      <3>1. Range(chosen.next) \subseteq chosen.visited /\ Distinct(chosen.next)
        BY <1>6, <2>6
      <3> QED
        BY <2>6, <2>7, <3>1, EnqueueAll DEF ChildrenIn
    <2> HIDE DEF u
    <2>9. /\ u \in Traversals(h) /\ u.ratings = ratings /\ u.relevant = relevant
          /\ u.first = first /\ u.level = t.level /\ Distinct(u.next)
          /\ u.visited = t.visited \cup D
          /\ Range(u.next) = Range(t.next) \cup (D \ t.visited)
      BY <2>6, <2>8 DEF Queued
    <2>10. /\ RatedOnce(u) /\ Rated(u) = Rated(t) \cup {c} /\ Passed(u) = Passed(t) \cup {c}
           /\ KeptIn(h, u) = relevant
           /\ \A x : Reached(h, t, x) => Reached(h, u, x)
      BY <1>7, <1>9, <1>11, <2>9 DEF relevant
    <2>11. D \subseteq h.backed
      BY DEF ChildrenIn
    <2>12. u.visited = Rated(u) \cup left \cup Range(u.next)
      BY <1>4, <1>6, <2>9, <2>10
    <2>13. Rated(u) \cap left = {} /\ (Rated(u) \cup left) \cap Range(u.next) = {}
      BY <1>4, <1>6, <2>9, <2>10
    <2>14. \A x \in u.visited : Reached(h, u, x)
      <3>1. \A x \in D : Reached(h, u, x)
        BY <2>10 DEF Reached
      <3> QED
        BY <1>8, <2>9, <2>10, <3>1
    <2>15. \A p \in Passed(u) : ChildrenIn(h, p) \subseteq u.visited
      BY <1>8, <2>9, <2>10
    <2>16. u.visited \subseteq h.backed
      BY <1>6, <2>9, <2>11
    <2> HIDE DEF h, left, D
    <2>17. Core(h, u, left)
      BY <1>7, <1>8, <2>4, <2>5, <2>9, <2>10, <2>12, <2>13, <2>14, <2>15, <2>16 DEF Core
    <2>18. Passed(u) # {}
      BY <2>10
    <2> QED
      BY <2>3, <2>9, <2>17, <2>18 DEF Rating, h, left
  <1> QED
    BY <1>10, <1>11

\* The votes of a wave, in the order of its queue.
LEMMA VoteAll ==
  ASSUME WellFormed(hierarchy), NEW t, Travelled(hierarchy, t),
         NEW votes, IsSeq(votes), Len(votes) = Len(t.queue),
         \A i \in 1..Len(votes) : /\ votes[i] \in Ratings(hierarchy)
                                  /\ votes[i].community = t.queue[i]
                                  /\ votes[i].of = t.queue[i]
  PROVE  /\ Rating(hierarchy, FoldLeft(Vote, t, votes), {})
         /\ FoldLeft(Vote, t, votes).level = t.level
  <1> DEFINE n == Len(votes)
             q == t.queue
             todo(k) == Range(q) \ First(q, k)
             S == [k \in 0..n |-> {u \in Traversals(hierarchy) :
                                      Rating(hierarchy, u, todo(k)) /\ u.level = t.level}]
  <1>1. t \in Traversals(hierarchy) /\ Distinct(q) /\ Rating(hierarchy, t, Range(q))
    BY DEF Travelled, Rating, Core
  <1>2. q \in Seq(Named(hierarchy))
    BY <1>1 DEF Traversals
  <1>3. IsSeq(q) /\ n \in Nat /\ DOMAIN votes = 1..n /\ Len(q) = n
    BY <1>2, SeqIsSeq, SeqParts
  <1>4. t \in S[0]
    <2>1. todo(0) = Range(q)
      BY <1>3, FirstAll
    <2> QED
      BY <1>1, <1>3, <2>1
  <1>5. ASSUME NEW k \in 1..n, NEW u \in S[k - 1] PROVE Vote(u, votes[k]) \in S[k]
    <2>1. k \in 0..n /\ k - 1 \in 0..n /\ k \in Nat \ {0}
      BY <1>3
    <2>2. Rating(hierarchy, u, todo(k - 1)) /\ u.level = t.level
      BY <2>1
    <2>3. First(q, k) = First(q, k - 1) \cup {q[k]}
      BY <2>1, FirstMore
    <2>4. q[k] \in todo(k - 1)
      <3>1. q[k] \in Range(q)
        BY <1>3, SeqParts
      <3>2. q[k] \notin First(q, k - 1)
        BY <1>1, <1>3, <2>1 DEF First, Distinct
      <3> QED
        BY <3>1, <3>2
    <2>5. todo(k) = todo(k - 1) \ {q[k]}
      BY <2>3
    <2> HIDE DEF todo, S
    <2>6. Rating(hierarchy, Vote(u, votes[k]), todo(k)) /\ Vote(u, votes[k]).level = t.level
      BY <2>2, <2>4, <2>5, VoteKeeps
    <2>7. Vote(u, votes[k]) \in Traversals(hierarchy)
      BY <2>6 DEF Rating, Core
    <2> QED
      BY <2>1, <2>6, <2>7 DEF S
  <1> HIDE DEF S
  <1>6. FoldLeft(Vote, t, votes) = VoteFold!Folded(t, votes, n)
    BY <1>3 DEF FoldLeft, MapThenFoldSet, Max, VoteFold!Folded, VoteFold!Iterates, VoteFold!Max
  <1>7. VoteFold!Folded(t, votes, n) \in S[n]
    BY <1>3, <1>4, <1>5, VoteFold!FoldReaches
  <1>8. todo(n) = {}
    BY <1>3, FirstAll
  <1> QED
    BY <1>3, <1>6, <1>7, <1>8, SMTT(30) DEF S
-----------------------------------------------------------------------------
\* From wave to wave: the children of what passed, or the next level.

LEMMA EmptyRange ==
  ASSUME NEW C, NEW s \in Seq(C)
  PROVE  s = <<>> <=> Range(s) = {}
  <1>1. s # <<>> => s[1] \in Range(s)
    BY DEF Range
  <1>2. s = <<>> => Range(s) = {}
    BY DEF Range
  <1> QED
    BY <1>1, <1>2

LEMMA SameRatings ==
  ASSUME NEW h, NEW t, NEW u, u.ratings = t.ratings
  PROVE  /\ Rated(u) = Rated(t) /\ Passed(u) = Passed(t) /\ KeptIn(h, u) = KeptIn(h, t)
         /\ RatedOnce(u) <=> RatedOnce(t)
         /\ \A c : Reached(h, u, c) <=> Reached(h, t, c)
  <1>1. Rated(u) = Rated(t) /\ Passed(u) = Passed(t) /\ (RatedOnce(u) <=> RatedOnce(t))
    BY DEF Rated, Passed, RatedOnce
  <1>2. \A c : Place(u, c) = Place(t, c)
    BY DEF Place
  <1>3. KeptIn(h, u) = KeptIn(h, t)
    BY <1>1, <1>2 DEF KeptIn
  <1>4. \A c : Reached(h, u, c) <=> Reached(h, t, c)
    BY <1>1 DEF Reached
  <1> QED
    BY <1>1, <1>3, <1>4

LEMMA LevelsAreNat ==
  ASSUME NEW h, WellFormed(h)
  PROVE  \A c \in KnownIn(h) : c \in Named(h) /\ h.level[c] \in Nat /\ c \in h.backed
  BY DEF WellFormed, KnownIn

\* The first wave rates level 0.
LEMMA Starts ==
  ASSUME WellFormed(hierarchy), AtLevel(0) # <<>>
  PROVE  Travelled(hierarchy, NewTraversal(AtLevel(0)))
  <1> DEFINE h == hierarchy
             q == AtLevel(0)
             t == NewTraversal(q)
  <1>1. /\ q \in Seq(Named(h)) /\ Distinct(q)
        /\ Range(q) = {c \in KnownIn(h) : h.level[c] = 0}
    BY LevelLists
  <1> HIDE DEF q
  <1>2. /\ t.queue = q /\ t.visited = Range(q) /\ t.relevant = {} /\ t.first = <<>>
        /\ t.next = <<>> /\ t.level = 0 /\ t.ratings = <<>>
    BY DEF NewTraversal
  <1>3. t \in Traversals(h)
    <2>1. Range(q) \subseteq Named(h) /\ <<>> \in Seq(Named(h)) /\ <<>> \in Seq(Ratings(h)) /\ 0 \in Nat
      BY <1>1, SeqIsSeq
    <2> QED
      BY <1>1, <2>1 DEF NewTraversal, Traversals
  <1> HIDE DEF t
  <1>4. Range(<<>>) = {} /\ Distinct(<<>>) /\ \A i \in 1..Len(<<>>) : FALSE
    BY DEF Range, Distinct
  <1>5. Rated(t) = {} /\ Passed(t) = {} /\ RatedOnce(t)
    BY <1>2, <1>4 DEF Rated, Passed, RatedOnce
  <1>6. KeptIn(h, t) = {}
    BY <1>5 DEF KeptIn
  <1>7. \A c \in Range(q) : Reached(h, t, c)
    BY <1>1 DEF Reached
  <1>8. Range(q) \subseteq h.backed
    BY <1>1 DEF KnownIn
  <1>9. Core(h, t, Range(q))
    <2> HIDE DEF h
    <2> QED
      BY <1>1, <1>2, <1>3, <1>4, <1>5, <1>6, <1>7, <1>8 DEF Core
  <1>10. ByLevel(h, t)
    <2>1. \A c \in KnownIn(h) : h.level[c] \in Nat
      BY LevelsAreNat
    <2>2. \E c : c \in Range(q)
      BY <1>1, EmptyRange DEF q
    <2>3. Inhabited(h, 0)
      BY <1>1, <2>2 DEF Inhabited
    <2>4. \A l \in 0..0 : l = 0
      OBVIOUS
    <2>5. MaxLevel \in Nat
      BY EngineAssumption DEF EngineAssumption
    <2> HIDE DEF h
    <2>6. t.visited = {c \in KnownIn(h) : h.level[c] <= t.level}
      BY <1>1, <1>2, <2>1
    <2>7. \A l \in 0..t.level : Inhabited(h, l)
      BY <1>2, <2>3, <2>4
    <2> QED
      BY <1>2, <2>5, <2>6, <2>7 DEF ByLevel
  <1> QED
    BY <1>1, <1>2, <1>9, <1>10 DEF Travelled, Rating, t, q

\* After a wave the children of what passed are queued or, while nothing has
\* passed, the next level.
Requeued(t) == [t EXCEPT !.queue = t.next, !.next = <<>>]
LEMMA WaveEnds ==
  ASSUME WellFormed(hierarchy), NEW u, Rating(hierarchy, u, {})
  PROVE  LET then == Fallback([u EXCEPT !.level = @ + 1])
         IN  /\ IsSeq(then.next) /\ Requeued(then).queue = then.next
             /\ then.next # <<>> => Travelled(hierarchy, Requeued(then))
             /\ then.next = <<>> => Finished(hierarchy, Requeued(then))
             /\ Requeued(then).first = then.first /\ Requeued(then).relevant = then.relevant
  <1> DEFINE h == hierarchy
             L == u.level + 1
             rated == [u EXCEPT !.level = L]
             then == Fallback(rated)
             after == Requeued(then)
             falls == rated.next = <<>> /\ rated.relevant = {} /\ rated.level <= MaxLevel
             D == {c \in KnownIn(h) : h.level[c] = L}
  <1>1. u \in Traversals(h) /\ L \in Nat /\ u.level \in Nat
    BY DEF Rating, Core, Traversals
  <1> HIDE DEF L
  <1>2. /\ rated \in Traversals(h) /\ rated.level = L /\ rated.queue = u.queue
        /\ rated.visited = u.visited /\ rated.relevant = u.relevant /\ rated.first = u.first
        /\ rated.next = u.next /\ rated.ratings = u.ratings
    BY <1>1 DEF Traversals
  <1> HIDE DEF rated
  <1>3. /\ u.visited = Rated(u) \cup Range(u.next) /\ Rated(u) \cap Range(u.next) = {}
        /\ u.visited \subseteq h.backed /\ Distinct(u.next) /\ RatedOnce(u)
        /\ Distinct(u.first) /\ Range(u.first) = Passed(u)
        /\ u.relevant = KeptIn(h, u) /\ (Passed(u) # {} => u.relevant # {})
        /\ \A p \in Passed(u) : ChildrenIn(h, p) \subseteq u.visited
        /\ \A c \in u.visited : Reached(h, u, c)
        /\ {c \in KnownIn(h) : h.level[c] = 0} \subseteq u.visited
    BY DEF Rating, Core
  <1>4. Passed(u) = {} => u.next = <<>> /\ ByLevel(h, u)
    BY DEF Rating
  <1>5. \A c \in KnownIn(h) : c \in Named(h) /\ h.level[c] \in Nat /\ c \in h.backed
    BY LevelsAreNat
  <1>6. MaxLevel \in Nat
    BY EngineAssumption DEF EngineAssumption
  <1>7. ASSUME falls
        PROVE  /\ Queued(h, rated, then, D) /\ Passed(u) = {} /\ u.next = <<>> /\ L <= MaxLevel
    <2>1. then = FoldLeft(Enqueue, rated, AtLevel(L))
      BY <1>2, <1>7 DEF Fallback
    <2>2. AtLevel(L) \in Seq(Named(h)) /\ Range(AtLevel(L)) = D
      BY LevelLists
    <2>3. Distinct(rated.next) /\ Range(rated.next) \subseteq rated.visited
      BY <1>2, <1>3
    <2>4. D \cap h.backed = D
      BY <1>5
    <2> HIDE DEF then, D
    <2>5. Queued(h, rated, then, D)
      BY <1>2, <2>1, <2>2, <2>3, <2>4, EnqueueAll
    <2> QED
      BY <1>2, <1>3, <1>7, <2>5
  <1>8. ~falls => then = rated
    BY DEF Fallback
  <1>9. /\ then \in Traversals(h) /\ then.ratings = u.ratings /\ then.relevant = u.relevant
        /\ then.first = u.first /\ then.level = L /\ Distinct(then.next)
    <2>1. CASE falls
      <3> HIDE DEF then, falls
      <3> QED
        BY <1>2, <1>7, <2>1 DEF Queued
    <2>2. CASE ~falls
      BY <1>2, <1>3, <1>8, <2>2
    <2> QED
      BY <2>1, <2>2
  <1>10. falls => /\ then.visited = u.visited \cup D
                  /\ Range(then.next) = D \ u.visited
    <2>1. Range(<<>>) = {}
      BY DEF Range
    <2> HIDE DEF then, falls
    <2> QED
      BY <1>2, <1>7, <2>1 DEF Queued
  <1>11. ~falls => then.visited = u.visited /\ then.next = u.next
    BY <1>2, <1>8
  <1> HIDE DEF then, D
  <1>12. /\ after \in Traversals(h) /\ after.ratings = u.ratings /\ after.relevant = u.relevant
         /\ after.first = u.first /\ after.level = L /\ after.visited = then.visited
         /\ after.queue = then.next /\ after.next = <<>>
    <2> DEFINE next == then.next
    <2>1. next \in Seq(Named(h)) /\ <<>> \in Seq(Named(h))
      BY <1>9 DEF Traversals
    <2>2. after = [[then EXCEPT !.queue = next] EXCEPT !.next = <<>>]
      BY <1>9 DEF Requeued
    <2> HIDE DEF next, after
    <2>3. /\ after \in Traversals(h) /\ after.ratings = then.ratings
          /\ after.relevant = then.relevant /\ after.first = then.first
          /\ after.level = then.level /\ after.visited = then.visited
          /\ after.queue = next /\ after.next = <<>>
      BY <1>9, <2>1, <2>2 DEF Traversals
    <2> QED
      BY <1>9, <2>3 DEF next
  <1> HIDE DEF after
  <1>13. /\ Rated(after) = Rated(u) /\ Passed(after) = Passed(u)
         /\ KeptIn(h, after) = KeptIn(h, u) /\ RatedOnce(after)
         /\ \A c : Reached(h, after, c) <=> Reached(h, u, c)
    <2> HIDE DEF h
    <2> QED
      BY <1>3, <1>12, SameRatings
  <1>14. u.visited \subseteq after.visited
    BY <1>10, <1>11, <1>12
  <1>15. /\ after.visited = Rated(after) \cup Range(after.queue)
         /\ Rated(after) \cap Range(after.queue) = {}
    <2>1. CASE falls
      <3>1. u.visited = Rated(u)
        BY <1>3, <1>7, <2>1 DEF Range
      <3> QED
        BY <1>10, <1>12, <1>13, <2>1, <3>1
    <2>2. CASE ~falls
      BY <1>3, <1>11, <1>12, <1>13, <2>2
    <2> QED
      BY <2>1, <2>2
  <1>16. after.visited \subseteq h.backed
    <2>1. D \subseteq h.backed
      BY <1>5 DEF D
    <2> QED
      BY <1>3, <1>10, <1>11, <1>12, <2>1
  <1>17. \A c \in after.visited : Reached(h, after, c)
    <2>1. CASE falls
      <3>1. Passed(u) = {} /\ L <= MaxLevel /\ ByLevel(h, u) /\ u.visited = Rated(u)
        BY <1>3, <1>4, <1>7, <2>1 DEF Range
      <3>2. ASSUME NEW c \in D PROVE Reached(h, u, c)
        <4>1. c \in KnownIn(h) /\ h.level[c] = L /\ h.level[c] <= MaxLevel
          BY <3>1 DEF D
        <4>2. ASSUME NEW d \in KnownIn(h), h.level[d] < h.level[c]
              PROVE  d \in Rated(u) \ Passed(u)
          <5>1. h.level[d] <= u.level
            BY <1>1, <1>5, <4>1, <4>2 DEF L
          <5> QED
            BY <3>1, <5>1 DEF ByLevel
        <4> QED
          BY <4>1, <4>2 DEF Reached
      <3> QED
        BY <1>3, <1>10, <1>12, <1>13, <2>1, <3>2
    <2>2. CASE ~falls
      BY <1>3, <1>11, <1>12, <1>13, <2>2
    <2> QED
      BY <2>1, <2>2
  <1>18. Range(<<>>) = {} /\ Distinct(<<>>)
    BY DEF Range, Distinct
  <1>19. Core(h, after, Range(after.queue))
    <2>1. \A p \in Passed(after) : ChildrenIn(h, p) \subseteq after.visited
      BY <1>3, <1>13, <1>14
    <2>2. {c \in KnownIn(h) : h.level[c] = 0} \subseteq after.visited
      BY <1>3, <1>14
    <2> HIDE DEF h
    <2> QED
      BY <1>3, <1>12, <1>13, <1>15, <1>16, <1>17, <1>18, <2>1, <2>2 DEF Core
  <1>20. then.next # <<>> /\ Passed(u) = {} => ByLevel(h, after)
    <2> SUFFICES ASSUME then.next # <<>>, Passed(u) = {} PROVE ByLevel(h, after)
      OBVIOUS
    <2>1. falls
      BY <1>4, <1>11
    <2>2. L <= MaxLevel /\ ByLevel(h, u)
      BY <1>4, <1>7, <2>1
    <2>3. after.visited = {c \in KnownIn(h) : h.level[c] <= L}
      <3>1. \A c \in KnownIn(h) : h.level[c] <= L <=> h.level[c] <= u.level \/ h.level[c] = L
        BY <1>1, <1>5 DEF L
      <3>2. after.visited = u.visited \cup D
        BY <1>10, <1>12, <2>1
      <3> QED
        BY <2>2, <3>1, <3>2 DEF ByLevel, D
    <2>4. Inhabited(h, L)
      <3>1. then.next \in Seq(Named(h))
        BY <1>9 DEF Traversals
      <3>2. \E c : c \in D
        BY <1>10, <2>1, <3>1, EmptyRange
      <3> QED
        BY <3>2 DEF D, Inhabited
    <2>5. \A l \in 0..L : Inhabited(h, l)
      <3>1. \A l \in 0..L : l \in 0..u.level \/ l = L
        BY <1>1 DEF L
      <3> QED
        BY <2>2, <2>4, <3>1 DEF ByLevel
    <2> HIDE DEF h
    <2> QED
      BY <1>12, <2>2, <2>3, <2>5 DEF ByLevel
  <1>21. then.next = <<>> /\ Passed(u) = {} => Exhausted(h, after)
    <2> SUFFICES ASSUME then.next = <<>>, Passed(u) = {} PROVE Exhausted(h, after)
      OBVIOUS
    <2>1. ByLevel(h, u) /\ u.next = <<>> /\ u.relevant = {}
      BY <1>3, <1>4 DEF KeptIn
    <2>2. Rated(after) = {c \in KnownIn(h) : h.level[c] <= u.level}
      BY <1>3, <1>13, <1>18, <2>1 DEF ByLevel
    <2>3. ASSUME NEW c \in KnownIn(h)
          PROVE  h.level[c] <= u.level <=>
                     h.level[c] <= MaxLevel /\ \A l \in 0..h.level[c] : Inhabited(h, l)
      <3>1. h.level[c] <= u.level =>
                h.level[c] <= MaxLevel /\ \A l \in 0..h.level[c] : Inhabited(h, l)
        <4>1. u.level <= MaxLevel /\ \A l \in 0..u.level : Inhabited(h, l)
          BY <2>1 DEF ByLevel
        <4>2. h.level[c] <= u.level => \A l \in 0..h.level[c] : l \in 0..u.level
          BY <1>1, <1>5
        <4> QED
          BY <1>1, <1>5, <1>6, <4>1, <4>2
      <3>2. CASE falls
        <4>1. D = {}
          <5>1. D \ u.visited = {}
            BY <1>10, <1>18, <3>2
          <5>2. D \cap u.visited = {}
            BY <1>1, <2>1 DEF D, ByLevel, L
          <5> QED
            BY <5>1, <5>2
        <4>2. ~Inhabited(h, L)
          BY <4>1 DEF D, Inhabited
        <4>3. ~(h.level[c] <= u.level) => L \in 0..h.level[c]
          BY <1>1, <1>5 DEF L
        <4> QED
          BY <3>1, <4>2, <4>3
      <3>3. CASE ~falls
        <4>1. ~(L <= MaxLevel)
          BY <1>2, <2>1, <3>3
        <4>2. h.level[c] <= MaxLevel => h.level[c] <= u.level
          BY <1>1, <1>5, <1>6, <4>1 DEF L
        <4> QED
          BY <3>1, <4>2
      <3> QED
        BY <3>2, <3>3
    <2> HIDE DEF h
    <2> QED
      BY <2>2, <2>3 DEF Exhausted
  <1>22. IsSeq(then.next)
    <2>1. then.next \in Seq(Named(h))
      BY <1>9 DEF Traversals
    <2> QED
      BY <2>1, SeqIsSeq
  <1>23. then.next # <<>> => Travelled(h, after)
    <2> HIDE DEF h
    <2> QED
      BY <1>9, <1>12, <1>13, <1>19, <1>20 DEF Travelled, Rating
  <1>24. then.next = <<>> => Finished(h, after)
    <2> HIDE DEF h
    <2> QED
      BY <1>12, <1>13, <1>18, <1>19, <1>21 DEF Finished
  <1>25. /\ IsSeq(then.next) /\ after.queue = then.next
         /\ then.next # <<>> => Travelled(h, after)
         /\ then.next = <<>> => Finished(h, after)
         /\ after.first = then.first /\ after.relevant = then.relevant
    BY <1>9, <1>12, <1>22, <1>23, <1>24
  <1> QED
    BY <1>25 DEF after, then, rated, L

\* What a finished traversal has selected.
Exact(h, t) ==
    /\ {c \in KnownIn(h) : h.level[c] = 0} \subseteq Rated(t)
    /\ \A c \in Passed(t) : ChildrenIn(h, c) \subseteq Rated(t)
    /\ \A c \in Rated(t) :
           \/ c \in KnownIn(h) /\ h.level[c] = 0
           \/ \E p \in Passed(t) : c \in ChildrenIn(h, p)
           \/ /\ c \in KnownIn(h) /\ h.level[c] <= MaxLevel
              /\ \A p \in Passed(t) \cap KnownIn(h) : h.level[p] >= h.level[c]
    /\ Passed(t) = {} => Exhausted(h, t)
    /\ Range(Selected(t)) = KeptIn(h, t) /\ Len(Selected(t)) = Cardinality(KeptIn(h, t))
LEMMA FinishedIsExact ==
  ASSUME NEW h, WellFormed(h), NEW t, Finished(h, t)
  PROVE  Exact(h, t)
  <1>1. /\ t.visited = Rated(t) /\ Distinct(t.first) /\ Range(t.first) = Passed(t)
        /\ t.relevant = KeptIn(h, t) /\ t \in Traversals(h)
        /\ \A p \in Passed(t) : ChildrenIn(h, p) \subseteq t.visited
        /\ \A c \in t.visited : Reached(h, t, c)
        /\ {c \in KnownIn(h) : h.level[c] = 0} \subseteq t.visited
    <2>1. Range(<<>>) = {}
      BY DEF Range
    <2> QED
      BY <2>1 DEF Finished, Core
  <1>2. \A c \in KnownIn(h) : h.level[c] \in Nat
    BY LevelsAreNat
  <1>3. ASSUME NEW c \in Rated(t)
        PROVE  \/ c \in KnownIn(h) /\ h.level[c] = 0
               \/ \E p \in Passed(t) : c \in ChildrenIn(h, p)
               \/ /\ c \in KnownIn(h) /\ h.level[c] <= MaxLevel
                  /\ \A p \in Passed(t) \cap KnownIn(h) : h.level[p] >= h.level[c]
    <2>1. Reached(h, t, c)
      BY <1>1
    <2>2. ASSUME c \in KnownIn(h), NEW p \in Passed(t) \cap KnownIn(h),
                 \A d \in KnownIn(h) : h.level[d] < h.level[c] => d \in Rated(t) \ Passed(t)
          PROVE  h.level[p] >= h.level[c]
      BY <1>2, <2>2
    <2> QED
      BY <2>1, <2>2 DEF Reached
  <1>4. /\ IsSeq(Selected(t)) /\ Distinct(Selected(t))
        /\ Range(Selected(t)) = KeptIn(h, t)
    <2>1. t.first \in Seq(Named(h))
      BY <1>1 DEF Traversals
    <2>2. /\ IsSeq(Selected(t)) /\ Distinct(Selected(t))
          /\ Range(Selected(t)) = Range(t.first) \cap t.relevant
      BY <1>1, <2>1, SelectedOnce
    <2>3. KeptIn(h, t) \subseteq Passed(t)
      BY DEF KeptIn
    <2> QED
      BY <1>1, <2>2, <2>3
  <1>5. Len(Selected(t)) = Cardinality(KeptIn(h, t))
    BY <1>4, DistinctSize
  <1>6. Passed(t) = {} => Exhausted(h, t)
    BY DEF Finished
  <1> QED
    BY <1>1, <1>3, <1>4, <1>5, <1>6 DEF Exact
-----------------------------------------------------------------------------
\* The search as a whole.

\* One search: its wave, graph, rounds and traversal, at place p.
Searching(h, method, p, w, g, d, t) ==
    /\ WaveInv(w) /\ (p \in Waves => Replied(w, p))
    /\ g \in Graphs /\ d \in 0..MaxDepth
    /\ IsSeq(t.ratings) /\ RatedOnce(t)
    /\ p = "Map" => \A i \in 1..Len(w.tasks) : w.tasks[i] = i
    /\ p = "Rate" => w.tasks = t.queue /\ Travelled(h, t)
    /\ p = "Map" /\ method = "Dynamic" => Finished(h, t)
SearchInv ==
    /\ [asks |-> config, hierarchy |-> hierarchy] \in Scenarios
    /\ pc = [r \in Requests |-> pc[r]] /\ wave = [r \in Requests |-> wave[r]]
    /\ graph = [r \in Requests |-> graph[r]] /\ depth = [r \in Requests |-> depth[r]]
    /\ traversal = [r \in Requests |-> traversal[r]]
    /\ \A r \in Requests : Searching(hierarchy, config[r].method, pc[r], wave[r], graph[r],
                                     depth[r], traversal[r])
-----------------------------------------------------------------------------
LEMMA HierarchyWellFormed ==
  ASSUME [asks |-> config, hierarchy |-> hierarchy] \in Scenarios
  PROVE  WellFormed(hierarchy)
  <1> DEFINE s == [asks |-> config, hierarchy |-> hierarchy]
  <1>1. s \in Scenarios /\ s.hierarchy = hierarchy
    OBVIOUS
  <1> HIDE DEF s
  <1> QED
    BY <1>1, HierarchyAssumption DEF HierarchyAssumption, WellFormed, Named

LEMMA SearchParts ==
  ASSUME SearchInv, NEW r \in Requests
  PROVE  /\ Searching(hierarchy, config[r].method, pc[r], wave[r], graph[r], depth[r],
                      traversal[r])
         /\ pc = [pc EXCEPT ![r] = pc[r]]
         /\ wave = [wave EXCEPT ![r] = wave[r]] /\ graph = [graph EXCEPT ![r] = graph[r]]
         /\ depth = [depth EXCEPT ![r] = depth[r]]
         /\ traversal = [traversal EXCEPT ![r] = traversal[r]]
         /\ WellFormed(hierarchy)
  <1> USE DEF SearchInv
  <1>1. pc = [pc EXCEPT ![r] = pc[r]] /\ wave = [wave EXCEPT ![r] = wave[r]]
    OBVIOUS
  <1>2. graph = [graph EXCEPT ![r] = graph[r]] /\ depth = [depth EXCEPT ![r] = depth[r]]
    OBVIOUS
  <1>3. traversal = [traversal EXCEPT ![r] = traversal[r]]
    OBVIOUS
  <1>4. WellFormed(hierarchy)
    BY HierarchyWellFormed
  <1> QED
    BY <1>1, <1>2, <1>3, <1>4

\* Every search but that of r stays where it is.
OnlyAt(r, f, g) ==
    /\ g = [q \in Requests |-> g[q]]
    /\ \A q \in Requests : q # r => g[q] = f[q]

LEMMA OnlyThere ==
  ASSUME NEW f, f = [q \in Requests |-> f[q]], NEW r \in Requests, NEW g, NEW x,
         g = [f EXCEPT ![r] = x]
  PROVE  OnlyAt(r, f, g) /\ g[r] = x
  BY DEF OnlyAt

LEMMA Stays ==
  ASSUME SearchInv, NEW r \in Requests
  PROVE  /\ pc' = pc => OnlyAt(r, pc, pc')
         /\ wave' = wave => OnlyAt(r, wave, wave')
         /\ graph' = graph => OnlyAt(r, graph, graph')
         /\ depth' = depth => OnlyAt(r, depth, depth')
         /\ traversal' = traversal => OnlyAt(r, traversal, traversal')
  <1>1. pc' = pc => OnlyAt(r, pc, pc')
    BY DEF SearchInv, OnlyAt
  <1>2. wave' = wave => OnlyAt(r, wave, wave')
    BY DEF SearchInv, OnlyAt
  <1>3. graph' = graph => OnlyAt(r, graph, graph')
    BY DEF SearchInv, OnlyAt
  <1>4. depth' = depth => OnlyAt(r, depth, depth')
    BY DEF SearchInv, OnlyAt
  <1>5. traversal' = traversal => OnlyAt(r, traversal, traversal')
    BY DEF SearchInv, OnlyAt
  <1> QED
    BY <1>1, <1>2, <1>3, <1>4, <1>5

LEMMA SetAt ==
  ASSUME SearchInv, NEW r \in Requests, NEW x
  PROVE  /\ pc' = [pc EXCEPT ![r] = x] => OnlyAt(r, pc, pc') /\ pc'[r] = x
         /\ wave' = [wave EXCEPT ![r] = x] => OnlyAt(r, wave, wave') /\ wave'[r] = x
         /\ graph' = [graph EXCEPT ![r] = x] => OnlyAt(r, graph, graph') /\ graph'[r] = x
         /\ depth' = [depth EXCEPT ![r] = x] => OnlyAt(r, depth, depth') /\ depth'[r] = x
         /\ traversal' = [traversal EXCEPT ![r] = x] =>
                OnlyAt(r, traversal, traversal') /\ traversal'[r] = x
  <1>1. pc' = [pc EXCEPT ![r] = x] => OnlyAt(r, pc, pc') /\ pc'[r] = x
    BY OnlyThere DEF SearchInv
  <1>2. wave' = [wave EXCEPT ![r] = x] => OnlyAt(r, wave, wave') /\ wave'[r] = x
    BY OnlyThere DEF SearchInv
  <1>3. graph' = [graph EXCEPT ![r] = x] => OnlyAt(r, graph, graph') /\ graph'[r] = x
    BY OnlyThere DEF SearchInv
  <1>4. depth' = [depth EXCEPT ![r] = x] => OnlyAt(r, depth, depth') /\ depth'[r] = x
    BY OnlyThere DEF SearchInv
  <1>5. traversal' = [traversal EXCEPT ![r] = x] =>
            OnlyAt(r, traversal, traversal') /\ traversal'[r] = x
    BY OnlyThere DEF SearchInv
  <1> QED
    BY <1>1, <1>2, <1>3, <1>4, <1>5

\* One search moves, the others stay where they are.
LEMMA SearchMoves ==
  ASSUME SearchInv, NEW r \in Requests, UNCHANGED <<config, hierarchy>>,
         OnlyAt(r, pc, pc'), OnlyAt(r, wave, wave'), OnlyAt(r, graph, graph'),
         OnlyAt(r, depth, depth'), OnlyAt(r, traversal, traversal'),
         Searching(hierarchy, config[r].method, pc'[r], wave'[r], graph'[r], depth'[r],
                   traversal'[r])
  PROVE  SearchInv'
  <1>1. /\ [asks |-> config, hierarchy |-> hierarchy]' \in Scenarios
        /\ pc' = [q \in Requests |-> pc'[q]] /\ wave' = [q \in Requests |-> wave'[q]]
        /\ graph' = [q \in Requests |-> graph'[q]] /\ depth' = [q \in Requests |-> depth'[q]]
        /\ traversal' = [q \in Requests |-> traversal'[q]]
    BY DEF SearchInv, OnlyAt
  <1>2. ASSUME NEW q \in Requests
        PROVE  Searching(hierarchy, config[q].method, pc'[q], wave'[q], graph'[q], depth'[q],
                         traversal'[q])
    <2>1. CASE q = r
      BY <2>1
    <2>2. CASE q # r
      <3>1. /\ pc'[q] = pc[q] /\ wave'[q] = wave[q] /\ graph'[q] = graph[q]
            /\ depth'[q] = depth[q] /\ traversal'[q] = traversal[q]
        BY <2>2 DEF OnlyAt
      <3>2. Searching(hierarchy, config[q].method, pc[q], wave[q], graph[q], depth[q],
                      traversal[q])
        BY DEF SearchInv
      <3> QED
        BY <3>1, <3>2
    <2> QED
      BY <2>1, <2>2
  <1>3. hierarchy' = hierarchy /\ config' = config
    OBVIOUS
  <1> QED
    BY <1>1, <1>2, <1>3 DEF SearchInv

\* A move between the waves.
LEMMA QuietMoves ==
  ASSUME SearchInv, NEW r \in Requests, NEW p, p \notin Waves,
         UNCHANGED <<config, hierarchy, graph, depth, traversal>>,
         pc' = [pc EXCEPT ![r] = p],
         wave' = wave \/ wave' = [wave EXCEPT ![r] = NoWave]
  PROVE  SearchInv'
  <1>1. Searching(hierarchy, config[r].method, pc[r], wave[r], graph[r], depth[r], traversal[r])
    BY SearchParts
  <1>2. p # "Map" /\ p # "Rate"
    BY DEF Waves
  <1>3. OnlyAt(r, wave, wave') /\ WaveInv(wave'[r])
    <2>1. WaveInv(wave[r])
      BY <1>1 DEF Searching
    <2> QED
      BY <2>1, Stays, SetAt, EmptyWave
  <1>4. pc'[r] = p /\ OnlyAt(r, pc, pc')
    BY SetAt
  <1>5. /\ OnlyAt(r, graph, graph') /\ OnlyAt(r, depth, depth')
        /\ OnlyAt(r, traversal, traversal')
    BY Stays
  <1>6. Searching(hierarchy, config[r].method, p, wave'[r], graph[r], depth[r], traversal[r])
    BY <1>1, <1>2, <1>3 DEF Searching
  <1> QED
    BY <1>3, <1>4, <1>5, <1>6, SearchMoves

\* A wave begins.
LEMMA WaveBegins ==
  ASSUME SearchInv, NEW r \in Requests, NEW p, NEW tasks, NEW d, NEW t,
         IsSeq(tasks), d \in 0..MaxDepth, IsSeq(t.ratings), RatedOnce(t),
         p = "Map" => \A i \in 1..Len(tasks) : tasks[i] = i,
         p = "Rate" => tasks = t.queue /\ Travelled(hierarchy, t),
         p = "Map" /\ config[r].method = "Dynamic" => Finished(hierarchy, t),
         UNCHANGED <<config, hierarchy, graph>>, StartWave(r, p, tasks),
         depth' = [depth EXCEPT ![r] = d], traversal' = [traversal EXCEPT ![r] = t]
  PROVE  SearchInv'
  <1>1. WaveInv(WaveOf(tasks)) /\ WaveOf(tasks).tasks = tasks /\ Replied(WaveOf(tasks), p)
    BY NewWave
  <1>2. graph[r] \in Graphs
    BY SearchParts DEF Searching
  <1>3. Searching(hierarchy, config[r].method, p, WaveOf(tasks), graph[r], d, t)
    BY <1>1, <1>2 DEF Searching
  <1>4. /\ OnlyAt(r, pc, pc') /\ pc'[r] = p
        /\ OnlyAt(r, wave, wave') /\ wave'[r] = WaveOf(tasks)
    BY SetAt DEF StartWave
  <1>5. /\ OnlyAt(r, depth, depth') /\ depth'[r] = d
        /\ OnlyAt(r, traversal, traversal') /\ traversal'[r] = t
    BY SetAt
  <1>6. OnlyAt(r, graph, graph') /\ graph'[r] = graph[r]
    BY Stays
  <1> QED
    BY <1>3, <1>4, <1>5, <1>6, SearchMoves

LEMMA Numbered ==
  ASSUME NEW n \in Nat
  PROVE  /\ IsSeq([i \in 1..n |-> i]) /\ Len([i \in 1..n |-> i]) = n
         /\ \A i \in 1..n : [j \in 1..n |-> j][i] = i
  <1> DEFINE s == [i \in 1..n |-> i]
  <1>1. s = [i \in 1..n |-> s[i]] /\ \A i \in 1..n : s[i] = i
    OBVIOUS
  <1> HIDE DEF s
  <1>2. IsSeq(s) /\ Len(s) = n
    BY <1>1, SeqByDomain
  <1> QED
    BY <1>1, <1>2 DEF s

LEMMA BatchesAreNumbered ==
  ASSUME NEW n \in Nat
  PROVE  /\ IsSeq(Batches(n))
         /\ \A i \in 1..Len(Batches(n)) : Batches(n)[i] = i
  <1> DEFINE m == (n + BatchSize - 1) \div BatchSize
  <1>1. BatchSize \in Nat \ {0}
    BY EngineAssumption DEF EngineAssumption
  <1>2. m \in Nat
    BY <1>1
  <1> HIDE DEF m
  <1>3. Batches(n) = [i \in 1..m |-> i]
    BY DEF Batches, m
  <1> QED
    BY <1>2, <1>3, Numbered
-----------------------------------------------------------------------------
LEMMA ReplyKeeps ==
  ASSUME SearchInv, NEW r \in Requests, Reply(r)
  PROVE  SearchInv'
  <1>0. PICK i \in InFlight(r) : \E reply \in Replies(pc[r], wave[r].tasks[i]) :
            wave' = [wave EXCEPT ![r] = After(wave[r], i, reply)]
    BY Zenon DEF Reply
  <1>1. PICK reply \in Replies(pc[r], wave[r].tasks[i]) :
            wave' = [wave EXCEPT ![r] = After(wave[r], i, reply)]
    BY <1>0
  <1>2. pc[r] \in Waves /\ UNCHANGED <<config, hierarchy, pc, graph, depth, traversal>>
    BY DEF Reply
  <1>3. Searching(hierarchy, config[r].method, pc[r], wave[r], graph[r], depth[r], traversal[r])
    BY SearchParts
  <1>4. i \in 1..wave[r].started /\ \A j \in DOMAIN wave[r].done : wave[r].done[j].index # i
    BY DEF InFlight
  <1>5. /\ WaveInv(After(wave[r], i, reply)) /\ Replied(After(wave[r], i, reply), pc[r])
        /\ After(wave[r], i, reply).tasks = wave[r].tasks
    BY <1>2, <1>3, <1>4, ReplyWave DEF Searching
  <1>6. Searching(hierarchy, config[r].method, pc[r], After(wave[r], i, reply), graph[r],
                  depth[r], traversal[r])
    BY <1>3, <1>5 DEF Searching
  <1>7. OnlyAt(r, wave, wave') /\ wave'[r] = After(wave[r], i, reply)
    BY <1>1, SetAt
  <1>8. /\ OnlyAt(r, pc, pc') /\ OnlyAt(r, graph, graph') /\ OnlyAt(r, depth, depth')
        /\ OnlyAt(r, traversal, traversal')
    BY <1>2, Stays
  <1> QED
    BY <1>2, <1>6, <1>7, <1>8, SearchMoves

\* When every call of a wave has replied, the results are those of its tasks.
LEMMA CollectedResults ==
  ASSUME SearchInv, NEW r \in Requests, NEW stage \in Waves, Collected(r, stage)
  PROVE  /\ IsSeq(Results(r)) /\ Len(Results(r)) = Len(wave[r].tasks)
         /\ DOMAIN Results(r) = 1..Len(wave[r].tasks)
         /\ \A i \in 1..Len(wave[r].tasks) :
                Results(r)[i] \in Replies(stage, wave[r].tasks[i])
         /\ IsSeq(wave[r].tasks)
  <1>1. WaveInv(wave[r]) /\ Replied(wave[r], stage) /\ Len(wave[r].done) = Len(wave[r].tasks)
    BY SearchParts DEF Collected, Searching
  <1>2. IsSeq(wave[r].tasks)
    BY <1>1 DEF WaveInv
  <1>3. /\ IsSeq(Results(r)) /\ Len(Results(r)) = Len(wave[r].tasks)
        /\ \A i \in 1..Len(wave[r].tasks) :
               Results(r)[i] \in Replies(stage, wave[r].tasks[i])
    BY <1>1, OrderedReplies DEF Results
  <1> QED
    BY <1>2, <1>3, SeqParts

LEMMA PrepareKeeps ==
  ASSUME SearchInv, NEW r \in Requests, Prepare(r)
  PROVE  SearchInv'
  <1>1. UNCHANGED <<config, hierarchy>> /\ WellFormed(hierarchy)
    BY SearchParts DEF Prepare
  <1>2. Searching(hierarchy, config[r].method, pc[r], wave[r], graph[r], depth[r], traversal[r])
    BY SearchParts
  <1>3. /\ depth[r] \in 0..MaxDepth /\ IsSeq(traversal[r].ratings) /\ RatedOnce(traversal[r])
    BY <1>2 DEF Searching
  <1>4. CASE Go(r, "Handshake") /\ UNCHANGED searching
    BY <1>1, <1>4, QuietMoves DEF Go, searching, Waves
  <1>5. CASE Go(r, "Failed") /\ UNCHANGED searching
    BY <1>1, <1>5, QuietMoves DEF Go, searching, Waves
  <1>6. CASE StartWave(r, "Primer", [i \in 1..Folds |-> i]) /\ UNCHANGED <<graph, depth, traversal>>
    <2>1. Folds \in Nat
      BY EngineAssumption DEF EngineAssumption
    <2>2. IsSeq([i \in 1..Folds |-> i])
      BY <2>1, Numbered
    <2>3. /\ depth' = [depth EXCEPT ![r] = depth[r]]
          /\ traversal' = [traversal EXCEPT ![r] = traversal[r]]
      BY <1>6, SearchParts
    <2> QED
      BY <1>1, <1>3, <1>6, <2>2, <2>3, WaveBegins
  <1>7. CASE /\ config[r].method = "Global"
             /\ StartWave(r, "Map", Batches(Cardinality(hierarchy.backed)))
             /\ UNCHANGED <<graph, depth, traversal>>
    <2>1. Cardinality(hierarchy.backed) \in Nat
      BY <1>1, FS_CardinalityType DEF WellFormed
    <2> DEFINE tasks == Batches(Cardinality(hierarchy.backed))
    <2>2. IsSeq(tasks) /\ \A i \in 1..Len(tasks) : tasks[i] = i
      BY <2>1, BatchesAreNumbered
    <2>3. StartWave(r, "Map", tasks)
      BY <1>7
    <2> HIDE DEF tasks
    <2> QED
      BY <1>1, <1>3, <1>7, <2>2, <2>3, SearchParts, WaveBegins
  <1>8. CASE /\ AtLevel(0) # <<>> /\ StartWave(r, "Rate", AtLevel(0))
             /\ traversal' = [traversal EXCEPT ![r] = NewTraversal(AtLevel(0))]
             /\ UNCHANGED <<graph, depth>>
    <2> DEFINE t == NewTraversal(AtLevel(0))
    <2>1. Travelled(hierarchy, t)
      BY <1>1, <1>8, Starts
    <2>2. t.queue = AtLevel(0) /\ t.ratings = <<>>
      BY DEF NewTraversal
    <2>3. IsSeq(t.ratings) /\ RatedOnce(t)
      <3>1. IsSeq(<<>>) /\ Len(<<>>) = 0 /\ \A i \in 1..0 : FALSE
        BY DEF IsSeq
      <3> HIDE DEF t
      <3> QED
        BY <2>2, <3>1 DEF RatedOnce
    <2>4. IsSeq(AtLevel(0))
      BY <1>1, LevelLists, SeqIsSeq
    <2>5. traversal' = [traversal EXCEPT ![r] = t]
      BY <1>8
    <2> HIDE DEF t
    <2> QED
      BY <1>1, <1>3, <1>8, <2>1, <2>2, <2>3, <2>4, <2>5, SearchParts, WaveBegins
  <1> QED
    BY <1>4, <1>5, <1>6, <1>7, <1>8 DEF Prepare

LEMMA PrimerKeeps ==
  ASSUME SearchInv, NEW r \in Requests, CollectPrimer(r)
  PROVE  SearchInv'
  <1>1. /\ Collected(r, "Primer") /\ wave' = [wave EXCEPT ![r] = NoWave]
        /\ UNCHANGED <<config, hierarchy, depth, traversal>>
    BY DEF CollectPrimer
  <1>2. CASE Go(r, "Failed") /\ UNCHANGED graph
    BY <1>1, <1>2, QuietMoves DEF Go, Waves
  <1>3. CASE /\ graph' = [graph EXCEPT ![r] =
                    FoldLeft(AddFollowUps, <<[text |-> Question, answer |-> Question]>>,
                             Results(r))]
             /\ Go(r, "Select")
    <2> DEFINE g == FoldLeft(AddFollowUps, <<[text |-> Question, answer |-> Question]>>,
                             Results(r))
    <2>1. /\ IsSeq(Results(r)) /\ Len(Results(r)) = Len(wave[r].tasks)
          /\ \A i \in 1..Len(wave[r].tasks) :
                 Results(r)[i] \in Replies("Primer", wave[r].tasks[i])
      BY <1>1, CollectedResults DEF Waves
    <2>2. \A i \in 1..Len(Results(r)) : Results(r)[i].followups \in FollowUps
      <3>1. \A x : \A y \in Replies("Primer", x) : y.followups \in FollowUps
        BY DEF Replies
      <3> QED
        BY <2>1, <3>1
    <2>3. g \in Graphs
      BY <2>1, <2>2, PrimerGraph
    <2>4. graph' = [graph EXCEPT ![r] = g] /\ pc' = [pc EXCEPT ![r] = "Select"]
      BY <1>3 DEF Go
    <2> HIDE DEF g
    <2>5. Searching(hierarchy, config[r].method, "Select", NoWave, g, depth[r], traversal[r])
      BY <2>3, SearchParts, EmptyWave DEF Searching, Waves
    <2>6. OnlyAt(r, depth, depth') /\ OnlyAt(r, traversal, traversal')
      BY <1>1, Stays
    <2>7. /\ OnlyAt(r, pc, pc') /\ pc'[r] = "Select"
          /\ OnlyAt(r, wave, wave') /\ wave'[r] = NoWave
          /\ OnlyAt(r, graph, graph') /\ graph'[r] = g
      BY <1>1, <2>4, SetAt
    <2> QED
      BY <1>1, <2>5, <2>6, <2>7, SearchMoves
  <1> QED
    BY <1>2, <1>3 DEF CollectPrimer

LEMMA SelectKeeps ==
  ASSUME SearchInv, NEW r \in Requests, SelectActions(r)
  PROVE  SearchInv'
  <1> DEFINE ids == IncompleteIds(graph[r])
             size == IF Cardinality(ids) < KFollowUps THEN Cardinality(ids) ELSE KFollowUps
  <1>1. UNCHANGED <<config, hierarchy, graph, traversal>>
    BY DEF SelectActions
  <1>2. Searching(hierarchy, config[r].method, pc[r], wave[r], graph[r], depth[r], traversal[r])
    BY SearchParts
  <1>3. CASE Go(r, "Context") /\ UNCHANGED <<wave, depth>>
    BY <1>1, <1>3, QuietMoves DEF Go, Waves
  <1>4. CASE /\ depth[r] # MaxDepth
             /\ \E chosen \in [1..size -> ids] :
                    /\ IsInjective(chosen)
                    /\ StartWave(r, "Depth", [i \in 1..size |-> graph[r][chosen[i]].text])
             /\ depth' = [depth EXCEPT ![r] = @ + 1]
    <2>1. size \in Nat
      <3>1. IsFiniteSet(ids)
        <4>1. graph[r] \in Seq(Node)
          BY <1>2 DEF Searching, Graphs
        <4>2. ids \in SUBSET (1..Len(graph[r])) /\ Len(graph[r]) \in Nat
          BY <4>1 DEF IncompleteIds
        <4> QED
          BY <4>2, IntervalSize, FS_Subset
      <3>2. Cardinality(ids) \in Nat
        BY <3>1, FS_CardinalityType
      <3>3. KFollowUps \in Nat
        BY EngineAssumption DEF EngineAssumption
      <3> QED
        BY <3>2, <3>3
    <2>2. depth[r] + 1 \in 0..MaxDepth /\ depth' = [depth EXCEPT ![r] = depth[r] + 1]
      <3>1. MaxDepth \in Nat /\ depth[r] \in 0..MaxDepth
        BY <1>2, EngineAssumption DEF EngineAssumption, Searching
      <3> QED
        BY <1>4, <3>1
    <2> HIDE DEF size, ids
    <2>3. PICK chosen \in [1..size -> ids] :
              StartWave(r, "Depth", [i \in 1..size |-> graph[r][chosen[i]].text])
      BY <1>4
    <2> DEFINE tasks == [i \in 1..size |-> graph[r][chosen[i]].text]
    <2>4. tasks = [i \in 1..size |-> tasks[i]] /\ StartWave(r, "Depth", tasks)
      BY <2>3
    <2> HIDE DEF tasks
    <2>5. IsSeq(tasks)
      BY <2>1, <2>4, SeqByDomain
    <2>6. IsSeq(traversal[r].ratings) /\ RatedOnce(traversal[r])
      BY <1>2 DEF Searching
    <2> QED
      BY <1>1, <2>2, <2>4, <2>5, <2>6, SearchParts, WaveBegins
  <1> QED
    BY <1>3, <1>4 DEF SelectActions

LEMMA DepthKeeps ==
  ASSUME SearchInv, NEW r \in Requests, CollectDepth(r)
  PROVE  SearchInv'
  <1> DEFINE results == [i \in DOMAIN Results(r) |->
                            [text |-> wave[r].tasks[i], reply |-> Results(r)[i]]]
             g == FoldLeft(Apply, graph[r], results)
             n == Len(wave[r].tasks)
  <1>1. /\ Collected(r, "Depth") /\ wave' = [wave EXCEPT ![r] = NoWave]
        /\ graph' = [graph EXCEPT ![r] = g] /\ pc' = [pc EXCEPT ![r] = "Select"]
        /\ UNCHANGED <<config, hierarchy, depth, traversal>>
    BY DEF CollectDepth, Go
  <1>2. /\ DOMAIN Results(r) = 1..n /\ IsSeq(wave[r].tasks)
        /\ \A i \in 1..n : Results(r)[i] \in Replies("Depth", wave[r].tasks[i])
    BY <1>1, CollectedResults DEF Waves
  <1>3. n \in Nat
    BY <1>2, SeqParts
  <1>4. \A i \in 1..n : results[i].text = wave[r].tasks[i] /\ results[i].reply = Results(r)[i]
    BY <1>2
  <1>5. results = [i \in 1..n |-> results[i]]
    BY <1>2
  <1> HIDE DEF results
  <1>6. IsSeq(results) /\ Len(results) = n
    BY <1>3, <1>5, SeqByDomain
  <1>7. \A x : \A y \in Replies("Depth", x) : y.of = x /\ y.followups \in FollowUps
    BY DEF Replies
  <1>8. \A i \in 1..Len(results) : /\ results[i].reply.of = results[i].text
                                   /\ results[i].reply.followups \in FollowUps
    BY <1>2, <1>4, <1>6, <1>7
  <1>9. g \in Graphs
    <2>1. graph[r] \in Graphs
      BY SearchParts DEF Searching
    <2> QED
      BY <1>6, <1>8, <2>1, DepthGraph
  <1> HIDE DEF g
  <1>10. Searching(hierarchy, config[r].method, "Select", NoWave, g, depth[r], traversal[r])
    BY <1>9, SearchParts, EmptyWave DEF Searching, Waves
  <1>11. OnlyAt(r, depth, depth') /\ OnlyAt(r, traversal, traversal')
    BY <1>1, Stays
  <1>12. /\ OnlyAt(r, pc, pc') /\ pc'[r] = "Select"
         /\ OnlyAt(r, wave, wave') /\ wave'[r] = NoWave
         /\ OnlyAt(r, graph, graph') /\ graph'[r] = g
    BY <1>1, SetAt
  <1> QED
    BY <1>1, <1>10, <1>11, <1>12, SearchMoves

LEMMA RatingsKeep ==
  ASSUME SearchInv, NEW r \in Requests, CollectRatings(r)
  PROVE  SearchInv'
  <1> DEFINE t == traversal[r]
             u == FoldLeft(Vote, t, Votes(r))
             then == Fallback([u EXCEPT !.level = @ + 1])
             after == Requeued(then)
             n == Len(wave[r].tasks)
  <1>1. Collected(r, "Rate") /\ UNCHANGED <<config, hierarchy, graph, depth>>
    BY DEF CollectRatings
  <1>2. traversal' = [traversal EXCEPT ![r] = after]
    BY DEF CollectRatings, Requeued
  <1>3. IF then.next = <<>> THEN StartWave(r, "Map", Batches(Len(Selected(then))))
        ELSE StartWave(r, "Rate", then.next)
    BY DEF CollectRatings
  <1>4. /\ WellFormed(hierarchy) /\ Travelled(hierarchy, t) /\ wave[r].tasks = t.queue
        /\ depth[r] \in 0..MaxDepth
    BY <1>1, SearchParts DEF Searching, Collected
  <1>5. /\ DOMAIN Results(r) = 1..n /\ IsSeq(wave[r].tasks)
        /\ \A i \in 1..n : Results(r)[i] \in Replies("Rate", wave[r].tasks[i])
    BY <1>1, CollectedResults DEF Waves
  <1>6. n \in Nat /\ n = Len(t.queue)
    BY <1>4, <1>5, SeqParts
  <1>7. \A x : \A y \in Replies("Rate", x) : y.of = x /\ y.passed \in BOOLEAN
    BY DEF Replies
  <1>8. IsSeq(Votes(r)) /\ Len(Votes(r)) = n
    <2>1. Votes(r) = [i \in 1..n |-> Votes(r)[i]]
      BY <1>5 DEF Votes
    <2> QED
      BY <1>6, <2>1, SeqByDomain
  <1>9. ASSUME NEW i \in 1..n
        PROVE  /\ Votes(r)[i] \in Ratings(hierarchy)
               /\ Votes(r)[i].community = t.queue[i] /\ Votes(r)[i].of = t.queue[i]
    <2>1. t.queue[i] \in Named(hierarchy)
      <3>1. t.queue \in Seq(Named(hierarchy))
        BY <1>4 DEF Travelled, Rating, Core, Traversals
      <3> QED
        BY <1>6, <3>1
    <2> DEFINE passed == Results(r)[i].passed
    <2>2. Results(r)[i].of = t.queue[i] /\ passed \in BOOLEAN
      BY <1>4, <1>5, <1>7
    <2>3. Votes(r)[i] = [community |-> t.queue[i], of |-> t.queue[i], passed |-> passed]
      BY <1>4, <1>5, <2>2 DEF Votes
    <2> HIDE DEF passed
    <2> QED
      BY <2>1, <2>2, <2>3 DEF Ratings
  <1>10. Rating(hierarchy, u, {})
    BY <1>4, <1>6, <1>8, <1>9, VoteAll
  <1> HIDE DEF u
  <1>11. /\ IsSeq(then.next) /\ after.queue = then.next
         /\ then.next # <<>> => Travelled(hierarchy, after)
         /\ then.next = <<>> => Finished(hierarchy, after)
         /\ after.first = then.first /\ after.relevant = then.relevant
    BY <1>4, <1>10, WaveEnds
  <1> HIDE DEF then, after
  <1>12. IsSeq(after.ratings) /\ RatedOnce(after) /\ after \in Traversals(hierarchy)
    <2>1. after \in Traversals(hierarchy) /\ RatedOnce(after)
      BY <1>11 DEF Travelled, Finished, Rating, Core
    <2>2. after.ratings \in Seq(Ratings(hierarchy))
      BY <2>1 DEF Traversals
    <2> QED
      BY <2>1, <2>2, SeqIsSeq
  <1>13. CASE then.next # <<>>
    <2>1. StartWave(r, "Rate", then.next)
      BY <1>3, <1>13
    <2> QED
      BY <1>1, <1>2, <1>4, <1>11, <1>12, <1>13, <2>1, SearchParts, WaveBegins
  <1>14. CASE then.next = <<>>
    <2> DEFINE tasks == Batches(Len(Selected(then)))
    <2>1. StartWave(r, "Map", tasks) /\ Finished(hierarchy, after)
      BY <1>3, <1>11, <1>14
    <2>2. Len(Selected(then)) \in Nat
      <3>1. after.first \in Seq(Named(hierarchy)) /\ Distinct(after.first)
        BY <1>12, <2>1 DEF Traversals, Finished, Core
      <3>2. IsSeq(Selected(then))
        BY <1>11, <3>1, SelectedOnce
      <3> QED
        BY <3>2, SeqParts
    <2>3. IsSeq(tasks) /\ \A i \in 1..Len(tasks) : tasks[i] = i
      BY <2>2, BatchesAreNumbered
    <2> HIDE DEF tasks
    <2> QED
      BY <1>1, <1>2, <1>4, <1>12, <2>1, <2>3, SearchParts, WaveBegins
  <1> QED
    BY <1>13, <1>14

LEMMA InitSearch == Init => SearchInv
  <1> SUFFICES ASSUME Init PROVE SearchInv
    OBVIOUS
  <1>1. PICK s \in Scenarios : config = s.asks /\ hierarchy = s.hierarchy
    BY DEF Init
  <1>2. s = [asks |-> config, hierarchy |-> hierarchy]
    BY <1>1, HierarchyAssumption DEF HierarchyAssumption
  <1>3. ASSUME NEW r \in Requests
        PROVE  Searching(hierarchy, config[r].method, pc[r], wave[r], graph[r], depth[r],
                         traversal[r])
    <2>1. /\ pc[r] = "Idle" /\ wave[r] = NoWave /\ graph[r] = <<>> /\ depth[r] = 0
          /\ traversal[r].ratings = <<>>
      BY DEF Init, NewTraversal
    <2>2. <<>> \in Graphs /\ IsSeq(<<>>) /\ RatedOnce(traversal[r])
      BY <2>1 DEF Graphs, IsSeq, RatedOnce
    <2>3. 0 \in 0..MaxDepth
      BY EngineAssumption DEF EngineAssumption
    <2> QED
      BY <2>1, <2>2, <2>3, EmptyWave DEF Searching, Waves
  <1> QED
    BY <1>1, <1>2, <1>3 DEF Init, SearchInv

LEMMA NextSearch == SearchInv /\ [Next]_vars => SearchInv'
  <1> SUFFICES ASSUME SearchInv, [Next]_vars PROVE SearchInv'
    OBVIOUS
  <1>1. ASSUME UNCHANGED <<config, hierarchy, pc, searching>> PROVE SearchInv'
    BY <1>1 DEF SearchInv, searching
  <1>2. CASE Reindex \/ UNCHANGED vars
    BY <1>1, <1>2 DEF Reindex, vars
  <1>3. ASSUME NEW r \in Requests, NEW p \in Ended \cup {"Key", "Wait", "Load", "Prepare",
                   "Handshake", "Context", "Tokens", "NoData"},
               pc' = [pc EXCEPT ![r] = p], UNCHANGED <<config, hierarchy, graph, depth, traversal>>,
               wave' = wave \/ wave' = [wave EXCEPT ![r] = NoWave]
        PROVE  SearchInv'
    BY <1>3, QuietMoves DEF Waves, Ended
  <1>4. ASSUME NEW r \in Requests, query(r) \/ key(r) PROVE SearchInv'
    BY <1>3, <1>4 DEF query, key, Go, searching
  <1>5. ASSUME NEW r \in Requests, UseCell(r) \/ TakePermit(r) \/ Loaded(r) PROVE SearchInv'
    BY <1>3, <1>5 DEF UseCell, TakePermit, Loaded, Go, searching
  <1>6. ASSUME NEW r \in Requests, Read(r) PROVE SearchInv'
    BY <1>1, <1>6 DEF Read
  <1>7. ASSUME NEW r \in Requests, LoadFails(r) \/ Stop(r) \/ Fail(r) PROVE SearchInv'
    BY <1>3, <1>7 DEF LoadFails, Stop, Fail, Go, searching, Ended
  <1>8. ASSUME NEW r \in Requests, CollectMap(r) \/ Deliver(r) PROVE SearchInv'
    BY <1>3, <1>8 DEF CollectMap, Deliver, Go, searching, Ended
  <1>9. ASSUME NEW r \in Requests, Step(r) PROVE SearchInv'
    BY <1>4, <1>5, <1>6, <1>7, <1>8, <1>9, PrepareKeeps, ReplyKeeps, PrimerKeeps, SelectKeeps,
       DepthKeeps, RatingsKeep DEF Step
  <1> QED
    BY <1>2, <1>4, <1>7, <1>9 DEF Next
-----------------------------------------------------------------------------
\* The load: what it reads is well typed.

Snapshots == [1..MaxReads -> 0..MaxGenerations]
Stages == Waves \cup Ended \cup
              {"Idle", "Key", "Wait", "Load", "Prepare", "Select", "Handshake", "Context",
               "Tokens", "NoData"}
\* What a load read so far becomes a snapshot when it is complete.
LoadInv ==
    /\ generation \in 0..MaxGenerations
    /\ reads = [r \in Requests |-> reads[r]]
    /\ \A r \in Requests : /\ pc[r] \in Stages
                           /\ reads[r] \in Seq(0..MaxGenerations) /\ Len(reads[r]) <= MaxReads
                           /\ runtime[r] \in {None} \cup Snapshots
    /\ \A k \in Keys : cell[k] \in {None} \cup Snapshots

LEMMA ReadOneMore ==
  ASSUME NEW S, NEW s \in Seq(S), NEW x \in S, NEW n \in Nat, Len(s) < n
  PROVE  Append(s, x) \in Seq(S) /\ Len(Append(s, x)) <= n
  OBVIOUS

LEMMA ReadAll ==
  ASSUME NEW S, NEW s \in Seq(S), NEW n \in Nat, Len(s) = n
  PROVE  s \in [1..n -> S]
  OBVIOUS

LEMMA InitLoad == Init => LoadInv
  <1>1. MaxGenerations \in Nat /\ MaxReads \in Nat
    BY EngineAssumption DEF EngineAssumption
  <1>2. Len(<<>>) = 0
    OBVIOUS
  <1> QED
    BY <1>1, <1>2 DEF Init, LoadInv, Stages

\* A request moves on with what it has read and what it searches with.
LEMMA LoadStays ==
  ASSUME CacheInv, LoadInv, NEW r \in Requests, NEW there \in Stages,
         pc' = [pc EXCEPT ![r] = there], UNCHANGED <<generation, cell, reads, runtime>>
  PROVE  LoadInv'
  <1>1. \A q \in Requests : pc'[q] \in Stages
    BY DEF CacheInv, CacheTypes, LoadInv
  <1> QED
    BY <1>1 DEF LoadInv

\* A load that fails or is abandoned has read nothing.
LEMMA LoadForgotten ==
  ASSUME CacheInv, LoadInv, NEW r \in Requests, NEW there \in Stages,
         pc' = [pc EXCEPT ![r] = there], reads' = [reads EXCEPT ![r] = <<>>],
         UNCHANGED <<generation, cell, runtime>>
  PROVE  LoadInv'
  <1>1. \A q \in Requests : pc'[q] \in Stages
    BY DEF CacheInv, CacheTypes, LoadInv
  <1>2. /\ reads' = [q \in Requests |-> reads'[q]] /\ reads'[r] = <<>>
        /\ \A q \in Requests \ {r} : reads'[q] = reads[q]
    BY DEF LoadInv
  <1>3. <<>> \in Seq(0..MaxGenerations) /\ Len(<<>>) <= MaxReads
    <2>1. MaxReads \in Nat
      BY EngineAssumption DEF EngineAssumption
    <2>2. Len(<<>>) = 0 /\ <<>> \in Seq(0..MaxGenerations)
      OBVIOUS
    <2> QED
      BY <2>1, <2>2
  <1>4. \A q \in Requests :
            reads'[q] \in Seq(0..MaxGenerations) /\ Len(reads'[q]) <= MaxReads
    <2>1. ASSUME NEW q \in Requests
          PROVE  reads'[q] \in Seq(0..MaxGenerations) /\ Len(reads'[q]) <= MaxReads
      <3>1. CASE q = r
        <4>1. reads'[q] = <<>>
          BY <1>2, <3>1
        <4> QED
          BY <1>3, <4>1, Zenon
      <3>2. CASE q # r
        BY <1>2, <3>2 DEF LoadInv
      <3> QED
        BY <3>1, <3>2
    <2> QED
      BY <2>1
  <1> QED
    BY <1>1, <1>2, <1>4 DEF LoadInv

LEMMA ReadKeeps ==
  ASSUME CacheInv, LoadInv, NEW r \in Requests, Read(r)
  PROVE  LoadInv'
  <1>1. /\ Len(reads[r]) < MaxReads /\ reads' = [reads EXCEPT ![r] = Append(@, generation)]
        /\ UNCHANGED <<generation, pc, cell, runtime>>
    BY DEF Read
  <1>2. /\ reads' = [q \in Requests |-> reads'[q]] /\ reads'[r] = Append(reads[r], generation)
        /\ \A q \in Requests \ {r} : reads'[q] = reads[q]
    BY <1>1 DEF LoadInv
  <1>3. MaxReads \in Nat
    BY EngineAssumption DEF EngineAssumption
  <1>4. reads[r] \in Seq(0..MaxGenerations) /\ generation \in 0..MaxGenerations
    BY DEF LoadInv
  <1>5. /\ reads'[r] \in Seq(0..MaxGenerations) /\ Len(reads'[r]) <= MaxReads
    BY <1>1, <1>2, <1>3, <1>4, ReadOneMore
  <1> QED
    BY <1>1, <1>2, <1>5 DEF LoadInv

LEMMA LoadCompletes ==
  ASSUME CacheInv, LoadInv, NEW r \in Requests, Loaded(r)
  PROVE  LoadInv'
  <1>1. /\ pc' = [pc EXCEPT ![r] = "Prepare"] /\ pc[r] = "Load" /\ r \in DOMAIN config
        /\ cell' = IF Cacheable(r) THEN [cell EXCEPT ![Key(r)] = reads[r]] ELSE cell
        /\ runtime' = [runtime EXCEPT ![r] = reads[r]]
        /\ UNCHANGED <<generation, reads>> /\ Len(reads[r]) = MaxReads
    BY DEF Loaded, Go, CacheInv, CacheTypes
  <1>2. Key(r) \in Keys
    BY <1>1, KeyOfRequest DEF CacheInv
  <1>3. reads[r] \in Snapshots
    <2>1. reads[r] \in Seq(0..MaxGenerations)
      BY DEF LoadInv
    <2>2. MaxReads \in Nat
      BY EngineAssumption DEF EngineAssumption
    <2> QED
      BY <1>1, <2>1, <2>2, ReadAll DEF Snapshots
  <1>4. \A q \in Requests : pc'[q] \in Stages
    BY <1>1 DEF CacheInv, CacheTypes, LoadInv, Stages
  <1>5. \A q \in Requests : runtime'[q] \in {None} \cup Snapshots
    BY <1>1, <1>3 DEF CacheInv, CacheTypes, LoadInv
  <1>6. \A k \in Keys : cell'[k] \in {None} \cup Snapshots
    BY <1>1, <1>2, <1>3 DEF CacheInv, CacheTypes, LoadInv
  <1> QED
    BY <1>1, <1>4, <1>5, <1>6 DEF LoadInv

LEMMA NextLoad == CacheInv /\ LoadInv /\ [Next]_vars => LoadInv'
  <1> SUFFICES ASSUME CacheInv, LoadInv, [Next]_vars PROVE LoadInv'
    OBVIOUS
  <1>1. CASE UNCHANGED vars
    BY <1>1 DEF LoadInv, vars, engine
  <1>2. CASE Reindex
    <2>1. MaxGenerations \in Nat
      BY EngineAssumption DEF EngineAssumption
    <2>2. /\ generation' = generation + 1 /\ generation < MaxGenerations
          /\ UNCHANGED <<pc, cell, reads, runtime>>
      BY <1>2 DEF Reindex
    <2> QED
      BY <2>1, <2>2 DEF LoadInv
  <1>3. ASSUME NEW r \in Requests, query(r) \/ key(r) \/ TakePermit(r) PROVE LoadInv'
    BY <1>3, LoadStays DEF query, key, TakePermit, Go, engine, Stages
  <1>4. ASSUME NEW r \in Requests, UseCell(r) PROVE LoadInv'
    <2>1. /\ pc' = [pc EXCEPT ![r] = "Prepare"] /\ pc[r] = "Wait" /\ r \in DOMAIN config
          /\ runtime' = [runtime EXCEPT ![r] = cell[Key(r)]]
          /\ UNCHANGED <<generation, cell, reads>>
      BY <1>4 DEF UseCell, Go, CacheInv, CacheTypes
    <2>2. cell[Key(r)] \in {None} \cup Snapshots
      BY <2>1, KeyOfRequest DEF CacheInv, LoadInv
    <2>3. \A q \in Requests : pc'[q] \in Stages
      BY <2>1 DEF CacheInv, CacheTypes, LoadInv, Stages
    <2>4. \A q \in Requests : runtime'[q] \in {None} \cup Snapshots
      BY <2>1, <2>2 DEF CacheInv, CacheTypes, LoadInv
    <2> QED
      BY <2>1, <2>3, <2>4 DEF LoadInv
  <1>5. ASSUME NEW r \in Requests, Read(r) \/ Loaded(r) PROVE LoadInv'
    BY <1>5, ReadKeeps, LoadCompletes
  <1>6. ASSUME NEW r \in Requests, LoadFails(r) \/ Stop(r) PROVE LoadInv'
    BY <1>6, LoadForgotten DEF LoadFails, Stop, Go, Stages, Ended
  <1>7. ASSUME NEW r \in Requests, Fail(r) \/ CollectMap(r) \/ Deliver(r) PROVE LoadInv'
    BY <1>7, LoadStays DEF Fail, CollectMap, Deliver, Go, engine, Stages, Ended
  <1>8. ASSUME NEW r \in Requests, Prepare(r) PROVE LoadInv'
    BY <1>8, LoadStays DEF Prepare, StartWave, Go, engine, Stages, Waves, Ended
  <1>9. ASSUME NEW r \in Requests, Reply(r) PROVE LoadInv'
    BY <1>9 DEF Reply, LoadInv, engine
  <1>10. ASSUME NEW r \in Requests, CollectPrimer(r) \/ CollectDepth(r) PROVE LoadInv'
    BY <1>10, LoadStays DEF CollectPrimer, CollectDepth, Go, engine, Stages, Ended
  <1>11. ASSUME NEW r \in Requests, SelectActions(r) PROVE LoadInv'
    BY <1>11, LoadStays DEF SelectActions, StartWave, Go, engine, Stages, Waves
  <1>12. ASSUME NEW r \in Requests, CollectRatings(r) PROVE LoadInv'
    BY <1>12, LoadStays DEF CollectRatings, StartWave, engine, Stages, Waves
  <1> QED
    BY <1>1, <1>2, <1>3, <1>4, <1>5, <1>6, <1>7, <1>8, <1>9, <1>10, <1>11, <1>12 DEF Next, Step
-----------------------------------------------------------------------------
\* The theorems about the search.

\* Whatever the order the models reply in, an answer of the DRIFT graph, a
\* rating and an analyst's points are stored under the question, community or
\* batch they are about, and nothing is rated twice (try_buffered_ordered,
\* apply, select_explainable).
THEOREM RepliesAreOrdered == Spec => []RepliesLandWhereAsked
  <1>1. SearchInv => RepliesLandWhereAsked
    <2> SUFFICES ASSUME SearchInv, NEW r \in Requests
                 PROVE  /\ \A n \in DOMAIN graph[r] : graph[r][n].answer \in {None, graph[r][n].text}
                        /\ \A i \in DOMAIN traversal[r].ratings :
                               traversal[r].ratings[i].of = traversal[r].ratings[i].community
                        /\ IsInjective([i \in DOMAIN traversal[r].ratings |->
                                           traversal[r].ratings[i].community])
                        /\ Collected(r, "Map") =>
                               \A i \in DOMAIN Results(r) : Results(r)[i].of = i
      BY DEF RepliesLandWhereAsked
    <2>1. Searching(hierarchy, config[r].method, pc[r], wave[r], graph[r], depth[r], traversal[r])
      BY SearchParts
    <2>2. \A n \in DOMAIN graph[r] : graph[r][n].answer \in {None, graph[r][n].text}
      BY <2>1 DEF Searching, Graphs
    <2>3. DOMAIN traversal[r].ratings = 1..Len(traversal[r].ratings) /\ RatedOnce(traversal[r])
      BY <2>1, SeqParts DEF Searching
    <2>4. \A i \in DOMAIN traversal[r].ratings :
              traversal[r].ratings[i].of = traversal[r].ratings[i].community
      BY <2>3 DEF RatedOnce
    <2>5. IsInjective([i \in DOMAIN traversal[r].ratings |-> traversal[r].ratings[i].community])
      BY <2>3 DEF RatedOnce, IsInjective
    <2>6. ASSUME Collected(r, "Map"), NEW i \in DOMAIN Results(r) PROVE Results(r)[i].of = i
      <3>1. /\ i \in 1..Len(wave[r].tasks)
            /\ Results(r)[i] \in Replies("Map", wave[r].tasks[i])
        BY <2>6, CollectedResults DEF Waves
      <3>2. wave[r].tasks[i] = i
        BY <2>1, <2>6, <3>1 DEF Searching, Collected
      <3>3. \A x : \A y \in Replies("Map", x) : y.of = x
        BY DEF Replies
      <3> QED
        BY <3>1, <3>2, <3>3
    <2> QED
      BY <2>2, <2>4, <2>5, <2>6
  <1> QED
    BY <1>1, InitSearch, NextSearch, PTL DEF Spec

\* A dynamic selection that ends has rated and kept exactly what its ratings
\* entitle it to, whatever the hierarchy and the order of the votes
\* (select_explainable, filtered_ids_at_level, relevant_first_seen).
THEOREM SelectionCorrect == Spec => []SelectionIsExact
  <1>1. SearchInv /\ CacheInv => SelectionIsExact
    <2> SUFFICES ASSUME SearchInv, CacheInv, NEW r \in DOMAIN config,
                        pc[r] = "Map", config[r].method = "Dynamic"
                 PROVE  Exact(hierarchy, traversal[r])
      BY DEF SelectionIsExact, Exact, Exhausted, Inhabited, KnownIn, Known, ChildrenIn, KeptIn, Kept
    <2>1. r \in Requests
      BY DEF CacheInv, CacheTypes
    <2>2. WellFormed(hierarchy) /\ Finished(hierarchy, traversal[r])
      BY <2>1, SearchParts DEF Searching
    <2> QED
      BY <2>2, FinishedIsExact
  <1> QED
    BY <1>1, InitSearch, NextSearch, InitCache, NextCache, PTL DEF Spec

\* What a load has read is part of a snapshot, no wave polls more futures than
\* its concurrency, the rounds of DRIFT are bounded and a question is in the
\* graph once: the type of the state of query and try_buffered_ordered.
THEOREM TypeCorrect == Spec => []TypeOK
  <1>1. CacheInv /\ SearchInv /\ LoadInv => TypeOK
    <2> SUFFICES ASSUME CacheInv, SearchInv, LoadInv PROVE TypeOK
      OBVIOUS
    <2>1. [asks |-> config, hierarchy |-> hierarchy] \in Scenarios
      BY DEF SearchInv
    <2>2. pc \in [Requests -> Stages]
      BY DEF CacheInv, CacheTypes, LoadInv
    <2>3. cell \in [Keys -> {None} \cup Snapshots] /\ loader \in [Keys -> Requests \cup {None}]
      BY DEF CacheInv, CacheTypes, LoadInv
    <2>4. ASSUME NEW r \in Requests
          PROVE  /\ Len(reads[r]) <= MaxReads /\ runtime[r] \in {None} \cup Snapshots
                 /\ Cardinality(InFlight(r)) <= Concurrency
                 /\ depth[r] \in 0..MaxDepth
                 /\ IsInjective([n \in DOMAIN graph[r] |-> graph[r][n].text])
      <3>1. WaveInv(wave[r]) /\ graph[r] \in Graphs /\ depth[r] \in 0..MaxDepth
        BY SearchParts DEF Searching
      <3>2. IsInjective([n \in DOMAIN graph[r] |-> graph[r][n].text])
        <4>1. graph[r] \in Seq(Node)
          BY <3>1 DEF Graphs
        <4>2. DOMAIN graph[r] = 1..Len(graph[r])
          BY <4>1
        <4> QED
          BY <3>1, <4>2 DEF Graphs, IsInjective
      <3> QED
        BY <3>1, <3>2, FewInFlight DEF LoadInv
    <2> QED
      BY <2>1, <2>2, <2>3, <2>4 DEF TypeOK, LoadInv, Stages, Snapshots
  <1> QED
    BY <1>1, InitCache, NextCache, InitSearch, NextSearch, InitLoad, NextLoad, PTL DEF Spec
=============================================================================
