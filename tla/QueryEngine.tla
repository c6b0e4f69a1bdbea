----------------------------- MODULE QueryEngine -----------------------------
(* crates/graphloom/src/query: engine.rs, concurrency.rs, the search of       *)
(* drift/, the search and the dynamic community selection of global/.  A       *)
(* request finds the resources of its key in the engine's cache, or loads     *)
(* them while others of the same key wait, and then searches with its own      *)
(* clone of them.  A search asks the models in waves: bounded concurrency,     *)
(* replies in any order, the first failure ends the query.  The caller may    *)
(* stop polling at any await.  Prompts, contexts, scores, token counts and    *)
(* the edges of the DRIFT graph are data no property uses.                    *)
EXTENDS Integers, Sequences, FiniteSets, SequencesExt
CONSTANTS
    Requests,       \* one call of query or query_stream each
    Scenarios,      \* what the requests that are made ask, by request, and the
                    \* community hierarchy of the index
    Question,       \* the query text of a DRIFT request
    FollowUps,      \* the lists of follow-up questions a DRIFT reply may hold
    None,           \* no request, no snapshot, no answer
    MaxGenerations, \* bound: index runs that replace the tables on disk
    MaxReads,       \* tables and vector schemas one load reads, one await each
    Concurrency,    \* concurrent_requests, drift_search.concurrency
    Folds,          \* drift_search.primer_folds
    MaxDepth,       \* drift_search.n_depth
    KFollowUps,     \* drift_search.drift_k_followups
    MaxLevel,       \* global_search.dynamic_search_max_level
    KeepParent,     \* global_search.dynamic_search_keep_parent
    BatchSize       \* community reports that fit global_search.max_context_tokens
ASSUME EngineAssumption ==
    /\ None \notin Requests /\ \A s \in Scenarios : DOMAIN s.asks \subseteq Requests
    /\ MaxGenerations \in Nat /\ MaxLevel \in Nat /\ MaxDepth \in Nat
    /\ {MaxReads, Concurrency, Folds, KFollowUps, BatchSize} \subseteq Nat \ {0}
    /\ \A f \in FollowUps : f \in Seq(Range(f))
\* A hierarchy: the rows of the community table in their order, the communities
\* that have a report, and the level, parent and children of every community
\* either table or a list of children names.  What has no row has no parent and
\* no children; no cluster is a cluster of its own.
ASSUME HierarchyAssumption ==
    \A s \in Scenarios :
        LET h == s.hierarchy
            named == DOMAIN h.level
        IN  /\ s = [asks |-> s.asks, hierarchy |-> h]
            /\ h.order \in Seq(named)
            /\ h.backed \subseteq named /\ IsFiniteSet(h.backed)
            /\ h.level \in [named -> Nat]
            /\ h.children \in [named -> Seq(named)]
            /\ h.parent = [c \in named |-> h.parent[c]]
            /\ \A c \in named : h.parent[c] # c
            /\ \A c \in named \ Range(h.order) :
                   h.children[c] = <<>> /\ h.parent[c] \notin named

VARIABLES
    config,         \* QueryOptions: method, key, whether the data root resolves
    hierarchy,      \* the community and report tables of the index
    generation,     \* how often the index on disk was replaced
    pc,
    cell,           \* basic, local, global, drift: what each key's OnceCell holds
    loader,         \* the holder of each OnceCell's permit
    reads,          \* the generations a load has read so far
    runtime,        \* a request's clone of the resources it searches with
    wave,           \* the futures of try_buffered_ordered
    graph,          \* DriftQueryState: the nodes in order of their ids
    depth,          \* rounds of run_depths
    traversal       \* the locals of select_explainable
engine == <<cell, loader, reads, runtime, generation>>
searching == <<wave, graph, depth, traversal>>
vars == <<config, hierarchy, engine, pc, searching>>

Key(r) == config[r].key
Cacheable(r) == config[r].resolves
Keys == UNION {{s.asks[r].key : r \in DOMAIN s.asks} : s \in Scenarios}
Ended == {"Answered", "Failed", "Stopped"}
Waves == {"Primer", "Depth", "Rate", "Map"}
Go(r, there) == pc' = [pc EXCEPT ![r] = there]
-----------------------------------------------------------------------------
\* The waves of try_buffered_ordered: `started` futures were polled, `done`
\* holds the index and the reply of the completed ones in completion order.
WaveOf(tasks) ==
    [tasks |-> tasks, done |-> <<>>,
     started |-> IF Len(tasks) < Concurrency THEN Len(tasks) ELSE Concurrency]
NoWave == WaveOf(<<>>)
InFlight(r) ==
    1..wave[r].started \ {wave[r].done[i].index : i \in DOMAIN wave[r].done}
\* Mutant: replies are taken in the order they completed in.
CompletionOrder(done) == [i \in DOMAIN done |-> done[i].reply]
Ordered(done) ==
    [i \in DOMAIN done |-> (CHOOSE d \in Range(done) : d.index = i).reply]

NewTraversal(queue) ==
    [queue |-> queue, visited |-> Range(queue), relevant |-> {}, first |-> <<>>,
     next |-> <<>>, level |-> 0, ratings |-> <<>>]

\* The communities with a row and a report, by level, each once.
Known == Range(hierarchy.order) \cap hierarchy.backed
PutAtLevel(levels, c) ==
    LET l == hierarchy.level[c]
    IN  IF c \in hierarchy.backed /\ c \notin Range(levels[l])
          THEN [levels EXCEPT ![l] = Append(@, c)]
          ELSE levels
Levels ==
    FoldLeft(PutAtLevel, [l \in {hierarchy.level[c] : c \in Known} |-> <<>>], hierarchy.order)
AtLevel(l) == IF l \in DOMAIN Levels THEN Levels[l] ELSE <<>>

\* Every cell is empty when the engine is constructed.
Init ==
    /\ \E s \in Scenarios : config = s.asks /\ hierarchy = s.hierarchy
    /\ generation = 0
    /\ pc = [r \in Requests |-> "Idle"]
    /\ cell = [k \in Keys |-> None]
    /\ loader = [k \in Keys |-> None]
    /\ reads = [r \in Requests |-> <<>>]
    /\ runtime = [r \in Requests |-> None]
    /\ wave = [r \in Requests |-> NoWave]
    /\ graph = [r \in Requests |-> <<>>]
    /\ depth = [r \in Requests |-> 0]
    /\ traversal = [r \in Requests |-> NewTraversal(<<>>)]

\* Another process indexes the project again.
Reindex ==
    /\ generation < MaxGenerations
    /\ generation' = generation + 1
    /\ UNCHANGED <<config, hierarchy, pc, cell, loader, reads, runtime, searching>>
-----------------------------------------------------------------------------
\* A call arrives; its project root and options are validated.
query(r) ==
    /\ pc[r] = "Idle" /\ r \in DOMAIN config
    /\ Go(r, "Key")
    /\ UNCHANGED <<config, hierarchy, engine, searching>>

\* The data root is canonicalized.  One that cannot be resolved bypasses the
\* cache: the request loads resources of its own.
key(r) ==
    /\ pc[r] = "Key"
    /\ Go(r, IF Cacheable(r) THEN "Wait" ELSE "Load")
    /\ UNCHANGED <<config, hierarchy, engine, searching>>

\* get_or_try_init of an initialized cell.
UseCell(r) ==
    /\ pc[r] = "Wait" /\ cell[Key(r)] # None
    /\ runtime' = [runtime EXCEPT ![r] = cell[Key(r)]]
    /\ Go(r, "Prepare")
    /\ UNCHANGED <<config, hierarchy, generation, cell, loader, reads, searching>>

\* get_or_try_init of an empty cell: one caller takes its permit, the others wait.
\* Mutant: an empty cell is loaded by everyone who finds it empty.
MayLoadTwice(r) == cell[Key(r)] = None
MayLoad(r) == cell[Key(r)] = None /\ loader[Key(r)] = None
TakePermit(r) ==
    /\ pc[r] = "Wait" /\ MayLoad(r)
    /\ loader' = [loader EXCEPT ![Key(r)] = r]
    /\ Go(r, "Load")
    /\ UNCHANGED <<config, hierarchy, generation, cell, reads, runtime, searching>>

\* QueryRuntimeFactory reads the tables and validates the vector schemas one
\* after the other, while an index run may replace them.
Read(r) ==
    /\ pc[r] = "Load" /\ Len(reads[r]) < MaxReads
    /\ reads' = [reads EXCEPT ![r] = Append(@, generation)]
    /\ UNCHANGED <<config, hierarchy, generation, pc, cell, loader, runtime, searching>>

\* The permit of a load that failed, or whose caller went away, is released:
\* the cell stays empty and the next caller loads.
\* Mutant: the permit of a failed or abandoned load is kept.
PermitKept(r) == loader
Released(r) == [k \in Keys |-> IF loader[k] = r THEN None ELSE loader[k]]
Loaded(r) ==
    /\ pc[r] = "Load" /\ Len(reads[r]) = MaxReads
    /\ cell' = IF Cacheable(r) THEN [cell EXCEPT ![Key(r)] = reads[r]] ELSE cell
    /\ loader' = Released(r)
    /\ runtime' = [runtime EXCEPT ![r] = reads[r]]
    /\ Go(r, "Prepare")
    /\ UNCHANGED <<config, hierarchy, generation, reads, searching>>
LoadFails(r) ==
    /\ pc[r] = "Load"
    /\ loader' = Released(r)
    /\ reads' = [reads EXCEPT ![r] = <<>>]
    /\ Go(r, "Failed")
    /\ UNCHANGED <<config, hierarchy, generation, cell, runtime, searching>>

\* The caller drops the future or the stream: nothing of it runs any more.
Stop(r) ==
    /\ pc[r] \notin Ended \cup {"Idle"}
    /\ loader' = Released(r)
    /\ reads' = [reads EXCEPT ![r] = <<>>]
    /\ wave' = [wave EXCEPT ![r] = NoWave]
    /\ Go(r, "Stopped")
    /\ UNCHANGED <<config, hierarchy, generation, cell, runtime, graph, depth, traversal>>

\* A validation, an embedding, a handshake, a provider stream, a reply that
\* cannot be read, or one call of a wave fails; the other calls of the wave are
\* dropped.
Fail(r) ==
    /\ pc[r] \in {"Key", "Prepare", "Handshake", "Tokens"} \cup Waves
    /\ wave' = [wave EXCEPT ![r] = NoWave]
    /\ Go(r, "Failed")
    /\ UNCHANGED <<config, hierarchy, engine, graph, depth, traversal>>
-----------------------------------------------------------------------------
StartWave(r, stage, tasks) ==
    /\ wave' = [wave EXCEPT ![r] = WaveOf(tasks)]
    /\ pc' = [pc EXCEPT ![r] = stage]

\* What a model may reply to task t: a primer fold or an action with follow-up
\* questions (an action also without an answer: it was unreadable or had none),
\* a community with a rating above the threshold or below, an analyst with a
\* point of positive score or without.  `of` is the task the reply is about.
Replies(stage, t) ==
    CASE stage = "Primer" -> {[of |-> t, followups |-> f] : f \in FollowUps}
      [] stage = "Depth" -> {[of |-> t, answered |-> a, followups |-> f] :
                                a \in BOOLEAN, f \in FollowUps}
      [] stage = "Rate" -> {[of |-> t, passed |-> p] : p \in BOOLEAN}
      [] stage = "Map" -> {[of |-> t, positive |-> p] : p \in BOOLEAN}

\* One call of the wave completes and the next one is polled for the first time.
After(w, i, reply) ==
    [w EXCEPT !.done = Append(@, [index |-> i, reply |-> reply]),
              !.started = IF @ < Len(w.tasks) THEN @ + 1 ELSE @]
Reply(r) ==
    /\ pc[r] \in Waves
    /\ \E i \in InFlight(r) : \E reply \in Replies(pc[r], wave[r].tasks[i]) :
           wave' = [wave EXCEPT ![r] = After(@, i, reply)]
    /\ UNCHANGED <<config, hierarchy, engine, pc, graph, depth, traversal>>
Collected(r, stage) == pc[r] = stage /\ Len(wave[r].done) = Len(wave[r].tasks)
Results(r) == Ordered(wave[r].done)

\* Basic and Local build one context; DRIFT expands the question, ranks the
\* reports and primes; Global selects communities or takes every report.
\* A batch is as many reports as fit its tokens; here BatchSize of them, each with
\* a rank that is not negative, for context.rs drops the others.
Batches(n) == [i \in 1..((n + BatchSize - 1) \div BatchSize) |-> i]
Prepare(r) ==
    /\ pc[r] = "Prepare"
    /\ \/ /\ config[r].method \in {"Basic", "Local"}
          /\ Go(r, "Handshake") /\ UNCHANGED searching
       \/ /\ config[r].method = "Drift"
          /\ StartWave(r, "Primer", [i \in 1..Folds |-> i])
          /\ UNCHANGED <<graph, depth, traversal>>
       \/ /\ config[r].method = "Global"
          /\ StartWave(r, "Map", Batches(Cardinality(hierarchy.backed)))
          /\ UNCHANGED <<graph, depth, traversal>>
       \/ /\ config[r].method = "Dynamic" /\ AtLevel(0) # <<>>
          /\ StartWave(r, "Rate", AtLevel(0))
          /\ traversal' = [traversal EXCEPT ![r] = NewTraversal(AtLevel(0))]
          /\ UNCHANGED <<graph, depth>>
       \/ /\ config[r].method = "Dynamic" /\ AtLevel(0) = <<>>
          /\ Go(r, "Failed") /\ UNCHANGED searching
    /\ UNCHANGED <<config, hierarchy, engine>>
-----------------------------------------------------------------------------
\* The nodes of DriftQueryState are identified by their question.
Incomplete(text) == [text |-> text, answer |-> None]
\* Mutant: a question that is already in the graph is added again.
AddAlways(nodes, text) == Append(nodes, Incomplete(text))
AddOrGet(nodes, text) ==
    IF \E n \in DOMAIN nodes : nodes[n].text = text THEN nodes
    ELSE Append(nodes, Incomplete(text))
AddAll(nodes, texts) == FoldLeft(AddOrGet, nodes, texts)
IncompleteIds(nodes) == {n \in DOMAIN nodes : nodes[n].answer = None}

\* run_primer, add_root: a primer without any follow-up question is an error.
AddFollowUps(nodes, reply) == AddAll(nodes, reply.followups)
CollectPrimer(r) ==
    /\ Collected(r, "Primer")
    /\ wave' = [wave EXCEPT ![r] = NoWave]
    /\ IF \A i \in DOMAIN Results(r) : Results(r)[i].followups = <<>>
         THEN Go(r, "Failed") /\ UNCHANGED graph
         ELSE /\ graph' = [graph EXCEPT ![r] =
                      FoldLeft(AddFollowUps, <<[text |-> Question, answer |-> Question]>>,
                               Results(r))]
              /\ Go(r, "Select")
    /\ UNCHANGED <<config, hierarchy, engine, depth, traversal>>

\* run_depths: at most k incomplete actions, in shuffled order, for n_depth
\* rounds or until none is left.
SelectActions(r) ==
    /\ pc[r] = "Select"
    /\ LET ids == IncompleteIds(graph[r])
           size == IF Cardinality(ids) < KFollowUps THEN Cardinality(ids) ELSE KFollowUps
       IN  IF depth[r] = MaxDepth \/ ids = {}
             THEN Go(r, "Context") /\ UNCHANGED <<wave, depth>>
             ELSE /\ \E chosen \in [1..size -> ids] :
                         /\ IsInjective(chosen)
                         /\ StartWave(r, "Depth", [i \in 1..size |-> graph[r][chosen[i]].text])
                  /\ depth' = [depth EXCEPT ![r] = @ + 1]
    /\ UNCHANGED <<config, hierarchy, engine, graph, traversal>>

\* apply: reply i completes the i-th selected action and adds its follow-ups.
Apply(nodes, result) ==
    AddAll([n \in DOMAIN nodes |->
               IF nodes[n].text = result.text
                 THEN [nodes[n] EXCEPT !.answer =
                          IF result.reply.answered THEN result.reply.of ELSE None]
                 ELSE nodes[n]],
           result.reply.followups)
CollectDepth(r) ==
    /\ Collected(r, "Depth")
    /\ graph' = [graph EXCEPT ![r] =
           FoldLeft(Apply, @, [i \in DOMAIN Results(r) |->
                                  [text |-> wave[r].tasks[i], reply |-> Results(r)[i]]])]
    /\ wave' = [wave EXCEPT ![r] = NoWave]
    /\ Go(r, "Select")
    /\ UNCHANGED <<config, hierarchy, engine, depth, traversal>>
-----------------------------------------------------------------------------
\* queued_or_visited.insert: a community with a report is queued once, however
\* often the hierarchy names it.
Enqueue(t, d) ==
    IF d \in hierarchy.backed /\ d \notin t.visited
      THEN [t EXCEPT !.next = Append(@, d), !.visited = @ \cup {d}]
      ELSE t

\* One vote of a wave of select_explainable.
Vote(t, v) ==
    LET c == v.community
        rated == [t EXCEPT !.ratings = Append(@, v)]
        chosen == [rated EXCEPT
                      !.first = IF c \in t.relevant THEN @ ELSE Append(@, c),
                      !.relevant = (@ \cup {c}) \
                                       (IF KeepParent THEN {} ELSE {hierarchy.parent[c]})]
    IN  IF v.passed THEN FoldLeft(Enqueue, chosen, hierarchy.children[c]) ELSE rated

\* While nothing is relevant, the next level of the hierarchy is rated.
\* Mutant: the next level is rated whenever the queue is empty.
FallbackAlways(t) ==
    IF t.next = <<>> /\ t.level <= MaxLevel
      THEN FoldLeft(Enqueue, t, AtLevel(t.level))
      ELSE t
Fallback(t) ==
    IF t.next = <<>> /\ t.relevant = {} /\ t.level <= MaxLevel
      THEN FoldLeft(Enqueue, t, AtLevel(t.level))
      ELSE t

\* relevant_first_seen, without what is not relevant any more.
Choose(chosen, seen) == IF seen.relevant THEN Append(chosen, seen.community) ELSE chosen
Selected(t) ==
    FoldLeft(Choose, <<>>, [i \in DOMAIN t.first |->
                 [community |-> t.first[i], relevant |-> t.first[i] \in t.relevant]])

Votes(r) ==
    [i \in DOMAIN Results(r) |->
        [community |-> wave[r].tasks[i], of |-> Results(r)[i].of, passed |-> Results(r)[i].passed]]
CollectRatings(r) ==
    LET rated == [FoldLeft(Vote, traversal[r], Votes(r)) EXCEPT !.level = @ + 1]
        then == Fallback(rated)
    IN  /\ Collected(r, "Rate")
        /\ traversal' = [traversal EXCEPT ![r] = [then EXCEPT !.queue = then.next, !.next = <<>>]]
        /\ IF then.next = <<>>
             THEN StartWave(r, "Map", Batches(Len(Selected(then))))
             ELSE StartWave(r, "Rate", then.next)
        /\ UNCHANGED <<config, hierarchy, engine, graph, depth>>

\* build_reduce_context: without a positive point no model is asked.  The map
\* outputs stay in the wave.
CollectMap(r) ==
    /\ Collected(r, "Map")
    /\ Go(r, IF \E i \in DOMAIN Results(r) : Results(r)[i].positive
               THEN "Handshake" ELSE "NoData")
    /\ UNCHANGED <<config, hierarchy, engine, searching>>
-----------------------------------------------------------------------------
\* The stream: Global, Local and Basic shake hands with the provider before the
\* context is delivered, DRIFT after it; NoData is a canned answer.
Deliver(r) ==
    /\ \/ pc[r] = "Handshake" /\ Go(r, IF config[r].method = "Drift" THEN "Tokens" ELSE "Context")
       \/ pc[r] = "Context" /\ Go(r, IF config[r].method = "Drift" THEN "Handshake" ELSE "Tokens")
       \/ pc[r] \in {"Tokens", "NoData"} /\ Go(r, "Answered")
    /\ UNCHANGED <<config, hierarchy, engine, searching>>

Step(r) ==
    \/ key(r) \/ UseCell(r) \/ TakePermit(r) \/ Read(r) \/ Loaded(r) \/ LoadFails(r)
    \/ Prepare(r) \/ Reply(r) \/ Fail(r)
    \/ CollectPrimer(r) \/ SelectActions(r) \/ CollectDepth(r)
    \/ CollectRatings(r) \/ CollectMap(r) \/ Deliver(r)
Next == Reindex \/ \E r \in Requests : query(r) \/ Step(r) \/ Stop(r)

Spec == Init /\ [][Next]_vars
\* The runtime polls a future that is ready and the models answer or fail.
FairSpec == Spec /\ \A r \in Requests : WF_vars(Step(r))
-----------------------------------------------------------------------------
TypeOK ==
    /\ [asks |-> config, hierarchy |-> hierarchy] \in Scenarios
    /\ generation \in 0..MaxGenerations
    /\ pc \in [Requests -> Waves \cup Ended \cup
                  {"Idle", "Key", "Wait", "Load", "Prepare", "Select", "Handshake",
                   "Context", "Tokens", "NoData"}]
    /\ cell \in [Keys -> {None} \cup [1..MaxReads -> 0..MaxGenerations]]
    /\ loader \in [Keys -> Requests \cup {None}]
    /\ \A r \in Requests :
           /\ Len(reads[r]) <= MaxReads
           /\ runtime[r] \in {None} \cup [1..MaxReads -> 0..MaxGenerations]
           /\ Cardinality(InFlight(r)) <= Concurrency
           /\ depth[r] \in 0..MaxDepth
           /\ IsInjective([n \in DOMAIN graph[r] |-> graph[r][n].text])

\* All requests of one key search the same snapshot, however their loads
\* interleave with each other, with failures and with an index run; a key's
\* permit is held by a request that is loading, never by one that is gone.
OneSnapshotPerKey ==
    \A r \in DOMAIN config :
        /\ (Cacheable(r) /\ runtime[r] # None) => runtime[r] = cell[Key(r)]
        /\ \A k \in Keys :
               loader[k] = r <=> (pc[r] = "Load" /\ Cacheable(r) /\ Key(r) = k)

\* Whatever the order the models reply in, an answer, a rating or an analyst's
\* points are those of the question, community or batch they are stored under,
\* and nothing is rated twice.
RepliesLandWhereAsked ==
    \A r \in Requests :
        /\ \A n \in DOMAIN graph[r] : graph[r][n].answer \in {None, graph[r][n].text}
        /\ \A i \in DOMAIN traversal[r].ratings :
               traversal[r].ratings[i].of = traversal[r].ratings[i].community
        /\ IsInjective([i \in DOMAIN traversal[r].ratings |-> traversal[r].ratings[i].community])
        /\ Collected(r, "Map") => \A i \in DOMAIN Results(r) : Results(r)[i].of = i

\* What dynamic selection returns, stated over the ratings alone: it starts at
\* level 0, rates the children of what passes and nothing else, falls back to a
\* deeper level only while nothing has passed, up to a level that is missing,
\* and returns what passed, without the parents of what passed after them unless
\* those are to be kept.
Rated(t) == {v.community : v \in Range(t.ratings)}
Passed(t) == {v.community : v \in {w \in Range(t.ratings) : w.passed}}
Place(t, c) == CHOOSE i \in DOMAIN t.ratings : t.ratings[i].community = c
Kept(t) ==
    {c \in Passed(t) : KeepParent \/
        \A d \in Passed(t) : hierarchy.parent[d] = c => Place(t, d) < Place(t, c)}
SelectionIsExact ==
    \A r \in DOMAIN config : pc[r] = "Map" /\ config[r].method = "Dynamic" =>
        LET t == traversal[r]
            level(c) == hierarchy.level[c]
            children(c) == Range(hierarchy.children[c]) \cap hierarchy.backed
        IN  /\ {c \in Known : level(c) = 0} \subseteq Rated(t)
            /\ \A c \in Passed(t) : children(c) \subseteq Rated(t)
            /\ \A c \in Rated(t) :
                   \/ c \in Known /\ level(c) = 0
                   \/ \E p \in Passed(t) : c \in children(p)
                   \/ /\ c \in Known /\ level(c) <= MaxLevel
                      /\ \A p \in Passed(t) \cap Known : level(p) >= level(c)
            /\ Passed(t) = {} =>
                   Rated(t) = {c \in Known : level(c) <= MaxLevel /\
                                  \A l \in 0..level(c) : \E d \in Known : level(d) = l}
            /\ Range(Selected(t)) = Kept(t) /\ Len(Selected(t)) = Cardinality(Kept(t))

\* A request ends: one that waits for a load is not forgotten when the load
\* fails or its caller goes away, the rounds of DRIFT are bounded, and a
\* hierarchy with a cycle does not trap the traversal.
EveryRequestEnds == \A r \in Requests : pc[r] = "Key" ~> pc[r] \in Ended
=============================================================================
