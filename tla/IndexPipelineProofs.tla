------------------------ MODULE IndexPipelineProofs ------------------------
(***************************************************************************)
(* An update leaves the tables that queries read alone until everything    *)
(* new is indexed, every provider keeps well-formed tables, the vector     *)
(* indices match the rows with a text to embed, a run that reports success *)
(* has indexed all it was given, and ids in the index name rows that are   *)
(* there or, where an update does not map them, were merged into an older  *)
(* row; for any documents, titles, types, extraction, clustering, inputs,  *)
(* flush size and number of runs and failures.                             *)
(***************************************************************************)
EXTENDS IndexPipeline, SequenceTheorems, WellFoundedInduction, TLAPS

Merge == "update_final_documents"
IndexSteps == {"load_update_documents", "create_base_text_units", "create_final_documents",
               "extract_graph", "finalize_graph", "extract_covariates", "create_communities",
               "create_final_text_units", "create_community_reports",
               "generate_text_embeddings"}
MergeSteps == {Merge, "update_entities_relationships", "update_text_units",
               "update_covariates", "update_communities", "update_community_reports",
               "update_text_embeddings", "update_clean_state"}
Names == IndexSteps \cup MergeSteps \cup {"load_input_documents"}

\* The merge is still to come; and what may come before it.
Ahead(queue) == \E i \in 1..Len(queue) : queue[i] = Merge
Ordered(queue) ==
    \A i \in 1..Len(queue) : queue[i] = Merge => \A j \in 1..(i - 1) : queue[j] \in IndexSteps

\* A list of writes whose table writes go to one of the given providers; they
\* name a table, the other writes a vector index.
WritesTo(w, providers) ==
    /\ {"kind", "at", "name", "rows"} \subseteq DOMAIN w
    /\ w.kind = "table" => w.at \in providers /\ w.name \in TableNames
    /\ w.kind # "table" => w.name \in DOMAIN Source
Plan(writes, providers) ==
    \E S : writes \in Seq(S) /\ \A w \in S : WritesTo(w, providers)

\* Every write is to the run's own provider, or to the final one when an update
\* has reached its merge: the queue orders indexing before merging, and what is
\* pending belongs to a workflow that has left the queue.
Inv ==
    /\ DOMAIN tables = Providers
    /\ {"mode", "queue", "pending", "out", "torn"} \subseteq DOMAIN run
    /\ run.queue \in Seq(Names)
    /\ Plan(run.pending, {run.out, "final"})
    /\ run.mode = "Update" => /\ run.out = "delta"
                              /\ Ordered(run.queue)
                              /\ Ahead(run.queue) => Plan(run.pending, {run.out})
-----------------------------------------------------------------------------
LEMMA PlanOver ==
  ASSUME NEW S, NEW s \in Seq(S), NEW P, \A w \in S : WritesTo(w, P)
  PROVE  Plan(s, P)
  BY DEF Plan

LEMMA EmptyPlan == ASSUME NEW P PROVE Plan(<<>>, P)
  <1> DEFINE S == {}
  <1>1. \A w \in S : WritesTo(w, P)
    OBVIOUS
  <1> HIDE DEF S
  <1>2. <<>> \in Seq(S)
    BY EmptySeq
  <1> QED
    BY <1>1, <1>2, PlanOver

LEMMA TablePlan ==
  ASSUME NEW p, NEW P, p \in P, NEW name \in TableNames, NEW rows
  PROVE  Plan(<<TableWrite(p, name, rows)>>, P)
  <1> DEFINE w == TableWrite(p, name, rows)
             S == {w}
  <1>1. /\ w.kind = "table" /\ w.at = p /\ w.name = name
        /\ DOMAIN w = {"kind", "at", "name", "rows"}
    BY DEF TableWrite
  <1> HIDE DEF w
  <1>2. <<w>> \in Seq(S) /\ \A x \in S : WritesTo(x, P)
    BY <1>1 DEF WritesTo
  <1> HIDE DEF S
  <1>3. Plan(<<w>>, P)
    BY <1>2, PlanOver
  <1> QED
    BY <1>3 DEF w

LEMMA ConcatPlan ==
  ASSUME NEW P, NEW s, NEW t, Plan(s, P), Plan(t, P)
  PROVE  Plan(s \o t, P)
  <1>1. PICK S : s \in Seq(S) /\ \A w \in S : WritesTo(w, P)
    BY DEF Plan
  <1>2. PICK T : t \in Seq(T) /\ \A w \in T : WritesTo(w, P)
    BY DEF Plan
  <1>3. s \in Seq(S \cup T) /\ t \in Seq(S \cup T)
    BY <1>1, <1>2, SeqMonotonic
  <1>4. s \o t \in Seq(S \cup T)
    BY <1>3, ConcatProperties
  <1>5. \A w \in S \cup T : WritesTo(w, P)
    BY <1>1, <1>2
  <1> QED
    BY <1>4, <1>5, PlanOver

LEMMA WiderPlan ==
  ASSUME NEW s, NEW P, NEW Q, P \subseteq Q, Plan(s, P)
  PROVE  Plan(s, Q)
  <1>1. \A w : WritesTo(w, P) => WritesTo(w, Q)
    BY DEF WritesTo
  <1> QED
    BY <1>1, Zenon DEF Plan

LEMMA EmbedPlan ==
  ASSUME NEW p, NEW P
  PROVE  Plan(EmbedField(p, "entity_description") \o EmbedField(p, "community_full_content")
                \o EmbedField(p, "text_unit_text"), P)
  <1>1. ASSUME NEW field \in DOMAIN Source PROVE Plan(EmbedField(p, field), P)
    <2>1. CASE ~Has(p, Source[field])
      BY <2>1, EmptyPlan DEF EmbedField
    <2>2. CASE Has(p, Source[field])
      <3>1. ASSUME NEW kind \in {"drop", "create", "sweep", "append"},
                   NEW name \in DOMAIN Source, NEW ids
            PROVE  WritesTo(VectorWrite(kind, name, ids), P)
        BY DEF VectorWrite, WritesTo
      <3> DEFINE name == IndexName(field)
                 drop == VectorWrite("drop", name, {})
                 create == VectorWrite("create", name, {})
                 sweep == VectorWrite("sweep", name, {})
                 append == VectorWrite("append", name, Column(tables[p][Source[field]], "id"))
      <3>2. EmbedField(p, field) = <<drop, create, sweep, append>>
        BY <2>2 DEF EmbedField
      <3>3. WritesTo(drop, P) /\ WritesTo(create, P) /\ WritesTo(sweep, P) /\ WritesTo(append, P)
        BY <1>1, <3>1 DEF IndexName
      <3> HIDE DEF drop, create, sweep, append
      <3> DEFINE S == {drop, create, sweep, append}
      <3>4. <<drop, create, sweep, append>> \in Seq(S) /\ \A w \in S : WritesTo(w, P)
        BY <3>3
      <3> HIDE DEF S
      <3>5. Plan(<<drop, create, sweep, append>>, P)
        BY <3>4, PlanOver
      <3> QED
        BY <3>2, <3>5
    <2> QED
      BY <2>1, <2>2
  <1>2. {"entity_description", "community_full_content", "text_unit_text"} \subseteq DOMAIN Source
    BY DEF Source
  <1> QED
    BY <1>1, <1>2, ConcatPlan

\* A workflow leaves the queue.
LEMMA TailQueue ==
  ASSUME NEW q \in Seq(Names), q # <<>>, Ordered(q)
  PROVE  /\ Tail(q) \in Seq(Names) /\ Ordered(Tail(q))
         /\ Ahead(Tail(q)) => Ahead(q) /\ Head(q) \in IndexSteps
  <1>1. /\ Len(q) \in Nat \ {0} /\ Tail(q) \in Seq(Names) /\ Len(Tail(q)) = Len(q) - 1
        /\ Head(q) = q[1] /\ \A i \in 1..(Len(q) - 1) : Tail(q)[i] = q[i + 1]
    OBVIOUS
  <1>2. ASSUME NEW i \in 1..(Len(q) - 1), Tail(q)[i] = Merge
        PROVE  /\ q[1] \in IndexSteps /\ Ahead(q)
               /\ \A j \in 1..(i - 1) : Tail(q)[j] \in IndexSteps
    <2>1. i + 1 \in 1..Len(q) /\ q[i + 1] = Merge /\ i \in Nat \ {0}
      BY <1>1, <1>2
    <2>2. \A k \in 1..i : q[k] \in IndexSteps
      <3>1. \A k \in 1..((i + 1) - 1) : q[k] \in IndexSteps
        BY <2>1 DEF Ordered
      <3> QED
        BY <2>1, <3>1
    <2>3. ASSUME NEW j \in 1..(i - 1) PROVE Tail(q)[j] \in IndexSteps
      <3>1. j \in 1..(Len(q) - 1) /\ j + 1 \in 1..i
        BY <1>1, <2>1
      <3> QED
        BY <1>1, <2>2, <3>1
    <2>4. Ahead(q)
      BY <2>1 DEF Ahead
    <2> QED
      BY <2>1, <2>2, <2>3, <2>4
  <1>3. Ordered(Tail(q))
    BY <1>1, <1>2 DEF Ordered
  <1> QED
    BY <1>1, <1>2, <1>3 DEF Ahead

LEMMA StandardSteps ==
  /\ Standard \in Seq(Names) /\ Len(Standard) = 10
  /\ \A i \in 2..10 : Standard[i] \in IndexSteps
  BY DEF Standard, Names, IndexSteps

LEMMA UpdateOrdered ==
  /\ Update \in Seq(Names) /\ Ordered(Update) /\ Len(Update) = 18
  /\ Update[17] = "update_text_embeddings" /\ Update[18] = "update_clean_state"
  <1> DEFINE T == Tail(Standard)
             M == <<"update_final_documents", "update_entities_relationships",
                    "update_text_units", "update_covariates", "update_communities",
                    "update_community_reports", "update_text_embeddings", "update_clean_state">>
             L == <<"load_update_documents">>
             LT == L \o T
  <1>1. L \in Seq(Names) /\ Len(L) = 1 /\ L[1] \in IndexSteps
    BY DEF Names, IndexSteps
  <1>2. /\ M \in Seq(Names) /\ Len(M) = 8 /\ \A i \in 2..8 : M[i] # Merge
        /\ M[7] = "update_text_embeddings" /\ M[8] = "update_clean_state"
    BY DEF Names, MergeSteps, Merge
  <1>3. Update = LT \o M
    BY DEF Update
  <1> HIDE DEF L, M
  <1>4. T \in Seq(Names) /\ Len(T) = 9 /\ \A i \in 1..9 : T[i] \in IndexSteps
    <2>1. /\ T \in Seq(Names) /\ Len(T) = Len(Standard) - 1
          /\ \A i \in 1..Len(T) : T[i] = Standard[i + 1]
      <3>1. Standard # <<>>
        BY DEF Standard
      <3> QED
        BY <3>1, StandardSteps, HeadTailProperties
    <2>2. Len(T) = 9 /\ \A i \in 1..9 : i + 1 \in 2..10
      BY <2>1, StandardSteps
    <2> QED
      BY <2>1, <2>2, StandardSteps
  <1> HIDE DEF T
  <1>5. /\ LT \in Seq(Names) /\ Len(LT) = 10
        /\ \A i \in 1..10 : LT[i] \in IndexSteps
    <2>1. /\ LT \in Seq(Names) /\ Len(LT) = Len(L) + Len(T)
          /\ \A i \in 1..(Len(L) + Len(T)) : LT[i] = IF i <= Len(L) THEN L[i] ELSE T[i - Len(L)]
      BY <1>1, <1>4, ConcatProperties
    <2> HIDE DEF LT
    <2>2. ASSUME NEW i \in 1..10 PROVE LT[i] \in IndexSteps
      <3>1. i = 1 \/ i - 1 \in 1..9
        OBVIOUS
      <3> QED
        BY <1>1, <1>4, <2>1, <3>1
    <2> QED
      BY <1>1, <1>4, <2>1, <2>2
  <1> HIDE DEF LT
  <1>6. /\ Update \in Seq(Names) /\ Len(Update) = 18
        /\ \A i \in 1..10 : Update[i] \in IndexSteps
        /\ \A i \in 12..18 : Update[i] # Merge
        /\ Update[17] = "update_text_embeddings" /\ Update[18] = "update_clean_state"
    <2>1. /\ Update \in Seq(Names) /\ Len(Update) = Len(LT) + Len(M)
          /\ \A i \in 1..(Len(LT) + Len(M)) :
                 Update[i] = IF i <= Len(LT) THEN LT[i] ELSE M[i - Len(LT)]
      BY <1>2, <1>3, <1>5, ConcatProperties
    <2>2. ASSUME NEW i \in 12..18 PROVE Update[i] # Merge
      <3>1. i \in 1..18 /\ ~(i <= 10) /\ i - 10 \in 2..8
        OBVIOUS
      <3> QED
        BY <1>2, <1>5, <2>1, <3>1
    <2>3. ASSUME NEW i \in 1..10 PROVE Update[i] \in IndexSteps
      <3>1. i \in 1..18 /\ i <= 10
        OBVIOUS
      <3> QED
        BY <1>2, <1>5, <2>1, <3>1
    <2>4. Update[17] = M[7] /\ Update[18] = M[8]
      <3>1. 17 \in 1..18 /\ 18 \in 1..18 /\ ~(17 <= 10) /\ ~(18 <= 10) /\ 17 - 10 = 7 /\ 18 - 10 = 8
        OBVIOUS
      <3> QED
        BY <1>2, <1>5, <2>1, <3>1
    <2> QED
      BY <1>2, <1>5, <2>1, <2>2, <2>3, <2>4
  <1> QED
    BY <1>6 DEF Ordered

LEMMA InitInv == Init => Inv
  <1> SUFFICES ASSUME Init PROVE Inv
    OBVIOUS
  <1>1. DOMAIN tables = Providers /\ run = Idle
    BY DEF Init
  <1>2. /\ {"mode", "queue", "pending", "out", "torn"} \subseteq DOMAIN Idle /\ Idle.mode = "None"
        /\ Idle.queue = <<>> /\ Idle.pending = <<>>
    BY DEF Idle
  <1> QED
    BY <1>1, <1>2, EmptyPlan, EmptySeq DEF Inv

\* A workflow has computed: it leaves the queue with its writes, which go to the
\* run's own provider unless it is one of the merge.
LEMMA GoInv ==
  ASSUME Inv, NEW step, At(step), NEW next, Go(next), NEW writes,
         {"mode", "queue", "pending", "out", "torn"} \subseteq DOMAIN next,
         next.mode = run.mode, next.out = run.out,
         next.queue = Tail(run.queue), next.pending = writes,
         \/ Plan(writes, {run.out})
         \/ Plan(writes, {"final"}) /\ step \notin IndexSteps
  PROVE  Inv' /\ tables' = tables
  <1>1. run' = next /\ tables' = tables
    BY DEF Go
  <1>2. run.queue \in Seq(Names) /\ run.queue # <<>> /\ Head(run.queue) = step
    BY DEF Inv, At
  <1>3. Tail(run.queue) \in Seq(Names)
    BY <1>2
  <1>4. Plan(writes, {run.out, "final"})
    BY WiderPlan
  <1>5. ASSUME run.mode = "Update"
        PROVE  /\ run.out = "delta" /\ Ordered(Tail(run.queue))
               /\ Ahead(Tail(run.queue)) => Plan(writes, {run.out})
    BY <1>2, <1>5, TailQueue DEF Inv
  <1> QED
    BY <1>1, <1>3, <1>4, <1>5 DEF Inv

LEMMA AdvanceInv ==
  ASSUME Inv, NEW step, At(step), NEW writes, Go(Advance(writes)),
         \/ Plan(writes, {run.out})
         \/ Plan(writes, {"final"}) /\ step \notin IndexSteps
  PROVE  Inv' /\ tables' = tables
  <1> DEFINE next == Advance(writes)
  <1>1. /\ {"mode", "queue", "pending", "out", "torn"} \subseteq DOMAIN next
        /\ next.mode = run.mode /\ next.out = run.out
        /\ next.queue = Tail(run.queue) /\ next.pending = writes
    BY DEF Inv, Advance
  <1> HIDE DEF next
  <1>2. Go(next)
    BY DEF next
  <1> QED
    BY <1>1, <1>2, GoInv

LEMMA EndInv ==
  ASSUME Inv, NEW outcome, End(outcome)
  PROVE  Inv' /\ tables'["final"] = tables["final"]
  <1>1. run' = Idle /\ tables' = [tables EXCEPT !["previous"] = NoTables, !["delta"] = NoTables]
    BY DEF End
  <1>2. DOMAIN tables' = Providers /\ tables'["final"] = tables["final"]
    BY <1>1 DEF Inv, Providers
  <1>3. /\ {"mode", "queue", "pending", "out", "torn"} \subseteq DOMAIN Idle /\ Idle.mode = "None"
        /\ Idle.queue = <<>> /\ Idle.pending = <<>>
    BY DEF Idle
  <1> QED
    BY <1>1, <1>2, <1>3, EmptyPlan, EmptySeq DEF Inv

Untouched == run.mode = "Update" /\ Ahead(run.queue) => tables'["final"] = tables["final"]

LEMMA AbortInv == ASSUME Inv, Abort PROVE Inv' /\ tables'["final"] = tables["final"]
  BY EndInv DEF Abort
-----------------------------------------------------------------------------
\* The standard workflows write to the run's own provider.
LEMMA OwnPlan ==
  ASSUME NEW name \in TableNames, NEW rows
  PROVE  Plan(Writes(name, rows), {run.out})
  <1>1. run.out \in {run.out}
    OBVIOUS
  <1> QED
    BY <1>1, TablePlan DEF Writes

LEMMA StandardInv ==
  ASSUME Inv,
         \/ load_input_documents \/ create_base_text_units \/ create_final_documents
         \/ extract_graph \/ finalize_graph \/ extract_covariates \/ create_communities
         \/ create_final_text_units \/ create_community_reports \/ generate_text_embeddings
  PROVE  Inv' /\ tables'["final"] = tables["final"]
  <1> USE DEF TableNames
  <1>1. ASSUME NEW step, At(step), NEW name \in TableNames, NEW rows,
               Go(Advance(Writes(name, rows)))
        PROVE  Inv' /\ tables'["final"] = tables["final"]
    BY <1>1, OwnPlan, AdvanceInv
  <1>2. ASSUME NEW step, At(step), NEW n1 \in TableNames, NEW r1, NEW n2 \in TableNames, NEW r2,
               Go(Advance(Writes(n1, r1) \o Writes(n2, r2)))
        PROVE  Inv' /\ tables'["final"] = tables["final"]
    <2>1. Plan(Writes(n1, r1) \o Writes(n2, r2), {run.out})
      BY OwnPlan, ConcatPlan
    <2> QED
      BY <1>2, <2>1, AdvanceInv
  <1>3. ASSUME NEW step, At(step), Go(Advance(<<>>))
        PROVE  Inv' /\ tables'["final"] = tables["final"]
    BY <1>3, EmptyPlan, AdvanceInv
  <1>4. CASE load_input_documents
    BY <1>1, <1>4, AbortInv DEF load_input_documents
  <1>5. CASE create_base_text_units
    BY <1>1, <1>3, <1>5, AbortInv DEF create_base_text_units
  <1>6. CASE create_final_documents
    BY <1>1, <1>6, AbortInv DEF create_final_documents
  <1>7. CASE extract_graph
    BY <1>2, <1>7, AbortInv DEF extract_graph
  <1>8. CASE finalize_graph
    BY <1>2, <1>8, AbortInv DEF finalize_graph
  <1>9. CASE extract_covariates
    BY <1>1, <1>3, <1>9, AbortInv DEF extract_covariates
  <1>10. CASE create_communities
    BY <1>1, <1>10, AbortInv DEF create_communities
  <1>11. CASE create_final_text_units
    BY <1>1, <1>11, AbortInv DEF create_final_text_units
  <1>12. CASE create_community_reports
    BY <1>1, <1>12, AbortInv DEF create_community_reports
  <1>13. CASE generate_text_embeddings
    BY <1>13, EmbedPlan, AdvanceInv DEF generate_text_embeddings, run_text_embeddings
  <1> QED
    BY <1>4, <1>5, <1>6, <1>7, <1>8, <1>9, <1>10, <1>11, <1>12, <1>13

\* The merging workflows write to the final provider, and none of them leaves a
\* merge ahead.
LEMMA FinalPlan ==
  ASSUME NEW name \in TableNames, NEW rows
  PROVE  Plan(Merged(name, rows), {"final"})
  BY TablePlan DEF Merged

LEMMA MergeInv ==
  ASSUME Inv,
         \/ load_update_documents \/ update_final_documents \/ update_entities_relationships
         \/ update_text_units \/ update_covariates \/ update_communities
         \/ update_community_reports \/ update_text_embeddings \/ update_clean_state
  PROVE  Inv' /\ tables'["final"] = tables["final"]
  <1> USE DEF TableNames
  <1>0. \A step \in MergeSteps : step \notin IndexSteps
    BY DEF MergeSteps, Merge, IndexSteps
  <1>1. ASSUME NEW step \in MergeSteps, At(step), NEW name \in TableNames, NEW rows,
               Go(Advance(Merged(name, rows)))
        PROVE  Inv' /\ tables'["final"] = tables["final"]
    BY <1>0, <1>1, FinalPlan, AdvanceInv
  <1>2. ASSUME NEW step \in MergeSteps, At(step), NEW writes, Plan(writes, {"final"}),
               NEW next, Go(next), {"mode", "queue", "pending", "out", "torn"} \subseteq DOMAIN next,
               next.mode = run.mode, next.out = run.out,
               next.queue = Tail(run.queue), next.pending = writes
        PROVE  Inv' /\ tables'["final"] = tables["final"]
    BY <1>0, <1>2, GoInv
  <1>3. /\ "update_final_documents" \in MergeSteps
        /\ "update_entities_relationships" \in MergeSteps /\ "update_text_units" \in MergeSteps
        /\ "update_covariates" \in MergeSteps /\ "update_communities" \in MergeSteps
        /\ "update_community_reports" \in MergeSteps
        /\ "update_text_embeddings" \in MergeSteps /\ "update_clean_state" \in MergeSteps
    BY DEF MergeSteps, Merge
  <1>4. CASE load_update_documents
    BY <1>4, OwnPlan, AdvanceInv, AbortInv, EndInv DEF load_update_documents
  <1>5. CASE update_final_documents
    BY <1>1, <1>3, <1>5, AbortInv DEF update_final_documents
  <1>6. CASE update_entities_relationships
    <2>1. CASE Abort
      BY <2>1, AbortInv
    <2>2. ASSUME NEW entities, NEW relationships, NEW map,
                 Go([Advance(Merged("entities", entities) \o Merged("relationships", relationships))
                     EXCEPT !.entityMap = map])
          PROVE  Inv' /\ tables'["final"] = tables["final"]
      <3> DEFINE writes == Merged("entities", entities) \o Merged("relationships", relationships)
                 next == [Advance(writes) EXCEPT !.entityMap = map]
      <3>1. Plan(writes, {"final"})
        BY FinalPlan, ConcatPlan
      <3> HIDE DEF writes
      <3>2. /\ {"mode", "queue", "pending", "out", "torn"} \subseteq DOMAIN next
            /\ next.mode = run.mode /\ next.out = run.out
            /\ next.queue = Tail(run.queue) /\ next.pending = writes
        BY DEF Inv, Advance
      <3>3. Go(next) /\ At("update_entities_relationships")
        BY <1>6, <2>2 DEF update_entities_relationships, writes
      <3> HIDE DEF next
      <3> QED
        BY <1>2, <1>3, <3>1, <3>2, <3>3
    <2> QED
      BY <1>6, <2>1, <2>2 DEF update_entities_relationships
  <1>7. CASE update_text_units
    BY <1>1, <1>3, <1>7, AbortInv DEF update_text_units
  <1>8. CASE update_covariates
    BY <1>0, <1>1, <1>3, <1>8, EmptyPlan, AdvanceInv DEF update_covariates
  <1>9. CASE update_communities
    <2>1. CASE Abort
      BY <2>1, AbortInv
    <2>2. ASSUME NEW rows, NEW map,
                 Go([Advance(Merged("communities", rows)) EXCEPT !.communityMap = map])
          PROVE  Inv' /\ tables'["final"] = tables["final"]
      <3> DEFINE writes == Merged("communities", rows)
                 next == [Advance(writes) EXCEPT !.communityMap = map]
      <3>1. Plan(writes, {"final"})
        BY FinalPlan
      <3> HIDE DEF writes
      <3>2. /\ {"mode", "queue", "pending", "out", "torn"} \subseteq DOMAIN next
            /\ next.mode = run.mode /\ next.out = run.out
            /\ next.queue = Tail(run.queue) /\ next.pending = writes
        BY DEF Inv, Advance
      <3>3. Go(next) /\ At("update_communities")
        BY <1>9, <2>2 DEF update_communities, writes
      <3> HIDE DEF next
      <3> QED
        BY <1>2, <1>3, <3>1, <3>2, <3>3
    <2> QED
      BY <1>9, <2>1, <2>2 DEF update_communities
  <1>10. CASE update_community_reports
    BY <1>1, <1>3, <1>10, AbortInv DEF update_community_reports
  <1>11. CASE update_text_embeddings
    BY <1>11, EmbedPlan, AdvanceInv DEF update_text_embeddings, run_text_embeddings
  <1>12. CASE update_clean_state
    <2> DEFINE next == [Advance(<<>>) EXCEPT !.entityMap = None, !.communityMap = None]
    <2>1. /\ {"mode", "queue", "pending", "out", "torn"} \subseteq DOMAIN next
          /\ next.mode = run.mode /\ next.out = run.out
          /\ next.queue = Tail(run.queue) /\ next.pending = <<>>
      BY DEF Inv, Advance
    <2>2. Go(next) /\ At("update_clean_state")
      BY <1>12 DEF update_clean_state
    <2> HIDE DEF next
    <2> QED
      BY <1>2, <1>3, <2>1, <2>2, EmptyPlan
  <1> QED
    BY <1>4, <1>5, <1>6, <1>7, <1>8, <1>9, <1>10, <1>11, <1>12
-----------------------------------------------------------------------------
\* A write comes from a plan: it goes where the plan says, and the rest of the
\* plan goes nowhere else.
LEMMA WriteRun ==
  ASSUME Inv, NEW P, Plan(run.pending, P), run.pending # <<>>, NEW next
  PROVE  /\ WritesTo(Head(run.pending), P)
         /\ next = [run EXCEPT !.pending = Tail(@)] => Plan(next.pending, P)
         /\ \A batch : next = [run EXCEPT !.pending[1].rows = @ \ batch] => Plan(next.pending, P)
  <1>1. PICK S : run.pending \in Seq(S) /\ \A w \in S : WritesTo(w, P)
    BY DEF Plan
  <1>2. "pending" \in DOMAIN run /\ 1 \in 1..Len(run.pending) /\ run.pending[1] \in S
        /\ Head(run.pending) = run.pending[1] /\ Tail(run.pending) \in Seq(S)
    BY <1>1 DEF Inv
  <1>3. ASSUME next = [run EXCEPT !.pending = Tail(@)] PROVE Plan(next.pending, P)
    <2>1. next.pending = Tail(run.pending)
      BY <1>2, <1>3
    <2> QED
      BY <1>1, <1>2, <2>1, PlanOver
  <1>4. ASSUME NEW batch, next = [run EXCEPT !.pending[1].rows = @ \ batch]
        PROVE  Plan(next.pending, P)
    <2> DEFINE w == [run.pending[1] EXCEPT !.rows = @ \ batch]
               T == S \cup {w}
    <2>1. next.pending = [run.pending EXCEPT ![1] = w]
      BY <1>2, <1>4
    <2>2. WritesTo(w, P)
      <3>1. WritesTo(run.pending[1], P)
        BY <1>1, <1>2
      <3> QED
        BY <3>1 DEF WritesTo
    <2> HIDE DEF w
    <2>3. w \in T /\ S \subseteq T /\ \A x \in T : WritesTo(x, P)
      BY <1>1, <2>2
    <2> HIDE DEF T
    <2>4. run.pending \in Seq(T)
      BY <1>1, <2>3, SeqMonotonic
    <2>5. [run.pending EXCEPT ![1] = w] \in Seq(T)
      BY <1>2, <2>3, <2>4, ExceptSeq
    <2> QED
      BY <2>1, <2>3, <2>5, PlanOver
  <1> QED
    BY <1>1, <1>2, <1>3, <1>4

LEMMA WriteInv ==
  ASSUME Inv, Write
  PROVE  Inv' /\ Untouched
  <1> DEFINE w == Head(run.pending)
  <1>1. \/ run' = [run EXCEPT !.pending = Tail(@)]
        \/ \E batch : run' = [run EXCEPT !.pending[1].rows = @ \ batch]
    BY DEF Write, WriteTable, WriteVectors, DropIndex, CreateIndex, DeleteDummy, Flush
  <1>2. /\ {"mode", "queue", "pending", "out", "torn"} \subseteq DOMAIN run'
        /\ run'.mode = run.mode /\ run'.queue = run.queue /\ run'.out = run.out
    BY <1>1 DEF Inv
  <1>3. ASSUME NEW P, Plan(run.pending, P) PROVE WritesTo(w, P) /\ Plan(run'.pending, P)
    BY <1>1, <1>3, WriteRun DEF Write
  <1>4. \/ UNCHANGED tables
        \/ w.kind = "table" /\ tables' = [tables EXCEPT ![w.at] = With(@, w.name, w.rows)]
    BY DEF Write, WriteTable, WriteVectors
  <1> HIDE DEF w
  <1>5. DOMAIN tables' = Providers
    BY <1>4 DEF Inv
  <1>6. Inv'
    BY <1>2, <1>3, <1>5 DEF Inv
  <1>7. Untouched
    <2>1. SUFFICES ASSUME run.mode = "Update", Ahead(run.queue)
                   PROVE  tables'["final"] = tables["final"]
      BY DEF Untouched
    <2>2. WritesTo(w, {run.out}) /\ run.out = "delta"
      BY <1>3, <2>1 DEF Inv
    <2>3. w.kind = "table" => w.at = "delta"
      BY <2>2 DEF WritesTo
    <2> QED
      BY <1>4, <2>3 DEF Inv, Providers
  <1> QED
    BY <1>6, <1>7

LEMMA StartInv ==
  ASSUME Inv, StartIndex \/ StartUpdate
  PROVE  Inv' /\ Untouched
  <1>1. run = Idle /\ Idle.mode = "None"
    BY DEF StartIndex, StartUpdate, Idle
  <1>2. Untouched
    BY <1>1 DEF Untouched
  <1>3. CASE StartIndex
    <2>1. /\ {"mode", "queue", "pending", "out", "torn"} \subseteq DOMAIN run'
          /\ run'.mode = "Index" /\ run'.queue = Standard /\ run'.pending = <<>>
      BY <1>3 DEF StartIndex, Idle
    <2>2. DOMAIN tables' = Providers
      BY <1>3 DEF StartIndex, Inv
    <2> QED
      BY <1>2, <2>1, <2>2, EmptyPlan, StandardSteps DEF Inv
  <1>4. CASE StartUpdate
    <2>1. /\ {"mode", "queue", "pending", "out", "torn"} \subseteq DOMAIN run'
          /\ run'.mode = "Update" /\ run'.queue = Update /\ run'.pending = <<>>
          /\ run'.out = "delta"
      BY <1>4 DEF StartUpdate, UpdateOutput, Idle
    <2>2. DOMAIN tables' = Providers
      BY <1>4 DEF StartUpdate, Inv
    <2> QED
      BY <1>2, <2>1, <2>2, EmptyPlan, UpdateOrdered DEF Inv
  <1> QED
    BY <1>3, <1>4

LEMMA NextInv == Inv /\ [Next]_vars => Inv' /\ (Untouched \/ UNCHANGED vars)
  <1> SUFFICES ASSUME Inv, [Next]_vars PROVE Inv' /\ (Untouched \/ UNCHANGED vars)
    OBVIOUS
  <1>1. CASE StartIndex \/ StartUpdate
    BY <1>1, StartInv
  <1>2. CASE Workflow
    BY <1>2, StandardInv, MergeInv DEF Workflow, Untouched
  <1>3. CASE Write
    BY <1>3, WriteInv
  <1>4. CASE Fail \/ Finish
    BY <1>4, EndInv DEF Fail, Finish, Untouched
  <1>5. CASE UNCHANGED vars
    BY <1>5 DEF vars, Inv
  <1> QED
    BY <1>1, <1>2, <1>3, <1>4, <1>5 DEF Next

\* An update changes no final table before it has indexed all that is new: up
\* to its first merging workflow all its writes go to the delta provider, and
\* what breaks off there leaves the index that queries read as it was.
THEOREM UpdateLeavesFinal == Spec => FinalUntouchedUntilMerge
  <1>1. Inv /\ [Next]_vars
          => [run.mode = "Update"
                /\ (\E i \in DOMAIN run.queue : run.queue[i] = "update_final_documents")
              => tables'["final"] = tables["final"]]_vars
    <2> SUFFICES ASSUME Inv, [Next]_vars, run.mode = "Update",
                        NEW i \in DOMAIN run.queue, run.queue[i] = "update_final_documents",
                        ~UNCHANGED vars
                 PROVE  tables'["final"] = tables["final"]
      OBVIOUS
    <2>1. Ahead(run.queue)
      <3>1. DOMAIN run.queue = 1..Len(run.queue)
        BY LenProperties DEF Inv
      <3> QED
        BY <3>1 DEF Ahead, Merge
    <2> QED
      BY <2>1, NextInv DEF Untouched
  <1> QED
    BY <1>1, InitInv, NextInv, PTL DEF Spec, FinalUntouchedUntilMerge
-----------------------------------------------------------------------------
\* A workflow either ends the run or leaves the queue with its writes; what an
\* embedding workflow and the last one leave pending.
Embeddings(p) == EmbedField(p, "entity_description") \o EmbedField(p, "community_full_content")
                   \o EmbedField(p, "text_unit_text")
Embedders == {"generate_text_embeddings", "update_text_embeddings", "update_clean_state"}
Moves(step) ==
    /\ At(step) /\ Go(run')
    /\ run'.mode = run.mode /\ run'.out = run.out /\ run'.torn = run.torn
    /\ run'.queue = Tail(run.queue)
    /\ step = "generate_text_embeddings" => run'.pending = Embeddings(run.out)
    /\ step = "update_text_embeddings" => run'.pending = Embeddings("final")
    /\ step = "update_clean_state" => run'.pending = <<>>
Ends ==
    \E outcome \in {"Ok", "Failed"} :
        End(outcome) /\ UNCHANGED <<vectors, torn, runs, failures>>

LEMMA AdvanceMoves ==
  ASSUME Inv, NEW step, At(step), NEW writes, Go(Advance(writes)),
         step = "generate_text_embeddings" => writes = Embeddings(run.out),
         step = "update_text_embeddings" => writes = Embeddings("final"),
         step = "update_clean_state" => writes = <<>>
  PROVE  Moves(step)
  <1>1. run' = Advance(writes) /\ UNCHANGED <<tables, vectors, last, torn, runs, failures>>
    BY DEF Go
  <1>2. /\ run'.mode = run.mode /\ run'.out = run.out /\ run'.torn = run.torn
        /\ run'.queue = Tail(run.queue) /\ run'.pending = writes
    BY <1>1 DEF Advance, Inv
  <1> QED
    BY <1>1, <1>2 DEF Moves, Go

LEMMA MapMoves ==
  ASSUME Inv, NEW step, At(step), step \notin Embedders, NEW writes, NEW map,
         \/ Go([Advance(writes) EXCEPT !.entityMap = map])
         \/ Go([Advance(writes) EXCEPT !.communityMap = map])
  PROVE  Moves(step)
  <1>1. /\ run' = [Advance(writes) EXCEPT !.entityMap = map]
             \/ run' = [Advance(writes) EXCEPT !.communityMap = map]
        /\ UNCHANGED <<tables, vectors, last, torn, runs, failures>>
    BY DEF Go
  <1>2. /\ run'.mode = run.mode /\ run'.out = run.out /\ run'.torn = run.torn
        /\ run'.queue = Tail(run.queue)
    BY <1>1 DEF Advance, Inv
  <1> QED
    BY <1>1, <1>2 DEF Moves, Go, Embedders

LEMMA WorkflowShape ==
  ASSUME Inv, Workflow
  PROVE  Ends \/ \E step \in Names : Moves(step)
  <1> USE DEF Names, IndexSteps, MergeSteps, Merge, Embedders
  <1>1. Abort => Ends
    BY DEF Abort, Ends
  <1>2. ASSUME NEW step \in Names, At(step), step \notin Embedders, NEW writes, Go(Advance(writes))
        PROVE  \E s \in Names : Moves(s)
    BY <1>2, AdvanceMoves
  <1>3. CASE load_input_documents
    BY <1>1, <1>2, <1>3 DEF load_input_documents
  <1>4. CASE create_base_text_units
    BY <1>1, <1>2, <1>4 DEF create_base_text_units
  <1>5. CASE create_final_documents
    BY <1>1, <1>2, <1>5 DEF create_final_documents
  <1>6. CASE extract_graph
    BY <1>1, <1>2, <1>6 DEF extract_graph
  <1>7. CASE finalize_graph
    BY <1>1, <1>2, <1>7 DEF finalize_graph
  <1>8. CASE extract_covariates
    BY <1>1, <1>2, <1>8 DEF extract_covariates
  <1>9. CASE create_communities
    BY <1>1, <1>2, <1>9 DEF create_communities
  <1>10. CASE create_final_text_units
    BY <1>1, <1>2, <1>10 DEF create_final_text_units
  <1>11. CASE create_community_reports
    BY <1>1, <1>2, <1>11 DEF create_community_reports
  <1>12. CASE generate_text_embeddings
    <2>1. Moves("generate_text_embeddings")
      BY <1>12, AdvanceMoves DEF generate_text_embeddings, run_text_embeddings, Embeddings
    <2> QED
      BY <2>1
  <1>13. CASE load_update_documents
    BY <1>1, <1>2, <1>13 DEF load_update_documents, Ends
  <1>14. CASE update_final_documents
    BY <1>1, <1>2, <1>14 DEF update_final_documents
  <1>15. CASE update_entities_relationships
    <2>1. Ends \/ Moves("update_entities_relationships")
      BY <1>1, <1>15, MapMoves DEF update_entities_relationships
    <2> QED
      BY <2>1
  <1>16. CASE update_text_units
    BY <1>1, <1>2, <1>16 DEF update_text_units
  <1>17. CASE update_covariates
    BY <1>1, <1>2, <1>17 DEF update_covariates
  <1>18. CASE update_communities
    <2>1. Ends \/ Moves("update_communities")
      BY <1>1, <1>18, MapMoves DEF update_communities
    <2> QED
      BY <2>1
  <1>19. CASE update_community_reports
    BY <1>1, <1>2, <1>19 DEF update_community_reports
  <1>20. CASE update_text_embeddings
    <2>1. Moves("update_text_embeddings")
      <3>1. At("update_text_embeddings") /\ Go(Advance(Embeddings("final")))
        BY <1>20 DEF update_text_embeddings, run_text_embeddings, EmbedFinal, Embeddings
      <3> QED
        BY <3>1, AdvanceMoves
    <2> QED
      BY <2>1
  <1>21. CASE update_clean_state
    <2>1. At("update_clean_state") /\ Go([Advance(<<>>) EXCEPT !.entityMap = None, !.communityMap = None])
      BY <1>21 DEF update_clean_state
    <2> DEFINE next == [Advance(<<>>) EXCEPT !.entityMap = None, !.communityMap = None]
    <2>2. /\ next.mode = run.mode /\ next.out = run.out /\ next.torn = run.torn
          /\ next.queue = Tail(run.queue) /\ next.pending = <<>>
      BY DEF Advance, Inv
    <2> HIDE DEF next
    <2>3. Moves("update_clean_state")
      BY <2>1, <2>2 DEF Moves, Go, next
    <2> QED
      BY <2>3
  <1> QED
    BY <1>3, <1>4, <1>5, <1>6, <1>7, <1>8, <1>9, <1>10, <1>11, <1>12, <1>13, <1>14, <1>15,
       <1>16, <1>17, <1>18, <1>19, <1>20, <1>21 DEF Workflow
-----------------------------------------------------------------------------
\* The types, apart from the pending writes, which Inv already describes.
Marks == {"tables", "vectors"}
TableTypes ==
    /\ \A p \in Providers : DOMAIN tables[p] \subseteq TableNames
    /\ DOMAIN vectors \subseteq DOMAIN Source
RunTypes ==
    /\ run.mode \in {"None", "Index", "Update"} /\ run.out \in {"final", "delta"}
    /\ run.queue \in Seq(Steps)
    /\ run.torn \subseteq Marks
    /\ runs \in 0..MaxRuns /\ failures \in 0..MaxFailures
EndTypes ==
    /\ last.outcome \in {"None", "Ok", "Failed"}
    /\ torn \subseteq Marks
Types == TableTypes /\ RunTypes /\ EndTypes

LEMMA StepSequences == Standard \in Seq(Steps) /\ Update \in Seq(Steps)
  <1>1. Standard \in Seq(Names) /\ Update \in Seq(Names)
    BY StandardSteps, UpdateOrdered
  <1>2. /\ DOMAIN Standard = 1..Len(Standard) /\ Standard = [i \in 1..Len(Standard) |-> Standard[i]]
        /\ DOMAIN Update = 1..Len(Update) /\ Update = [i \in 1..Len(Update) |-> Update[i]]
        /\ Len(Standard) \in Nat /\ Len(Update) \in Nat
    BY <1>1, LenProperties
  <1>3. /\ \A i \in 1..Len(Standard) : Standard[i] \in Steps
        /\ \A i \in 1..Len(Update) : Update[i] \in Steps
    BY <1>2 DEF Steps
  <1>4. Standard \in [1..Len(Standard) -> Steps] /\ Update \in [1..Len(Update) -> Steps]
    BY <1>2, <1>3
  <1> QED
    BY <1>2, <1>4

LEMMA IdleTypes ==
  /\ Idle.mode = "None" /\ Idle.out = "final" /\ Idle.queue \in Seq(Steps) /\ Idle.torn = {}
  /\ DOMAIN NoTables = {}
  BY EmptySeq DEF Idle, NoTables

LEMMA InitTypes == Init => Types
  <1> SUFFICES ASSUME Init PROVE Types
    OBVIOUS
  <1>1. TableTypes
    BY IdleTypes DEF Init, TableTypes, Providers
  <1>2. RunTypes
    BY IdleTypes, IndexAssumption DEF Init, RunTypes
  <1>3. EndTypes
    BY DEF Init, EndTypes
  <1> QED
    BY <1>1, <1>2, <1>3 DEF Types

LEMMA EndsTypes ==
  ASSUME Inv, Types, NEW outcome \in {"Ok", "Failed"}, End(outcome), UNCHANGED <<vectors, runs>>,
         failures' \in 0..MaxFailures, torn' \subseteq Marks
  PROVE  Types'
  <1>1. run' = Idle /\ last'.outcome = outcome
        /\ tables' = [tables EXCEPT !["previous"] = NoTables, !["delta"] = NoTables]
    BY DEF End
  <1>2. \A p \in Providers : DOMAIN tables'[p] \subseteq TableNames
    BY <1>1, IdleTypes DEF Inv, Types, TableTypes, Providers
  <1>3. TableTypes'
    BY <1>2 DEF Types, TableTypes
  <1>4. RunTypes'
    BY <1>1, IdleTypes DEF Types, RunTypes
  <1>5. EndTypes'
    BY <1>1 DEF EndTypes
  <1> QED
    BY <1>3, <1>4, <1>5 DEF Types

LEMMA MovesTypes ==
  ASSUME Inv, Types, NEW step, Moves(step)
  PROVE  Types'
  <1>1. /\ UNCHANGED <<tables, vectors, last, torn, runs, failures>>
        /\ run'.mode = run.mode /\ run'.out = run.out /\ run'.torn = run.torn
        /\ run'.queue = Tail(run.queue) /\ run.queue # <<>>
    BY DEF Moves, Go, At
  <1>2. Tail(run.queue) \in Seq(Steps)
    BY <1>1, HeadTailProperties DEF Types, RunTypes
  <1>3. RunTypes'
    BY <1>1, <1>2 DEF Types, RunTypes
  <1>4. TableTypes' /\ EndTypes'
    BY <1>1 DEF Types, TableTypes, EndTypes
  <1> QED
    BY <1>3, <1>4 DEF Types

LEMMA StartTypes ==
  ASSUME Inv, Types, StartIndex \/ StartUpdate
  PROVE  Types'
  <1>1. /\ run'.mode \in {"Index", "Update"} /\ run'.out \in {"final", "delta"}
        /\ run'.queue \in {Standard, Update} /\ run'.torn = torn
        /\ runs' \in 0..MaxRuns /\ UNCHANGED <<vectors, last, torn, failures>>
    <2>1. /\ run'.mode \in {"Index", "Update"} /\ run'.out \in {"final", "delta"}
          /\ run'.queue \in {Standard, Update} /\ run'.torn = torn
      BY DEF StartIndex, StartUpdate, Idle, UpdateOutput
    <2>2. runs' = runs + 1 /\ runs < MaxRuns /\ UNCHANGED <<vectors, last, torn, failures>>
      BY DEF StartIndex, StartUpdate
    <2> QED
      BY <2>1, <2>2, IndexAssumption DEF Types, RunTypes
  <1>2. RunTypes' /\ EndTypes'
    BY <1>1, StepSequences DEF Types, RunTypes, EndTypes
  <1>3. TableTypes'
    <2>1. UNCHANGED tables \/ tables' = [tables EXCEPT !["previous"] = tables["final"],
                                                       !["delta"] = NoTables]
      BY DEF StartIndex, StartUpdate
    <2>2. \A p \in Providers : DOMAIN tables'[p] \subseteq TableNames
      BY <2>1, IdleTypes DEF Inv, Types, TableTypes, Providers
    <2> QED
      BY <1>1, <2>2 DEF Types, TableTypes
  <1> QED
    BY <1>2, <1>3 DEF Types

LEMMA WriteTypes ==
  ASSUME Inv, Types, Write
  PROVE  Types'
  <1> DEFINE w == Head(run.pending)
  <1>1. WritesTo(w, {run.out, "final"})
    BY WriteRun DEF Inv, Write
  <1>2. /\ \/ run' = [run EXCEPT !.pending = Tail(@)]
           \/ \E batch : run' = [run EXCEPT !.pending[1].rows = @ \ batch]
        /\ UNCHANGED <<last, runs, failures>>
        /\ torn' = torn \/ torn' = torn \cup {"tables"} \/ torn' = torn \cup {"vectors"}
    BY DEF Write, WriteTable, WriteVectors, DropIndex, CreateIndex, DeleteDummy, Flush
  <1>3. /\ run'.mode = run.mode /\ run'.queue = run.queue /\ run'.out = run.out
        /\ run'.torn = run.torn
    BY <1>2 DEF Inv
  <1>4. RunTypes' /\ EndTypes'
    BY <1>2, <1>3 DEF Types, RunTypes, EndTypes, Marks
  <1>5. TableTypes'
    <2> HIDE DEF w
    <2>1. CASE WriteTable(w)
      <3>1. /\ w.name \in TableNames /\ UNCHANGED vectors
            /\ tables' = [tables EXCEPT ![w.at] = With(@, w.name, w.rows)]
        BY <1>1, <2>1 DEF WriteTable, WritesTo
      <3>2. \A p \in Providers : DOMAIN tables'[p] \subseteq DOMAIN tables[p] \cup {w.name}
        BY <3>1 DEF Inv, With
      <3> QED
        BY <3>1, <3>2 DEF Types, TableTypes
    <2>2. CASE WriteVectors(w)
      <3>1. w.name \in DOMAIN Source /\ UNCHANGED tables
        BY <1>1, <2>2 DEF WriteVectors, DropIndex, CreateIndex, DeleteDummy, Flush, WritesTo
      <3>2. DOMAIN vectors' \subseteq DOMAIN vectors \cup {w.name}
        BY <2>2 DEF WriteVectors, DropIndex, CreateIndex, DeleteDummy, Flush, With
      <3> QED
        BY <3>1, <3>2 DEF Types, TableTypes
    <2> QED
      BY <2>1, <2>2 DEF Write, w
  <1> QED
    BY <1>4, <1>5 DEF Types

LEMMA NextTypes == Inv /\ Types /\ [Next]_vars => Types'
  <1> SUFFICES ASSUME Inv, Types, [Next]_vars PROVE Types'
    OBVIOUS
  <1>1. CASE StartIndex \/ StartUpdate
    BY <1>1, StartTypes
  <1>2. CASE Workflow
    <2>1. CASE Ends
      <3>1. PICK outcome \in {"Ok", "Failed"} :
                End(outcome) /\ UNCHANGED <<vectors, torn, runs, failures>>
        BY <2>1 DEF Ends
      <3>2. failures' \in 0..MaxFailures /\ torn' \subseteq Marks
        BY <3>1 DEF Types, RunTypes, EndTypes
      <3> QED
        BY <3>1, <3>2, EndsTypes
    <2> QED
      BY <1>2, <2>1, WorkflowShape, MovesTypes
  <1>3. CASE Write
    BY <1>3, WriteTypes
  <1>4. CASE Fail
    <2>1. /\ End("Failed") /\ UNCHANGED <<vectors, torn, runs>>
          /\ failures' = failures + 1 /\ failures < MaxFailures
      BY <1>4 DEF Fail
    <2>2. failures' \in 0..MaxFailures /\ torn' \subseteq Marks
      BY <2>1, IndexAssumption DEF Types, RunTypes, EndTypes
    <2> QED
      BY <2>1, <2>2, EndsTypes
  <1>5. CASE Finish
    <2>1. /\ End("Ok") /\ UNCHANGED <<vectors, runs, failures>>
          /\ torn' = IF run.mode = "Index" THEN {} ELSE run.torn \ {"vectors"}
      BY <1>5 DEF Finish
    <2>2. failures' \in 0..MaxFailures /\ torn' \subseteq Marks
      BY <2>1 DEF Types, RunTypes
    <2> QED
      BY <2>1, <2>2, EndsTypes
  <1>6. CASE UNCHANGED vars
    BY <1>6 DEF vars, Types, TableTypes, RunTypes, EndTypes
  <1> QED
    BY <1>1, <1>2, <1>3, <1>4, <1>5, <1>6 DEF Next

\* Whatever runs succeed, break off or die, every provider holds tables of the
\* pipeline only, every index is one of the three the embeddings name, and a
\* run writes to its own provider or the final one.
THEOREM TypeCorrect == Spec => []TypeOK
  <1>1. Inv /\ Types => TypeOK
    <2> SUFFICES ASSUME Inv, Types PROVE TypeOK
      OBVIOUS
    <2>1. \A i \in DOMAIN run.pending :
              run.pending[i].kind = "table" => run.pending[i].at \in {run.out, "final"}
      <3>1. PICK S : run.pending \in Seq(S) /\ \A w \in S : WritesTo(w, {run.out, "final"})
        BY DEF Inv, Plan
      <3>2. \A i \in DOMAIN run.pending : run.pending[i] \in S
        BY <3>1, LenProperties, ElementOfSeq
      <3> QED
        BY <3>1, <3>2 DEF WritesTo
    <2> QED
      BY <2>1 DEF Inv, Types, TableTypes, RunTypes, EndTypes, Marks, TypeOK
  <1> QED
    BY <1>1, InitInv, NextInv, InitTypes, NextTypes, PTL DEF Spec
-----------------------------------------------------------------------------
\* What an index v must hold for its table, the rows with text to embed, and the
\* four writes that make it so: in a list of writes the last of them stands at place k, and as many of
\* the others as are still to come stand right before it.
Ids(f) == Column(Final(Source[f]), "id")
Filled(f, v, ids) == f \in DOMAIN v /\ v[f] = ids \ Skipped(f)
Refill(s, k, f, v, ids) ==
    /\ s[k].kind = "append" /\ s[k].name = f
    /\ \A i \in 1..Len(s) : s[i].name = f => i \in (k - 3)..k
    /\ k = 1 => f \in DOMAIN v /\ v[f] \cup (s[k].rows \ Skipped(f)) = ids \ Skipped(f)
    /\ k >= 2 => s[k].rows = ids /\ s[k - 1].kind = "sweep" /\ s[k - 1].name = f
    /\ k = 2 => f \in DOMAIN v /\ v[f] \subseteq {Dummy}
    /\ k >= 3 => s[k - 2].kind = "create" /\ s[k - 2].name = f
    /\ k >= 4 => s[k - 3].kind = "drop" /\ s[k - 3].name = f
Aligned(s, f, v, ids) ==
    \/ Filled(f, v, ids) /\ \A i \in 1..Len(s) : s[i].name # f
    \/ \E k \in 1..Len(s) : Refill(s, k, f, v, ids)
Present(f) == Has("final", Source[f])
NoTableWrite(s) == \A i \in 1..Len(s) : s[i].kind # "table"
AllAligned(s) ==
    /\ NoTableWrite(s)
    /\ \A f \in DOMAIN Source : Present(f) => Aligned(s, f, vectors, Ids(f))

\* The embedding workflow that a run does not go on from without: of its queue
\* only update_clean_state may stand behind it.
EmbedStep(mode) == IF mode = "Index" THEN "generate_text_embeddings" ELSE "update_text_embeddings"
EmbedsLater(queue, step) == \E i \in 1..Len(queue) : queue[i] = step
Closing(queue, step) ==
    \A i \in 1..Len(queue) :
        queue[i] = "update_clean_state" \/ \E j \in i..Len(queue) : queue[j] = step

\* The indices match their tables unless something is marked torn; a run either
\* has its embedding still to do, or what it has pending makes them match.
AllFilled == \A f \in DOMAIN Source : Present(f) => Filled(f, vectors, Ids(f))
RunInv ==
    /\ run = Idle \/ run.mode \in {"Index", "Update"}
    /\ run.mode = "Index" => run.out = "final"
    /\ run.mode # "None" =>
           /\ Closing(run.queue, EmbedStep(run.mode))
           /\ EmbedsLater(run.queue, EmbedStep(run.mode)) \/ AllAligned(run.pending)
SyncInv == "tables" \notin torn /\ "vectors" \notin torn => AllFilled
VectorInv == RunInv /\ SyncInv

\* A write to an index is done: the rest of the list still makes index f match.
LEMMA PopAligned ==
  ASSUME NEW S, NEW s \in Seq(S), s # <<>>, NEW f, NEW v, NEW u, NEW ids,
         Aligned(s, f, v, ids),
         \/ s[1].kind = "drop" /\ u = [g \in DOMAIN v \ {s[1].name} |-> v[g]]
         \/ s[1].kind = "create" /\ u = With(v, s[1].name, {Dummy})
         \/ s[1].kind = "sweep" /\ u = [v EXCEPT ![s[1].name] = @ \ {Dummy}]
         \/ s[1].kind = "append" /\ s[1].rows = {} /\ u = v
  PROVE  Aligned(Tail(s), f, u, ids)
  <1> DEFINE t == Tail(s)
  <1>1. /\ Len(s) \in Nat \ {0} /\ Len(t) = Len(s) - 1
        /\ \A i \in 1..Len(t) : t[i] = s[i + 1]
    BY HeadTailProperties, EmptySeq
  <1> HIDE DEF t
  <1>2. s[1].name # f => (f \in DOMAIN v <=> f \in DOMAIN u) /\ (f \in DOMAIN v => u[f] = v[f])
    BY DEF With
  <1>3. CASE Filled(f, v, ids) /\ \A i \in 1..Len(s) : s[i].name # f
    <2>1. Filled(f, u, ids)
      BY <1>1, <1>2, <1>3 DEF Filled
    <2>2. \A i \in 1..Len(t) : t[i].name # f
      <3>1. \A i \in 1..Len(t) : i + 1 \in 1..Len(s)
        BY <1>1
      <3> QED
        BY <1>1, <1>3, <3>1
    <2> QED
      BY <2>1, <2>2 DEF Aligned, t
  <1>4. ASSUME NEW k \in 1..Len(s), Refill(s, k, f, v, ids)
        PROVE  Aligned(t, f, u, ids)
    <2>1. CASE k = 1
      <3>1. /\ s[1].kind = "append" /\ s[1].name = f /\ f \in DOMAIN v
            /\ v[f] \cup (s[1].rows \ Skipped(f)) = ids \ Skipped(f)
            /\ \A i \in 1..Len(s) : s[i].name = f => i \in -2..1
        BY <1>4, <2>1 DEF Refill
      <3>2. Filled(f, u, ids)
        BY <3>1 DEF Filled
      <3>3. \A i \in 1..Len(t) : t[i].name # f
        <4>1. \A i \in 1..Len(t) : i + 1 \in 1..Len(s) /\ i + 1 \notin -2..1
          BY <1>1
        <4> QED
          BY <1>1, <3>1, <4>1
      <3> QED
        BY <3>2, <3>3 DEF Aligned
    <2>2. CASE k >= 2
      <3> DEFINE n == k - 1
      <3>1. n \in 1..Len(t) /\ n + 1 = k
        BY <1>1, <2>2
      <3>2. t[n].kind = "append" /\ t[n].name = f /\ t[n].rows = ids
        BY <1>1, <1>4, <2>2, <3>1 DEF Refill
      <3>3. \A i \in 1..Len(t) : t[i].name = f => i \in (n - 3)..n
        <4>1. \A i \in 1..Len(t) : i + 1 \in 1..Len(s) /\ (i + 1 \in (k - 3)..k => i \in (n - 3)..n)
          BY <1>1, <3>1
        <4>2. \A i \in 1..Len(s) : s[i].name = f => i \in (k - 3)..k
          BY <1>4 DEF Refill
        <4> QED
          BY <1>1, <4>1, <4>2
      <3>4. n >= 2 => t[n - 1].kind = "sweep" /\ t[n - 1].name = f
        <4>1. n >= 2 => n - 1 \in 1..Len(t) /\ (n - 1) + 1 = k - 1
          BY <1>1, <3>1
        <4> QED
          BY <1>1, <1>4, <2>2, <4>1 DEF Refill
      <3>5. n >= 3 => t[n - 2].kind = "create" /\ t[n - 2].name = f
        <4>1. n >= 3 => n - 2 \in 1..Len(t) /\ (n - 2) + 1 = k - 2 /\ k >= 3
          BY <1>1, <3>1
        <4> QED
          BY <1>1, <1>4, <4>1 DEF Refill
      <3>6. n >= 4 => t[n - 3].kind = "drop" /\ t[n - 3].name = f
        <4>1. n >= 4 => n - 3 \in 1..Len(t) /\ (n - 3) + 1 = k - 3 /\ k >= 4
          BY <1>1, <3>1
        <4> QED
          BY <1>1, <1>4, <4>1 DEF Refill
      <3>7. n = 1 => f \in DOMAIN u /\ u[f] \cup (t[n].rows \ Skipped(f)) = ids \ Skipped(f)
        <4> SUFFICES ASSUME n = 1
                     PROVE  f \in DOMAIN u /\ u[f] \cup (t[n].rows \ Skipped(f)) = ids \ Skipped(f)
          OBVIOUS
        <4>1. k = 2 /\ k - 1 = 1
          BY <3>1
        <4>2. s[1].kind = "sweep" /\ s[1].name = f /\ f \in DOMAIN v /\ v[f] \subseteq {Dummy}
          BY <1>4, <4>1 DEF Refill
        <4>3. u = [v EXCEPT ![s[1].name] = @ \ {Dummy}]
          BY <4>2
        <4>4. f \in DOMAIN u /\ u[f] = {}
          BY <4>2, <4>3
        <4> QED
          BY <3>2, <4>4
      <3>8. n = 2 => f \in DOMAIN u /\ u[f] \subseteq {Dummy}
        <4> SUFFICES ASSUME n = 2 PROVE f \in DOMAIN u /\ u[f] \subseteq {Dummy}
          OBVIOUS
        <4>1. k >= 3 /\ k - 2 = 1
          BY <3>1
        <4>2. s[1].kind = "create" /\ s[1].name = f
          BY <1>4, <4>1 DEF Refill
        <4> QED
          BY <4>2 DEF With
      <3> HIDE DEF n
      <3>9. Refill(t, n, f, u, ids)
        BY <3>2, <3>3, <3>4, <3>5, <3>6, <3>7, <3>8 DEF Refill
      <3> QED
        BY <3>1, <3>9 DEF Aligned
    <2> QED
      BY <2>1, <2>2
  <1> QED
    BY <1>3, <1>4 DEF Aligned, t

\* A flush moves a batch of rows from the list into the index.
LEMMA FlushAligned ==
  ASSUME NEW s, NEW t, Len(s) \in Nat \ {0}, Len(t) = Len(s), NEW f, NEW v, NEW u, NEW ids,
         Aligned(s, f, v, ids), NEW batch, batch \subseteq s[1].rows, s[1].kind = "append",
         u = [v EXCEPT ![s[1].name] = @ \cup (batch \ Skipped(s[1].name))],
         t[1].kind = s[1].kind, t[1].name = s[1].name, t[1].rows = s[1].rows \ batch,
         \A i \in 2..Len(s) : t[i] = s[i]
  PROVE  Aligned(t, f, u, ids)
  <1>1. \A i \in 1..Len(s) : t[i].kind = s[i].kind /\ t[i].name = s[i].name
    <2>1. \A i \in 1..Len(s) : i = 1 \/ i \in 2..Len(s)
      OBVIOUS
    <2> QED
      BY <2>1
  <1>2. s[1].name # f => (f \in DOMAIN v <=> f \in DOMAIN u) /\ (f \in DOMAIN v => u[f] = v[f])
    OBVIOUS
  <1>3. CASE Filled(f, v, ids) /\ \A i \in 1..Len(s) : s[i].name # f
    <2>1. Filled(f, u, ids)
      BY <1>2, <1>3 DEF Filled
    <2> QED
      BY <1>1, <1>3, <2>1 DEF Aligned
  <1>4. ASSUME NEW k \in 1..Len(s), Refill(s, k, f, v, ids)
        PROVE  Aligned(t, f, u, ids)
    <2>1. /\ t[k].kind = "append" /\ t[k].name = f
          /\ \A i \in 1..Len(t) : t[i].name = f => i \in (k - 3)..k
      BY <1>1, <1>4 DEF Refill
    <2>2. k = 1 => f \in DOMAIN u /\ u[f] \cup (t[k].rows \ Skipped(f)) = ids \ Skipped(f)
      <3> SUFFICES ASSUME k = 1
                   PROVE  f \in DOMAIN u /\ u[f] \cup (t[k].rows \ Skipped(f)) = ids \ Skipped(f)
        OBVIOUS
      <3>1. f \in DOMAIN v /\ v[f] \cup (s[1].rows \ Skipped(f)) = ids \ Skipped(f) /\ s[1].name = f
        BY <1>4 DEF Refill
      <3>2. f \in DOMAIN u /\ u[f] = v[f] \cup (batch \ Skipped(f))
        BY <3>1
      <3> QED
        BY <3>1, <3>2
    <2>3. k >= 2 => /\ t[k].rows = ids /\ t[k - 1].kind = "sweep" /\ t[k - 1].name = f
                    /\ k # 2
      <3> SUFFICES ASSUME k >= 2
                   PROVE  /\ t[k].rows = ids /\ t[k - 1].kind = "sweep" /\ t[k - 1].name = f
                          /\ k # 2
        OBVIOUS
      <3>1. k \in 2..Len(s) /\ k - 1 \in 1..Len(s)
        OBVIOUS
      <3>2. s[k].rows = ids /\ s[k - 1].kind = "sweep" /\ s[k - 1].name = f
        BY <1>4 DEF Refill
      <3>3. k # 2
        BY <3>2
      <3> QED
        BY <1>1, <3>1, <3>2, <3>3
    <2>4. k >= 3 => t[k - 2].kind = "create" /\ t[k - 2].name = f
      <3>1. k >= 3 => k - 2 \in 1..Len(s)
        OBVIOUS
      <3> QED
        BY <1>1, <1>4, <3>1 DEF Refill
    <2>5. k >= 4 => t[k - 3].kind = "drop" /\ t[k - 3].name = f
      <3>1. k >= 4 => k - 3 \in 1..Len(s)
        OBVIOUS
      <3> QED
        BY <1>1, <1>4, <3>1 DEF Refill
    <2>6. Refill(t, k, f, u, ids)
      BY <2>1, <2>2, <2>3, <2>4, <2>5 DEF Refill
    <2> QED
      BY <2>6 DEF Aligned
  <1> QED
    BY <1>3, <1>4 DEF Aligned

\* The four writes of one index, in full, somewhere in a list that does not
\* touch it otherwise.
Clear(s, f) == \A i \in 1..Len(s) : s[i].name # f
Block(s, f, ids) ==
    \E k \in 4..Len(s) :
        /\ s[k].kind = "append" /\ s[k].name = f /\ s[k].rows = ids
        /\ s[k - 1].kind = "sweep" /\ s[k - 1].name = f
        /\ s[k - 2].kind = "create" /\ s[k - 2].name = f
        /\ s[k - 3].kind = "drop" /\ s[k - 3].name = f
        /\ \A i \in 1..Len(s) : s[i].name = f => i \in (k - 3)..k
Refills(s, fields) ==
    /\ \E S : s \in Seq(S)
    /\ NoTableWrite(s)
    /\ \A f : f \notin fields => Clear(s, f)
    /\ \A f \in fields : Present(f) => Block(s, f, Ids(f))

LEMMA FieldRefills ==
  ASSUME NEW f \in DOMAIN Source, NEW fields, fields = {f}
  PROVE  Refills(EmbedField("final", f), fields)
  <1>1. CASE ~Present(f)
    <2>1. EmbedField("final", f) = <<>>
      BY <1>1 DEF EmbedField, Present
    <2> DEFINE none == <<>>
    <2>2. none \in Seq({}) /\ 1..Len(none) = {}
      BY EmptySeq
    <2> HIDE DEF none
    <2>3. NoTableWrite(none) /\ \A g : Clear(none, g)
      BY <2>2 DEF NoTableWrite, Clear
    <2>4. Refills(none, fields)
      BY <1>1, <2>2, <2>3 DEF Refills
    <2> QED
      BY <2>1, <2>4 DEF none
  <1>2. CASE Present(f)
    <2> DEFINE drop == VectorWrite("drop", f, {})
               create == VectorWrite("create", f, {})
               sweep == VectorWrite("sweep", f, {})
               append == VectorWrite("append", f, Ids(f))
               s == <<drop, create, sweep, append>>
               S == {drop, create, sweep, append}
    <2>1. EmbedField("final", f) = s
      BY <1>2 DEF EmbedField, IndexName, Present, Ids, Final
    <2>2. /\ drop.kind = "drop" /\ create.kind = "create" /\ sweep.kind = "sweep"
          /\ append.kind = "append" /\ append.rows = Ids(f)
          /\ drop.name = f /\ create.name = f /\ sweep.name = f /\ append.name = f
      BY DEF VectorWrite
    <2> HIDE DEF drop, create, sweep, append
    <2>3. s \in Seq(S) /\ Len(s) = 4 /\ s[1] = drop /\ s[2] = create /\ s[3] = sweep /\ s[4] = append
      OBVIOUS
    <2> HIDE DEF s, S
    <2>4. \A i \in 1..Len(s) : s[i].kind # "table" /\ s[i].name = f
      <3>1. \A i \in 1..Len(s) : i = 1 \/ i = 2 \/ i = 3 \/ i = 4
        BY <2>3
      <3> QED
        BY <2>2, <2>3, <3>1
    <2>5. Block(s, f, Ids(f))
      <3>1. 4 \in 4..Len(s) /\ 4 - 1 = 3 /\ 4 - 2 = 2 /\ 4 - 3 = 1 /\ 1..Len(s) = 1..4
        BY <2>3
      <3> QED
        BY <2>2, <2>3, <3>1 DEF Block
    <2>6. Refills(s, fields)
      BY <2>3, <2>4, <2>5 DEF Refills, NoTableWrite, Clear
    <2> QED
      BY <2>1, <2>6
  <1> QED
    BY <1>1, <1>2

LEMMA ConcatRefills ==
  ASSUME NEW s, NEW t, NEW F, NEW G, Refills(s, F), Refills(t, G), F \cap G = {}
  PROVE  Refills(s \o t, F \cup G)
  <1>1. PICK S : s \in Seq(S)
    BY DEF Refills
  <1>2. PICK T : t \in Seq(T)
    BY DEF Refills
  <1> DEFINE st == s \o t
             U == S \cup T
  <1>3. s \in Seq(U) /\ t \in Seq(U)
    BY <1>1, <1>2, SeqMonotonic
  <1> HIDE DEF U
  <1>4. /\ st \in Seq(U) /\ Len(st) = Len(s) + Len(t) /\ Len(s) \in Nat /\ Len(t) \in Nat
        /\ \A i \in 1..Len(st) : st[i] = IF i <= Len(s) THEN s[i] ELSE t[i - Len(s)]
    BY <1>3, ConcatProperties, LenProperties
  <1> HIDE DEF st
  <1>5. \A i \in 1..Len(st) : i \in 1..Len(s) \/ (i > Len(s) /\ i - Len(s) \in 1..Len(t))
    BY <1>4
  <1>6. NoTableWrite(st)
    <2>1. NoTableWrite(s) /\ NoTableWrite(t)
      BY DEF Refills
    <2> QED
      BY <1>4, <1>5, <2>1 DEF NoTableWrite
  <1>7. ASSUME NEW f, f \notin F \cup G PROVE Clear(st, f)
    <2>1. Clear(s, f) /\ Clear(t, f)
      BY <1>7 DEF Refills
    <2> QED
      BY <1>4, <1>5, <2>1, SMTT(30) DEF Clear
  <1>8. ASSUME NEW f \in F, Present(f) PROVE Block(st, f, Ids(f))
    <2>1. Clear(t, f) /\ Block(s, f, Ids(f))
      BY <1>8 DEF Refills
    <2>2. PICK k \in 4..Len(s) :
              /\ s[k].kind = "append" /\ s[k].name = f /\ s[k].rows = Ids(f)
              /\ s[k - 1].kind = "sweep" /\ s[k - 1].name = f
              /\ s[k - 2].kind = "create" /\ s[k - 2].name = f
              /\ s[k - 3].kind = "drop" /\ s[k - 3].name = f
              /\ \A i \in 1..Len(s) : s[i].name = f => i \in (k - 3)..k
      BY <2>1 DEF Block
    <2>3. k \in 4..Len(st) /\ \A i \in {k, k - 1, k - 2, k - 3} : i \in 1..Len(st) /\ i <= Len(s)
      BY <1>4
    <2>4. st[k] = s[k] /\ st[k - 1] = s[k - 1] /\ st[k - 2] = s[k - 2] /\ st[k - 3] = s[k - 3]
      BY <1>4, <2>3
    <2>5. ASSUME NEW i \in 1..Len(st), st[i].name = f PROVE i \in (k - 3)..k
      <3>1. i \in 1..Len(s)
        BY <1>4, <1>5, <2>1, <2>5 DEF Clear
      <3>2. st[i] = s[i]
        BY <1>4, <3>1
      <3> QED
        BY <2>2, <2>5, <3>1, <3>2
    <2> QED
      BY <2>2, <2>3, <2>4, <2>5 DEF Block
  <1>9. ASSUME NEW f \in G, Present(f) PROVE Block(st, f, Ids(f))
    <2>1. Clear(s, f) /\ Block(t, f, Ids(f))
      BY <1>9 DEF Refills
    <2>2. PICK m \in 4..Len(t) :
              /\ t[m].kind = "append" /\ t[m].name = f /\ t[m].rows = Ids(f)
              /\ t[m - 1].kind = "sweep" /\ t[m - 1].name = f
              /\ t[m - 2].kind = "create" /\ t[m - 2].name = f
              /\ t[m - 3].kind = "drop" /\ t[m - 3].name = f
              /\ \A i \in 1..Len(t) : t[i].name = f => i \in (m - 3)..m
      BY <2>1 DEF Block
    <2> DEFINE k == m + Len(s)
    <2>3. /\ k \in 4..Len(st) /\ k - Len(s) = m /\ (k - 1) - Len(s) = m - 1
          /\ (k - 2) - Len(s) = m - 2 /\ (k - 3) - Len(s) = m - 3
          /\ \A i \in {k, k - 1, k - 2, k - 3} : i \in 1..Len(st) /\ ~(i <= Len(s))
      BY <1>4
    <2>4. \A i \in 1..Len(t) : i \in (m - 3)..m => i + Len(s) \in (k - 3)..k
      BY <1>4
    <2> HIDE DEF k
    <2>5. st[k] = t[m] /\ st[k - 1] = t[m - 1] /\ st[k - 2] = t[m - 2] /\ st[k - 3] = t[m - 3]
      BY <1>4, <2>3
    <2>6. ASSUME NEW i \in 1..Len(st), st[i].name = f PROVE i \in (k - 3)..k
      <3>1. i \notin 1..Len(s)
        <4>1. i \in 1..Len(s) => st[i] = s[i]
          BY <1>4
        <4> QED
          BY <2>1, <2>6, <4>1 DEF Clear
      <3>2. i > Len(s) /\ i - Len(s) \in 1..Len(t) /\ (i - Len(s)) + Len(s) = i
        BY <1>4, <1>5, <3>1
      <3>3. st[i] = t[i - Len(s)]
        BY <1>4, <3>2
      <3> QED
        BY <2>2, <2>4, <2>6, <3>2, <3>3
    <2> QED
      BY <2>2, <2>3, <2>5, <2>6 DEF Block
  <1>10. Refills(st, F \cup G)
    BY <1>4, <1>6, <1>7, <1>8, <1>9 DEF Refills
  <1> QED
    BY <1>10 DEF st

LEMMA BlockAligned ==
  ASSUME NEW s, NEW f, NEW v, NEW ids, Block(s, f, ids), Len(s) \in Nat
  PROVE  Aligned(s, f, v, ids)
  <1>1. PICK k \in 4..Len(s) :
            /\ s[k].kind = "append" /\ s[k].name = f /\ s[k].rows = ids
            /\ s[k - 1].kind = "sweep" /\ s[k - 1].name = f
            /\ s[k - 2].kind = "create" /\ s[k - 2].name = f
            /\ s[k - 3].kind = "drop" /\ s[k - 3].name = f
            /\ \A i \in 1..Len(s) : s[i].name = f => i \in (k - 3)..k
    BY DEF Block
  <1>2. k \in 1..Len(s) /\ k # 1 /\ k # 2
    OBVIOUS
  <1>3. Refill(s, k, f, v, ids)
    BY <1>1, <1>2 DEF Refill
  <1> QED
    BY <1>2, <1>3 DEF Aligned

LEMMA EmbedAligned == AllAligned(Embeddings("final"))
  <1> DEFINE F1 == {"entity_description"}
             F2 == {"community_full_content"}
             F3 == {"text_unit_text"}
             e1 == EmbedField("final", "entity_description")
             e2 == EmbedField("final", "community_full_content")
             e3 == EmbedField("final", "text_unit_text")
             e12 == e1 \o e2
             e == e12 \o e3
             F12 == F1 \cup F2
             F == F12 \cup F3
  <1>1. /\ "entity_description" \in DOMAIN Source /\ "community_full_content" \in DOMAIN Source
        /\ "text_unit_text" \in DOMAIN Source
    BY DEF Source
  <1>2. Refills(e1, F1) /\ Refills(e2, F2) /\ Refills(e3, F3)
    BY <1>1, FieldRefills
  <1>3. F1 \cap F2 = {} /\ F12 \cap F3 = {} /\ F = DOMAIN Source
    BY DEF Source
  <1> HIDE DEF F1, F2, F3, e1, e2, e3
  <1>4. Refills(e12, F12)
    BY <1>2, <1>3, ConcatRefills
  <1> HIDE DEF e12, F12
  <1>5. Refills(e, F)
    BY <1>2, <1>3, <1>4, ConcatRefills
  <1> HIDE DEF e, F
  <1>6. Len(e) \in Nat
    BY <1>5, LenProperties DEF Refills
  <1>7. NoTableWrite(e) /\ \A f \in DOMAIN Source : Present(f) => Aligned(e, f, vectors, Ids(f))
    BY <1>3, <1>5, <1>6, BlockAligned DEF Refills
  <1>8. e = Embeddings("final")
    BY DEF e, e12, e1, e2, e3, Embeddings
  <1> QED
    BY <1>7, <1>8 DEF AllAligned

\* The final tables, the indices and the marks stay.
LEMMA SameFinal ==
  ASSUME SyncInv, tables'["final"] = tables["final"], UNCHANGED <<vectors, torn>>
  PROVE  SyncInv'
  BY DEF SyncInv, AllFilled, Present, Has, Filled, Ids, Final, Column

\* A run ends: with the marks as they are, or with the indices matching.
LEMMA EndsVector ==
  ASSUME Inv, VectorInv, NEW outcome, End(outcome), UNCHANGED vectors, torn' = torn \/ AllFilled
  PROVE  VectorInv'
  <1>1. tables'["final"] = tables["final"] /\ run' = Idle /\ Idle.mode = "None"
    BY EndInv DEF End, Idle
  <1>2. RunInv'
    BY <1>1 DEF RunInv
  <1>3. SyncInv'
    <2>1. CASE torn' = torn
      BY <1>1, <2>1, SameFinal DEF VectorInv
    <2>2. CASE AllFilled
      BY <1>1, <2>2 DEF SyncInv, AllFilled, Present, Has, Filled, Ids, Final, Column
    <2> QED
      BY <2>1, <2>2
  <1> QED
    BY <1>2, <1>3 DEF VectorInv

\* The queue of a run that finishes is empty, so its embedding is behind it.
LEMMA FinishVector ==
  ASSUME Inv, VectorInv, Finish
  PROVE  VectorInv'
  <1>1. /\ run # Idle /\ run.queue = <<>> /\ run.pending = <<>>
        /\ End("Ok") /\ UNCHANGED vectors
    BY DEF Finish
  <1>2. run.mode # "None"
    BY <1>1 DEF VectorInv, RunInv
  <1> DEFINE none == <<>>
  <1>3. 1..Len(none) = {}
    OBVIOUS
  <1> HIDE DEF none
  <1>4. AllAligned(none)
    <2>1. ~EmbedsLater(none, EmbedStep(run.mode))
      BY <1>3 DEF EmbedsLater
    <2> QED
      BY <1>1, <1>2, <2>1 DEF VectorInv, RunInv, none
  <1>5. AllFilled
    BY <1>3, <1>4 DEF AllAligned, Aligned, AllFilled
  <1> QED
    BY <1>1, <1>5, EndsVector

\* A workflow leaves the queue: the embedding one with writes that make the
\* indices match, update_clean_state with none, another before the embedding.
LEMMA MovesVector ==
  ASSUME Inv, VectorInv, NEW step, Moves(step)
  PROVE  VectorInv'
  <1> DEFINE q == run.queue
             t == Tail(q)
             e == EmbedStep(run.mode)
  <1>1. /\ UNCHANGED <<tables, vectors, torn>> /\ run.pending = <<>>
        /\ run'.mode = run.mode /\ run'.out = run.out /\ run'.queue = t
        /\ q # <<>> /\ Head(q) = step
    BY DEF Moves, Go, At
  <1>2. /\ Len(q) \in Nat \ {0} /\ Len(t) = Len(q) - 1 /\ q[1] = step
        /\ \A i \in 1..Len(t) : t[i] = q[i + 1]
    BY <1>1, HeadTailProperties DEF Inv
  <1>3. run.mode \in {"Index", "Update"} /\ (run.mode = "Index" => run.out = "final")
    <2>1. run # Idle
      BY <1>1 DEF Idle
    <2> QED
      BY <2>1 DEF VectorInv, RunInv
  <1>4. Closing(q, e) /\ (EmbedsLater(q, e) \/ AllAligned(run.pending))
    BY <1>3 DEF VectorInv, RunInv
  <1> HIDE DEF q, t, e
  <1>5. Closing(t, e)
    <2> SUFFICES ASSUME NEW i \in 1..Len(t), t[i] # "update_clean_state"
                 PROVE  \E j \in i..Len(t) : t[j] = e
      BY DEF Closing
    <2>1. i + 1 \in 1..Len(q) /\ q[i + 1] # "update_clean_state"
      BY <1>2
    <2>2. PICK j \in (i + 1)..Len(q) : q[j] = e
      BY <1>4, <2>1 DEF Closing
    <2>3. j - 1 \in i..Len(t) /\ j - 1 \in 1..Len(t) /\ (j - 1) + 1 = j
      BY <1>2
    <2>4. t[j - 1] = e
      BY <1>2, <2>2, <2>3
    <2> QED
      BY <2>3, <2>4
  <1>6. EmbedsLater(t, e) \/ AllAligned(run.pending)' 
    <2>1. CASE EmbedsLater(q, e)
      <3>1. PICK i \in 1..Len(q) : q[i] = e
        BY <2>1 DEF EmbedsLater
      <3>2. CASE i = 1
        <4>1. step = e
          BY <1>2, <3>1, <3>2
        <4>2. run'.pending = Embeddings("final")
          BY <1>3, <4>1 DEF Moves, e, EmbedStep
        <4>3. AllAligned(run'.pending)
          BY <4>2, EmbedAligned
        <4> QED
          BY <1>1, <4>3 DEF AllAligned, Present, Has, Ids, Final, Column
      <3>3. CASE i # 1
        <4>1. i - 1 \in 1..Len(t) /\ (i - 1) + 1 = i
          BY <1>2, <3>3
        <4>2. t[i - 1] = e
          BY <1>2, <3>1, <4>1
        <4> QED
          BY <4>1, <4>2 DEF EmbedsLater
      <3> QED
        BY <3>2, <3>3
    <2>2. CASE ~EmbedsLater(q, e)
      <3>1. q[1] = "update_clean_state"
        <4>1. 1 \in 1..Len(q) /\ \A j \in 1..Len(q) : q[j] # e
          BY <1>2, <2>2 DEF EmbedsLater
        <4> QED
          BY <1>4, <4>1 DEF Closing
      <3>2. run'.pending = run.pending
        BY <1>1, <1>2, <3>1 DEF Moves
      <3>3. AllAligned(run'.pending)
        BY <1>4, <2>2, <3>2
      <3> QED
        BY <1>1, <3>3 DEF AllAligned, Present, Has, Ids, Final, Column
    <2> QED
      BY <2>1, <2>2
  <1>7. RunInv'
    BY <1>1, <1>3, <1>5, <1>6 DEF RunInv, e, t
  <1>8. SyncInv'
    BY <1>1, SameFinal DEF VectorInv
  <1> QED
    BY <1>7, <1>8 DEF VectorInv

\* Both lists of workflows embed, and at most update_clean_state follows.
LEMMA StartVector ==
  ASSUME Inv, VectorInv, StartIndex \/ StartUpdate
  PROVE  VectorInv'
  <1>1. Standard[10] = "generate_text_embeddings"
    BY DEF Standard
  <1>2. /\ Closing(Standard, "generate_text_embeddings")
        /\ EmbedsLater(Standard, "generate_text_embeddings")
    <2>1. 10 \in 1..Len(Standard) /\ \A i \in 1..Len(Standard) : 10 \in i..Len(Standard)
      BY StandardSteps
    <2> QED
      BY <1>1, <2>1 DEF Closing, EmbedsLater
  <1>3. /\ Closing(Update, "update_text_embeddings")
        /\ EmbedsLater(Update, "update_text_embeddings")
    <2>1. /\ 17 \in 1..Len(Update)
          /\ \A i \in 1..Len(Update) : i = 18 \/ 17 \in i..Len(Update)
      BY UpdateOrdered
    <2> QED
      BY <2>1, UpdateOrdered DEF Closing, EmbedsLater
  <1>4. CASE StartIndex
    <2>1. /\ run'.mode = "Index" /\ run'.queue = Standard /\ run'.out = "final"
          /\ UNCHANGED <<tables, vectors, torn>>
      BY <1>4 DEF StartIndex, Idle
    <2>2. RunInv'
      BY <1>2, <2>1 DEF RunInv, EmbedStep
    <2>3. SyncInv'
      BY <2>1, SameFinal DEF VectorInv
    <2> QED
      BY <2>2, <2>3 DEF VectorInv
  <1>5. CASE StartUpdate
    <2>1. /\ run'.mode = "Update" /\ run'.queue = Update
          /\ UNCHANGED <<vectors, torn>>
          /\ tables' = [tables EXCEPT !["previous"] = tables["final"], !["delta"] = NoTables]
      BY <1>5 DEF StartUpdate, Idle
    <2>2. tables'["final"] = tables["final"]
      BY <2>1 DEF Inv, Providers
    <2>3. RunInv'
      BY <1>3, <2>1 DEF RunInv, EmbedStep
    <2>4. SyncInv'
      BY <2>1, <2>2, SameFinal DEF VectorInv
    <2> QED
      BY <2>3, <2>4 DEF VectorInv
  <1> QED
    BY <1>4, <1>5

\* A write to an index, while the run has only its last embedding in hand.
LEMMA IndexWrite ==
  ASSUME Inv, AllAligned(run.pending), run.pending # <<>>, WriteVectors(Head(run.pending))
  PROVE  AllAligned(run.pending)'
  <1> DEFINE s == run.pending
             t == run'.pending
  <1>1. PICK S : s \in Seq(S) /\ \A w \in S : WritesTo(w, {run.out, "final"})
    BY DEF Inv, Plan
  <1>2. /\ Len(s) \in Nat \ {0} /\ Head(s) = s[1] /\ WritesTo(s[1], {run.out, "final"})
        /\ Len(Tail(s)) = Len(s) - 1 /\ \A i \in 1..Len(Tail(s)) : Tail(s)[i] = s[i + 1]
    <2>1. /\ Len(s) \in Nat \ {0} /\ Head(s) = s[1] /\ s[1] \in S
          /\ Len(Tail(s)) = Len(s) - 1 /\ \A i \in 1..Len(Tail(s)) : Tail(s)[i] = s[i + 1]
      BY <1>1, HeadTailProperties, ElementOfSeq, EmptySeq
    <2> QED
      BY <1>1, <2>1
  <1>3. NoTableWrite(s) /\ \A f \in DOMAIN Source : Present(f) => Aligned(s, f, vectors, Ids(f))
    BY DEF AllAligned
  <1>4. UNCHANGED tables
    BY DEF WriteVectors
  <1>5. "pending" \in DOMAIN run /\ s # <<>>
    BY DEF Inv
  <1>6. \/ /\ t = Tail(s)
           /\ \/ s[1].kind = "drop" /\ vectors' = [g \in DOMAIN vectors \ {s[1].name} |-> vectors[g]]
              \/ s[1].kind = "create" /\ vectors' = With(vectors, s[1].name, {Dummy})
              \/ s[1].kind = "sweep"
                   /\ vectors' = [vectors EXCEPT ![s[1].name] = @ \ {Dummy}]
              \/ s[1].kind = "append" /\ s[1].rows = {} /\ vectors' = vectors
        \/ \E batch \in SUBSET s[1].rows :
              /\ s[1].kind = "append"
              /\ vectors' = [vectors EXCEPT ![s[1].name] = @ \cup (batch \ Skipped(s[1].name))]
              /\ run' = [run EXCEPT !.pending[1].rows = @ \ batch]
    <2>1. run' = [run EXCEPT !.pending = Tail(@)] => t = Tail(s)
      BY <1>5
    <2>2. Head(s) = s[1]
      BY <1>2
    <2> HIDE DEF s, t
    <2> QED
      BY <2>1, <2>2 DEF WriteVectors, DropIndex, CreateIndex, DeleteDummy, Flush, s
  <1>7. CASE \/ t = Tail(s) /\ s[1].kind = "drop"
                 /\ vectors' = [g \in DOMAIN vectors \ {s[1].name} |-> vectors[g]]
             \/ t = Tail(s) /\ s[1].kind = "create" /\ vectors' = With(vectors, s[1].name, {Dummy})
             \/ t = Tail(s) /\ s[1].kind = "sweep"
                 /\ vectors' = [vectors EXCEPT ![s[1].name] = @ \ {Dummy}]
             \/ t = Tail(s) /\ s[1].kind = "append" /\ s[1].rows = {} /\ vectors' = vectors
    <2> HIDE DEF s, t
    <2>1. t = Tail(s)
      BY <1>7
    <2>2. NoTableWrite(t)
      <3>1. \A i \in 1..Len(t) : i + 1 \in 1..Len(s)
        BY <1>2, <2>1
      <3> QED
        BY <1>2, <1>3, <2>1, <3>1 DEF NoTableWrite
    <2>3. ASSUME NEW f \in DOMAIN Source, Present(f) PROVE Aligned(t, f, vectors', Ids(f))
      <3>1. Aligned(s, f, vectors, Ids(f))
        BY <1>3, <2>3
      <3> DEFINE u == vectors'
      <3>2. \/ s[1].kind = "drop" /\ u = [g \in DOMAIN vectors \ {s[1].name} |-> vectors[g]]
            \/ s[1].kind = "create" /\ u = With(vectors, s[1].name, {Dummy})
            \/ s[1].kind = "sweep" /\ u = [vectors EXCEPT ![s[1].name] = @ \ {Dummy}]
            \/ s[1].kind = "append" /\ s[1].rows = {} /\ u = vectors
        BY <1>7
      <3>3. s \in Seq(S) /\ s # <<>>
        BY <1>1, <1>5
      <3> HIDE DEF u
      <3>4. Aligned(Tail(s), f, u, Ids(f))
        BY <3>1, <3>2, <3>3, PopAligned
      <3> QED
        BY <2>1, <3>4 DEF u
    <2> QED
      BY <1>4, <2>2, <2>3 DEF AllAligned, Present, Has, Ids, Final, Column, t
  <1>8. ASSUME NEW batch \in SUBSET s[1].rows, s[1].kind = "append",
               vectors' = [vectors EXCEPT ![s[1].name] = @ \cup (batch \ Skipped(s[1].name))],
               run' = [run EXCEPT !.pending[1].rows = @ \ batch]
        PROVE  AllAligned(run.pending)'
    <2> DEFINE w == [s[1] EXCEPT !.rows = @ \ batch]
    <2>1. t = [s EXCEPT ![1] = w]
      BY <1>5, <1>8
    <2>2. w.kind = s[1].kind /\ w.name = s[1].name /\ w.rows = s[1].rows \ batch
      BY <1>2 DEF WritesTo
    <2> HIDE DEF w, s, t
    <2>3. /\ Len(t) = Len(s) /\ t[1] = w /\ \A i \in 2..Len(s) : t[i] = s[i]
      BY <1>1, <1>2, <2>1
    <2>4. NoTableWrite(t)
      <3>1. \A i \in 1..Len(s) : i = 1 \/ i \in 2..Len(s)
        BY <1>2
      <3> QED
        BY <1>3, <2>2, <2>3, <3>1 DEF NoTableWrite
    <2>5. ASSUME NEW f \in DOMAIN Source, Present(f) PROVE Aligned(t, f, vectors', Ids(f))
      <3>1. Aligned(s, f, vectors, Ids(f)) /\ batch \subseteq s[1].rows
        BY <1>3, <2>5
      <3>2. t[1].kind = s[1].kind /\ t[1].name = s[1].name /\ t[1].rows = s[1].rows \ batch
        BY <2>2, <2>3
      <3>3. Len(s) \in Nat \ {0} /\ Len(t) = Len(s)
        BY <1>2, <2>3
      <3>4. \A i \in 2..Len(s) : t[i] = s[i]
        BY <2>3
      <3>5. /\ s[1].kind = "append"
            /\ vectors' = [vectors EXCEPT ![s[1].name] = @ \cup (batch \ Skipped(s[1].name))]
        BY <1>8
      <3> QED
        BY <3>1, <3>2, <3>3, <3>4, <3>5, FlushAligned
    <2> QED
      BY <1>4, <2>4, <2>5 DEF AllAligned, Present, Has, Ids, Final, Column, t
  <1> QED
    BY <1>6, <1>7, <1>8

LEMMA WriteVector ==
  ASSUME Inv, VectorInv, Write
  PROVE  VectorInv'
  <1> DEFINE w == Head(run.pending)
  <1>1. WritesTo(w, {run.out, "final"}) /\ run.pending # <<>> /\ (WriteTable(w) \/ WriteVectors(w))
    BY WriteRun DEF Inv, Write
  <1>2. \/ run' = [run EXCEPT !.pending = Tail(@)]
        \/ \E batch : run' = [run EXCEPT !.pending[1].rows = @ \ batch]
    BY DEF Write, WriteTable, WriteVectors, DropIndex, CreateIndex, DeleteDummy, Flush
  <1>3. run'.mode = run.mode /\ run'.queue = run.queue /\ run'.out = run.out
    BY <1>2 DEF Inv
  <1>4. run.mode \in {"Index", "Update"}
    <2>1. run # Idle
      BY <1>1 DEF Idle
    <2> QED
      BY <2>1 DEF VectorInv, RunInv
  <1>5. EmbedsLater(run.queue, EmbedStep(run.mode)) \/ AllAligned(run.pending)'
    <2> SUFFICES ASSUME ~EmbedsLater(run.queue, EmbedStep(run.mode))
                 PROVE  AllAligned(run.pending)'
      OBVIOUS
    <2>1. AllAligned(run.pending)
      BY <1>4 DEF VectorInv, RunInv
    <2>2. ~WriteTable(w)
      <3>1. PICK S : run.pending \in Seq(S)
        BY DEF Inv, Plan
      <3>2. 1 \in 1..Len(run.pending) /\ w = run.pending[1]
        BY <1>1, <3>1, HeadTailProperties, EmptySeq
      <3> QED
        BY <2>1, <3>2 DEF AllAligned, NoTableWrite, WriteTable
    <2> QED
      BY <1>1, <2>1, <2>2, IndexWrite
  <1>6. RunInv'
    BY <1>3, <1>4, <1>5 DEF VectorInv, RunInv
  <1>7. SyncInv'
    <2> HIDE DEF w
    <2>1. CASE WriteVectors(w)
      <3>1. "vectors" \in torn'
        BY <2>1 DEF WriteVectors
      <3> QED
        BY <3>1 DEF SyncInv
    <2>2. CASE WriteTable(w) /\ w.at = "final"
      <3>1. "tables" \in torn'
        BY <2>2 DEF WriteTable
      <3> QED
        BY <3>1 DEF SyncInv
    <2>3. CASE WriteTable(w) /\ w.at # "final"
      <3>1. tables'["final"] = tables["final"] /\ UNCHANGED <<vectors, torn>>
        BY <2>3 DEF WriteTable, Inv, Providers
      <3> QED
        BY <3>1, SameFinal DEF VectorInv
    <2> QED
      BY <1>1, <2>1, <2>2, <2>3
  <1> QED
    BY <1>6, <1>7 DEF VectorInv

LEMMA InitVector == Init => VectorInv
  <1> SUFFICES ASSUME Init PROVE VectorInv
    OBVIOUS
  <1>1. run = Idle /\ Idle.mode = "None"
    BY DEF Init, Idle
  <1>2. tables["final"] = NoTables /\ DOMAIN NoTables = {}
    BY DEF Init, Providers, NoTables
  <1> QED
    BY <1>1, <1>2 DEF VectorInv, RunInv, SyncInv, AllFilled, Present, Has

LEMMA NextVector == Inv /\ VectorInv /\ [Next]_vars => VectorInv'
  <1> SUFFICES ASSUME Inv, VectorInv, [Next]_vars PROVE VectorInv'
    OBVIOUS
  <1>1. CASE StartIndex \/ StartUpdate
    BY <1>1, StartVector
  <1>2. CASE Workflow
    BY <1>2, WorkflowShape, EndsVector, MovesVector DEF Ends
  <1>3. CASE Write
    BY <1>3, WriteVector
  <1>4. CASE Fail
    BY <1>4, EndsVector DEF Fail
  <1>5. CASE Finish
    BY <1>5, FinishVector
  <1>6. CASE UNCHANGED vars
    BY <1>6 DEF vars, VectorInv, RunInv, SyncInv, AllFilled, AllAligned, Present, Has, Filled,
                Ids, Final, Column
  <1> QED
    BY <1>1, <1>2, <1>3, <1>4, <1>5, <1>6 DEF Next

\* Once a run has succeeded, and as long as none has broken off in the middle of
\* the final tables or the indices, each vector index holds the ids of the rows
\* with text of the table it is made from, and neither the placeholder nor a row
\* of an earlier run: the embedding comes after every write to those tables and
\* replaces each index whole, whatever the size of a flush and whichever rows of
\* a flush are passed over.
THEOREM VectorsMatch == Spec => []VectorsMatchTables
  <1>1. VectorInv => VectorsMatchTables
    BY DEF VectorInv, SyncInv, AllFilled, Present, Filled, Ids, VectorsMatchTables, Whole, Final
  <1> QED
    BY <1>1, InitInv, NextInv, InitVector, NextVector, PTL DEF Spec
-----------------------------------------------------------------------------
\* What a table will hold: the rows of a pending write to it, W being the table
\* writes that are pending, and those it has in T when there is none.
TableWrites(s) == {s[i] : i \in {i \in 1..Len(s) : s[i].kind = "table"}}
RowsTo(W, p, name) == {w.rows : w \in {w \in W : w.at = p /\ w.name = name}}
Outcomes(W, T, p, name) ==
    IF RowsTo(W, p, name) # {} THEN RowsTo(W, p, name)
    ELSE IF name \in DOMAIN T[p] THEN {T[p][name]} ELSE {}

\* A table's rows cover the documents D, as SuccessCoversInput asks of them; a
\* set of tables covers the documents in it.
CoversDocuments(rows, D) == Column(rows, "id") = D
CoversUnits(rows, D) == D \ Blank \subseteq Column(rows, "id")
CoversMentions(rows, D) ==
    \A d \in D \ Blank : \A t \in TitlesIn(Mentions[d]) :
        /\ t \in Column(rows, "title")
        /\ OneType(t) => \A e \in rows : e.title = t => d \in e.units
KnownPairs(d) == FilterOrphans(Links[d], TitlesIn(Mentions[d]))
CoversLinks(rows, D) ==
    \A d \in D \ Blank : \A p \in KnownPairs(d) :
        \E r \in rows : r.source = p[1] /\ r.target = p[2] /\ d \in r.units
CoversClaims(rows, D) == Claims => D \ Blank \subseteq Column(rows, "unit")
Covers(name, rows, D) ==
    /\ name = "documents" => CoversDocuments(rows, D)
    /\ name = "text_units" => CoversUnits(rows, D)
    /\ name = "entities" => CoversMentions(rows, D)
    /\ name = "relationships" => CoversLinks(rows, D)
    /\ name = "covariates" => CoversClaims(rows, D)
Covered(T) ==
    "documents" \in DOMAIN T =>
        LET D == Column(T["documents"], "id") IN
        /\ {"text_units", "entities", "relationships"} \subseteq DOMAIN T
        /\ Claims => "covariates" \in DOMAIN T
        /\ \A name \in DOMAIN T : Covers(name, T[name], D)
Sound(W, T, p, name, D) == \A rows \in Outcomes(W, T, p, name) : Covers(name, rows, D)
Reached(W, T, p, name, D) == Sound(W, T, p, name, D) /\ Outcomes(W, T, p, name) # {}

\* What a run has achieved when k of its steps are done: in its own tables p the
\* documents D given to it, and after the merge all of them in the final ones.
Indexed(W, T, p, D, k) ==
    /\ k >= 1 => Reached(W, T, p, "documents", D)
    /\ k >= 2 => Sound(W, T, p, "text_units", D)
    /\ k >= 3 => Reached(W, T, p, "text_units", D)
    /\ k >= 4 => Reached(W, T, p, "entities", D) /\ Reached(W, T, p, "relationships", D)
    /\ k >= 6 /\ Claims => Reached(W, T, p, "covariates", D)
Joined(W, T, D, k) ==
    /\ k >= 11 => Reached(W, T, "final", "documents", D)
    /\ k >= 12 => /\ Reached(W, T, "final", "entities", D)
                  /\ Reached(W, T, "final", "relationships", D)
    /\ k >= 13 => Reached(W, T, "final", "text_units", D)
    /\ k >= 14 /\ Claims => Reached(W, T, "final", "covariates", D)

\* The place of a workflow in its run, and how many of them are done.
Place == [load_input_documents |-> 1, load_update_documents |-> 1,
          create_base_text_units |-> 2, create_final_documents |-> 3, extract_graph |-> 4,
          finalize_graph |-> 5, extract_covariates |-> 6, create_communities |-> 7,
          create_final_text_units |-> 8, create_community_reports |-> 9,
          generate_text_embeddings |-> 10, update_final_documents |-> 11,
          update_entities_relationships |-> 12, update_text_units |-> 13,
          update_covariates |-> 14, update_communities |-> 15,
          update_community_reports |-> 16, update_text_embeddings |-> 17,
          update_clean_state |-> 18]
Length(mode) == IF mode = "Update" THEN 18 ELSE 10
Done == Length(run.mode) - Len(run.queue)
InOrder(queue, mode) ==
    /\ Len(queue) <= Length(mode)
    /\ \A i \in 1..Len(queue) :
           /\ Place[queue[i]] = Length(mode) - Len(queue) + i
           /\ queue[i] = "load_input_documents" => mode = "Index"
           /\ queue[i] = "load_update_documents" => mode = "Update"

Coming == TableWrites(run.pending)
OldDocs == Column(tables["previous"]["documents"], "id")
Given == IF run.mode = "Update" THEN run.input \ OldDocs ELSE run.input
AllDocs == OldDocs \cup Given

\* The invariant: rows have the fields that the merges read; the queue is the
\* rest of its list; what is done was done for all documents; unless an update
\* broke off half way the final tables cover theirs, and the last run's.
Shaped(name, rows) ==
    /\ name = "text_units" => \A u \in rows : "id" \in DOMAIN u /\ u.id \in Docs
    /\ name = "entities" => \A e \in rows : {"title", "units"} \subseteq DOMAIN e
    /\ name = "relationships" => \A r \in rows : {"source", "target", "units"} \subseteq DOMAIN r
ShapeInv ==
    /\ \A p \in Providers : \A name \in DOMAIN tables[p] : Shaped(name, tables[p][name])
    /\ \A w \in Coming : Shaped(w.name, w.rows)
QueueInv ==
    /\ "input" \in DOMAIN run /\ run.input \subseteq Docs
    /\ run.mode \in {"Index", "Update"} \/ run = Idle
    /\ run.mode = "Index" => run.out = "final"
    /\ InOrder(run.queue, run.mode)
OwnInv == run.mode \in {"Index", "Update"} => Indexed(Coming, tables, run.out, Given, Done)
MergeInvariant ==
    run.mode = "Update" =>
        /\ Done >= 1 => Has("previous", "documents")
        /\ "tables" \notin run.torn =>
               Covered(tables["previous"]) /\ Joined(Coming, tables, AllDocs, Done)
        /\ "tables" \notin torn => tables["final"] = tables["previous"]
FinalInv == "tables" \notin torn => Covered(tables["final"])
LastInv ==
    run = Idle /\ "tables" \notin torn /\ last.outcome = "Ok" =>
        Has("final", "documents") /\ last.docs \subseteq Column(Final("documents"), "id")
CoverInv == ShapeInv /\ QueueInv /\ OwnInv /\ MergeInvariant /\ FinalInv /\ LastInv
-----------------------------------------------------------------------------
LEMMA EmptyWrites == TableWrites(<<>>) = {}
  BY DEF TableWrites

LEMMA TailWrites ==
  ASSUME NEW S, NEW s \in Seq(S), s # <<>>
  PROVE  TableWrites(s) = TableWrites(Tail(s)) \cup {w \in {s[1]} : w.kind = "table"}
  <1>1. /\ Len(s) \in Nat \ {0} /\ Len(Tail(s)) = Len(s) - 1
        /\ \A i \in 1..Len(Tail(s)) : Tail(s)[i] = s[i + 1]
    BY HeadTailProperties, EmptySeq
  <1>2. \A i \in 1..Len(Tail(s)) : i + 1 \in 1..Len(s)
    BY <1>1
  <1>3. \A i \in 1..Len(s) : i = 1 \/ (i - 1 \in 1..Len(Tail(s)) /\ Tail(s)[i - 1] = s[i])
    BY <1>1
  <1>4. 1 \in 1..Len(s)
    BY <1>1
  <1>5. ASSUME NEW w \in TableWrites(s)
        PROVE  w \in TableWrites(Tail(s)) \cup {x \in {s[1]} : x.kind = "table"}
    BY <1>3 DEF TableWrites
  <1>6. ASSUME NEW w \in TableWrites(Tail(s)) PROVE w \in TableWrites(s)
    BY <1>1, <1>2 DEF TableWrites
  <1>7. ASSUME NEW w \in {x \in {s[1]} : x.kind = "table"} PROVE w \in TableWrites(s)
    BY <1>4 DEF TableWrites
  <1> QED
    BY <1>5, <1>6, <1>7

LEMMA ListedWrites ==
  ASSUME NEW n1, NEW r1, NEW p1, NEW n2, NEW r2, NEW p2
  PROVE  /\ TableWrites(<<TableWrite(p1, n1, r1)>>) = {TableWrite(p1, n1, r1)}
         /\ TableWrites(<<TableWrite(p1, n1, r1)>> \o <<TableWrite(p2, n2, r2)>>)
                = {TableWrite(p1, n1, r1), TableWrite(p2, n2, r2)}
  <1> DEFINE a == TableWrite(p1, n1, r1)
             b == TableWrite(p2, n2, r2)
  <1>1. a.kind = "table" /\ b.kind = "table"
    BY DEF TableWrite
  <1> HIDE DEF a, b
  <1>2. Len(<<a>>) = 1 /\ <<a>>[1] = a /\ 1..1 = {1}
    OBVIOUS
  <1>3. TableWrites(<<a>>) = {a}
    BY <1>1, <1>2 DEF TableWrites
  <1> DEFINE s == <<a>> \o <<b>>
             S == {a, b}
  <1>4. Len(s) = 2 /\ s[1] = a /\ s[2] = b
    <2>1. <<a>> \in Seq(S) /\ <<b>> \in Seq(S) /\ Len(<<a>>) = 1 /\ Len(<<b>>) = 1
          /\ <<a>>[1] = a /\ <<b>>[1] = b
      OBVIOUS
    <2> HIDE DEF S
    <2>2. /\ Len(s) = Len(<<a>>) + Len(<<b>>)
          /\ \A i \in 1..(Len(<<a>>) + Len(<<b>>)) :
                 s[i] = IF i <= Len(<<a>>) THEN <<a>>[i] ELSE <<b>>[i - Len(<<a>>)]
      BY <2>1, ConcatProperties
    <2> HIDE DEF s
    <2>3. 1 \in 1..2 /\ 2 \in 1..2 /\ 1 <= 1 /\ ~(2 <= 1) /\ 2 - 1 = 1 /\ 1 + 1 = 2
      OBVIOUS
    <2> QED
      BY <2>1, <2>2, <2>3
  <1> HIDE DEF s
  <1>5. TableWrites(s) = {a, b}
    <2>1. 1..2 = {1, 2}
      OBVIOUS
    <2>2. \A w : w \in TableWrites(s) <=> \E i \in {1, 2} : w = s[i]
      BY <1>1, <1>4, <2>1 DEF TableWrites
    <2> QED
      BY <1>4, <2>2
  <1> QED
    BY <1>3, <1>5 DEF a, b, s

\* Writes of indices only.
LEMMA NoTableWrites == ASSUME NEW s, Plan(s, {}) PROVE TableWrites(s) = {}
  <1>1. PICK S : s \in Seq(S) /\ \A w \in S : WritesTo(w, {})
    BY DEF Plan
  <1>2. \A i \in 1..Len(s) : s[i] \in S
    BY <1>1, ElementOfSeq
  <1>3. \A i \in 1..Len(s) : s[i].kind # "table"
    BY <1>1, <1>2 DEF WritesTo
  <1> QED
    BY <1>3 DEF TableWrites

\* New writes W after all earlier ones are done: what they are to cover, and what
\* was there before and has no new write, is covered.
Fits(W, p, D) == \A w \in W : w.at = p => Covers(w.name, w.rows, D)

LEMMA SoundMoves ==
  ASSUME NEW W, NEW T, NEW p, NEW name, NEW D, Fits(W, p, D)
  PROVE  /\ Sound({}, T, p, name, D) => Sound(W, T, p, name, D)
         /\ Reached({}, T, p, name, D) => Reached(W, T, p, name, D)
  <1>1. RowsTo({}, p, name) = {}
    BY DEF RowsTo
  <1>2. \A rows \in RowsTo(W, p, name) : Covers(name, rows, D)
    BY DEF RowsTo, Fits
  <1> QED
    BY <1>1, <1>2 DEF Sound, Reached, Outcomes

LEMMA ReachedByWrite ==
  ASSUME NEW W, NEW T, NEW p, NEW D, Fits(W, p, D), NEW w \in W, w.at = p
  PROVE  Reached(W, T, p, w.name, D)
  <1>1. w.rows \in RowsTo(W, p, w.name)
    BY DEF RowsTo
  <1>2. \A rows \in RowsTo(W, p, w.name) : Covers(w.name, rows, D)
    BY DEF RowsTo, Fits
  <1> QED
    BY <1>1, <1>2 DEF Sound, Reached, Outcomes

LEMMA NothingComing ==
  ASSUME NEW T, NEW p, NEW name, NEW D
  PROVE  /\ Sound({}, T, p, name, D) <=> (name \in DOMAIN T[p] => Covers(name, T[p][name], D))
         /\ Reached({}, T, p, name, D) <=> name \in DOMAIN T[p] /\ Covers(name, T[p][name], D)
  <1>1. RowsTo({}, p, name) = {}
    BY DEF RowsTo
  <1> QED
    BY <1>1 DEF Sound, Reached, Outcomes

\* The documents and the tables that cover them stay, or lose a pending write
\* that has been carried out.
Narrows(V, U, W, T) ==
    \A p \in Providers : \A name :
        /\ Outcomes(V, U, p, name) \subseteq Outcomes(W, T, p, name)
        /\ Outcomes(W, T, p, name) # {} => Outcomes(V, U, p, name) # {}

LEMMA NarrowsIndexed ==
  ASSUME NEW V, NEW U, NEW W, NEW T, Narrows(V, U, W, T), NEW p \in Providers, NEW D, NEW k
  PROVE  /\ Indexed(W, T, p, D, k) => Indexed(V, U, p, D, k)
         /\ Joined(W, T, D, k) => Joined(V, U, D, k)
  <1>1. \A q \in Providers : \A name : /\ Sound(W, T, q, name, D) => Sound(V, U, q, name, D)
                                       /\ Reached(W, T, q, name, D) => Reached(V, U, q, name, D)
    BY DEF Narrows, Sound, Reached
  <1>2. "final" \in Providers
    BY DEF Providers
  <1> QED
    BY <1>1, <1>2 DEF Indexed, Joined

\* One step more: what the new stage asks for, and nothing written that breaks
\* an earlier one.
OwnStage(W, T, p, D, k) ==
    /\ Fits(W, p, D)
    /\ k = 1 => Reached(W, T, p, "documents", D)
    /\ k = 2 => Sound(W, T, p, "text_units", D)
    /\ k = 3 => Reached(W, T, p, "text_units", D)
    /\ k = 4 => Reached(W, T, p, "entities", D) /\ Reached(W, T, p, "relationships", D)
    /\ k = 6 /\ Claims => Reached(W, T, p, "covariates", D)
JoinStage(W, T, D, k) ==
    /\ Fits(W, "final", D)
    /\ k = 11 => Reached(W, T, "final", "documents", D)
    /\ k = 12 => /\ Reached(W, T, "final", "entities", D)
                 /\ Reached(W, T, "final", "relationships", D)
    /\ k = 13 => Reached(W, T, "final", "text_units", D)
    /\ k = 14 /\ Claims => Reached(W, T, "final", "covariates", D)

LEMMA NextStage ==
  ASSUME NEW W, NEW T, NEW p, NEW D, NEW k \in Nat \ {0}
  PROVE  /\ Indexed({}, T, p, D, k - 1) /\ OwnStage(W, T, p, D, k) => Indexed(W, T, p, D, k)
         /\ Joined({}, T, D, k - 1) /\ JoinStage(W, T, D, k) => Joined(W, T, D, k)
  <1>1. \A b \in {1, 2, 3, 4, 6, 11, 12, 13, 14} : k >= b => k = b \/ k - 1 >= b
    OBVIOUS
  <1>2. ASSUME Indexed({}, T, p, D, k - 1), OwnStage(W, T, p, D, k)
        PROVE  Indexed(W, T, p, D, k)
    <2>1. \A name : /\ Sound({}, T, p, name, D) => Sound(W, T, p, name, D)
                    /\ Reached({}, T, p, name, D) => Reached(W, T, p, name, D)
      BY <1>2, SoundMoves DEF OwnStage
    <2>2. k >= 1 => Reached(W, T, p, "documents", D)
      BY <1>1, <1>2, <2>1 DEF Indexed, OwnStage
    <2>3. k >= 2 => Sound(W, T, p, "text_units", D)
      BY <1>1, <1>2, <2>1 DEF Indexed, OwnStage
    <2>4. k >= 3 => Reached(W, T, p, "text_units", D)
      BY <1>1, <1>2, <2>1 DEF Indexed, OwnStage
    <2>5. k >= 4 => Reached(W, T, p, "entities", D) /\ Reached(W, T, p, "relationships", D)
      BY <1>1, <1>2, <2>1 DEF Indexed, OwnStage
    <2>6. k >= 6 /\ Claims => Reached(W, T, p, "covariates", D)
      BY <1>1, <1>2, <2>1 DEF Indexed, OwnStage
    <2> QED
      BY <2>2, <2>3, <2>4, <2>5, <2>6 DEF Indexed
  <1>3. ASSUME Joined({}, T, D, k - 1), JoinStage(W, T, D, k)
        PROVE  Joined(W, T, D, k)
    <2>1. \A name : Reached({}, T, "final", name, D) => Reached(W, T, "final", name, D)
      BY <1>3, SoundMoves DEF JoinStage
    <2>2. k >= 11 => Reached(W, T, "final", "documents", D)
      BY <1>1, <1>3, <2>1 DEF Joined, JoinStage
    <2>3. k >= 12 => /\ Reached(W, T, "final", "entities", D)
                     /\ Reached(W, T, "final", "relationships", D)
      BY <1>1, <1>3, <2>1 DEF Joined, JoinStage
    <2>4. k >= 13 => Reached(W, T, "final", "text_units", D)
      BY <1>1, <1>3, <2>1 DEF Joined, JoinStage
    <2>5. k >= 14 /\ Claims => Reached(W, T, "final", "covariates", D)
      BY <1>1, <1>3, <2>1 DEF Joined, JoinStage
    <2> QED
      BY <2>2, <2>3, <2>4, <2>5 DEF Joined
  <1> QED
    BY <1>2, <1>3
-----------------------------------------------------------------------------
\* A pending write that is carried out decides nothing new.
LEMMA WriteNarrows ==
  ASSUME NEW V, NEW w, NEW T, DOMAIN T = Providers, w.at \in Providers,
         NEW U, U = [T EXCEPT ![w.at] = With(@, w.name, w.rows)]
  PROVE  Narrows(V, U, V \cup {w}, T)
  <1> SUFFICES ASSUME NEW p \in Providers, NEW name
               PROVE  /\ Outcomes(V, U, p, name) \subseteq Outcomes(V \cup {w}, T, p, name)
                      /\ Outcomes(V \cup {w}, T, p, name) # {} => Outcomes(V, U, p, name) # {}
    BY DEF Narrows
  <1>1. CASE p = w.at /\ name = w.name
    <2>1. RowsTo(V \cup {w}, p, name) = RowsTo(V, p, name) \cup {w.rows}
      BY <1>1 DEF RowsTo
    <2>2. name \in DOMAIN U[p] /\ U[p][name] = w.rows
      <3>1. U[p] = With(T[p], name, w.rows)
        BY <1>1
      <3> QED
        BY <3>1 DEF With
    <2> QED
      BY <2>1, <2>2 DEF Outcomes
  <1>2. CASE ~(p = w.at /\ name = w.name)
    <2>1. RowsTo(V \cup {w}, p, name) = RowsTo(V, p, name)
      BY <1>2 DEF RowsTo
    <2>2. /\ name \in DOMAIN U[p] <=> name \in DOMAIN T[p]
          /\ name \in DOMAIN T[p] => U[p][name] = T[p][name]
      <3>1. CASE p # w.at
        BY <3>1
      <3>2. CASE p = w.at
        <4>1. U[p] = With(T[p], w.name, w.rows) /\ name # w.name
          BY <1>2, <3>2
        <4> QED
          BY <4>1 DEF With
      <3> QED
        BY <3>1, <3>2
    <2> QED
      BY <2>1, <2>2 DEF Outcomes
  <1> QED
    BY <1>1, <1>2

LEMMA SameNarrows == ASSUME NEW W, NEW T PROVE Narrows(W, T, W, T)
  BY DEF Narrows

\* Which table writes are pending after a write; what else it changes.
LEMMA WriteComing ==
  ASSUME Inv, Types, Write
  PROVE  /\ \/ /\ tables' = tables /\ Coming' = Coming /\ torn' = torn \cup {"vectors"}
            \/ \E w \in Coming :
                  /\ w.at \in {"final", "delta"}
                  /\ Coming = Coming' \cup {w}
                  /\ tables' = [tables EXCEPT ![w.at] = With(@, w.name, w.rows)]
                  /\ torn' = torn \cup IF w.at = "final" THEN {"tables"} ELSE {}
         /\ run'.mode = run.mode /\ run'.queue = run.queue /\ run'.out = run.out
         /\ run'.torn = run.torn /\ last' = last
         /\ "input" \in DOMAIN run => "input" \in DOMAIN run' /\ run'.input = run.input
  <1> DEFINE s == run.pending
  <1>1. PICK S : s \in Seq(S) /\ \A w \in S : WritesTo(w, {run.out, "final"})
    BY DEF Inv, Plan
  <1>2. s # <<>> /\ (WriteTable(Head(s)) \/ WriteVectors(Head(s)))
    BY DEF Write
  <1>3. /\ Len(s) \in Nat \ {0} /\ Head(s) = s[1] /\ s[1] \in S
        /\ Len(Tail(s)) = Len(s) - 1 /\ \A i \in 1..Len(Tail(s)) : Tail(s)[i] = s[i + 1]
    BY <1>1, <1>2, HeadTailProperties, ElementOfSeq, EmptySeq
  <1>4. WritesTo(s[1], {run.out, "final"})
    BY <1>1, <1>3
  <1>5. TableWrites(s) = TableWrites(Tail(s)) \cup {w \in {s[1]} : w.kind = "table"}
    BY <1>1, <1>2, TailWrites
  <1>6. \/ run' = [run EXCEPT !.pending = Tail(@)]
        \/ \E batch : run' = [run EXCEPT !.pending[1].rows = @ \ batch]
    BY <1>2 DEF WriteTable, WriteVectors, DropIndex, CreateIndex, DeleteDummy, Flush
  <1>7. /\ run'.mode = run.mode /\ run'.queue = run.queue /\ run'.out = run.out
        /\ run'.torn = run.torn /\ last' = last
        /\ "input" \in DOMAIN run => "input" \in DOMAIN run' /\ run'.input = run.input
    BY <1>6 DEF Inv, Write
  <1>8. run' = [run EXCEPT !.pending = Tail(@)] => run'.pending = Tail(s)
    BY DEF Inv
  <1>9. CASE WriteTable(s[1])
    <2>1. s[1].kind = "table" /\ run'.pending = Tail(s)
      BY <1>8, <1>9 DEF WriteTable
    <2> HIDE DEF s
    <2>2. TableWrites(s) = TableWrites(run'.pending) \cup {s[1]}
      BY <1>5, <2>1
    <2>3. Coming = Coming' \cup {s[1]}
      BY <2>2 DEF Coming, s
    <2>4. s[1].at \in {"final", "delta"}
      BY <1>4, <2>1 DEF WritesTo, Types, RunTypes
    <2>5. /\ tables' = [tables EXCEPT ![s[1].at] = With(@, s[1].name, s[1].rows)]
          /\ torn' = torn \cup IF s[1].at = "final" THEN {"tables"} ELSE {}
      BY <1>9 DEF WriteTable
    <2> QED
      BY <1>7, <2>3, <2>4, <2>5
  <1>10. CASE WriteVectors(s[1])
    <2>1. UNCHANGED tables /\ torn' = torn \cup {"vectors"} /\ s[1].kind # "table"
      BY <1>10 DEF WriteVectors, DropIndex, CreateIndex, DeleteDummy, Flush
    <2>2. CASE run' = [run EXCEPT !.pending = Tail(@)]
      <3>1. run'.pending = Tail(s)
        BY <1>8, <2>2
      <3> HIDE DEF s
      <3>2. TableWrites(s) = TableWrites(run'.pending)
        BY <1>5, <2>1, <3>1
      <3>3. Coming' = Coming
        BY <3>2 DEF Coming, s
      <3> QED
        BY <1>7, <2>1, <3>3
    <2>3. CASE \E batch : run' = [run EXCEPT !.pending[1].rows = @ \ batch]
      <3>1. PICK batch : run' = [run EXCEPT !.pending[1].rows = @ \ batch]
        BY <2>3
      <3> DEFINE t == run'.pending
                 x == [s[1] EXCEPT !.rows = @ \ batch]
      <3>2. t = [s EXCEPT ![1] = x]
        BY <3>1 DEF Inv
      <3>3. x.kind # "table"
        BY <1>4, <2>1 DEF WritesTo
      <3> HIDE DEF x, s, t
      <3>4. /\ Len(t) = Len(s) /\ t[1].kind # "table" /\ s[1].kind # "table"
            /\ \A i \in 1..Len(s) : i # 1 => t[i] = s[i]
        BY <1>1, <1>3, <2>1, <3>2, <3>3
      <3>5. TableWrites(t) = TableWrites(s)
        <4>1. \A i \in 1..Len(s) : t[i].kind = "table" <=> s[i].kind = "table"
          BY <3>4
        <4>2. \A i \in 1..Len(s) : s[i].kind = "table" => t[i] = s[i]
          BY <3>4
        <4> QED
          BY <3>4, <4>1, <4>2 DEF TableWrites
      <3>6. Coming' = Coming
        BY <3>5 DEF Coming, s, t
      <3> QED
        BY <1>7, <2>1, <3>6
    <2> QED
      BY <1>6, <2>2, <2>3
  <1> QED
    BY <1>2, <1>3, <1>9, <1>10

LEMMA IdleShape ==
  /\ Idle.mode = "None" /\ Idle.queue = <<>> /\ Idle.pending = <<>> /\ Idle.out = "final"
  /\ Idle.torn = {} /\ "input" \in DOMAIN Idle /\ Idle.input = {} /\ TableWrites(Idle.pending) = {}
  /\ InOrder(<<>>, "None")
  <1>1. /\ Idle.mode = "None" /\ Idle.queue = <<>> /\ Idle.pending = <<>> /\ Idle.out = "final"
        /\ Idle.torn = {} /\ "input" \in DOMAIN Idle /\ Idle.input = {}
    BY DEF Idle
  <1>2. InOrder(<<>>, "None")
    BY DEF InOrder, Length
  <1> QED
    BY <1>1, <1>2, EmptyWrites

LEMMA InitCover == Init => CoverInv
  <1> SUFFICES ASSUME Init PROVE CoverInv
    OBVIOUS
  <1>1. run = Idle /\ tables = [p \in Providers |-> NoTables] /\ last.outcome = "None"
    BY DEF Init
  <1>2. \A p \in Providers : DOMAIN tables[p] = {}
    BY <1>1 DEF NoTables
  <1>3. Coming = {}
    BY <1>1, IdleShape DEF Coming
  <1>4. ShapeInv
    BY <1>2, <1>3 DEF ShapeInv
  <1>5. QueueInv
    BY <1>1, IdleShape DEF QueueInv
  <1>6. OwnInv /\ MergeInvariant /\ LastInv
    BY <1>1, IdleShape DEF OwnInv, MergeInvariant, LastInv
  <1>7. FinalInv
    <2>1. "final" \in Providers
      BY DEF Providers
    <2> QED
      BY <1>2, <2>1 DEF FinalInv, Covered
  <1> QED
    BY <1>4, <1>5, <1>6, <1>7 DEF CoverInv

\* A run is over: the final tables are what it left there.
RunDocs == run.input \cup IF run.mode = "Update" /\ Has("previous", "documents") THEN OldDocs ELSE {}
LEMMA EndCover ==
  ASSUME Inv, CoverInv, NEW outcome, End(outcome),
         "tables" \notin torn' => Covered(tables["final"]),
         "tables" \notin torn' /\ outcome = "Ok" =>
             Has("final", "documents") /\ RunDocs \subseteq Column(Final("documents"), "id")
  PROVE  CoverInv'
  <1>1. /\ run' = Idle /\ last' = [outcome |-> outcome, docs |-> RunDocs]
        /\ tables' = [tables EXCEPT !["previous"] = NoTables, !["delta"] = NoTables]
    BY DEF End, RunDocs, OldDocs
  <1>2. /\ tables'["final"] = tables["final"]
        /\ \A p \in Providers : p # "final" => tables'[p] = NoTables
    BY <1>1 DEF Inv, Providers
  <1>3. Coming' = {}
    BY <1>1, IdleShape DEF Coming
  <1>4. ShapeInv'
    <2>1. ASSUME NEW p \in Providers, NEW name \in DOMAIN tables'[p]
          PROVE  Shaped(name, tables'[p][name])
      <3>1. p = "final"
        BY <1>2, <2>1 DEF NoTables
      <3> QED
        BY <1>2, <2>1, <3>1 DEF CoverInv, ShapeInv
    <2> QED
      BY <1>3, <2>1 DEF ShapeInv
  <1>5. QueueInv'
    BY <1>1, IdleShape DEF QueueInv
  <1>6. OwnInv' /\ MergeInvariant'
    BY <1>1, IdleShape DEF OwnInv, MergeInvariant
  <1>7. FinalInv'
    BY <1>2 DEF FinalInv
  <1>8. LastInv'
    BY <1>1, <1>2 DEF LastInv, Has, Final
  <1> QED
    BY <1>4, <1>5, <1>6, <1>7, <1>8 DEF CoverInv

LEMMA FailCover ==
  ASSUME Inv, CoverInv, End("Failed"), UNCHANGED torn
  PROVE  CoverInv'
  BY EndCover DEF CoverInv, FinalInv

LEMMA Pending ==
  ASSUME Inv, CoverInv, run.queue # <<>> \/ run.pending # <<>>
  PROVE  run.mode \in {"Index", "Update"} /\ run # Idle
  <1>1. run # Idle
    BY IdleShape
  <1> QED
    BY <1>1 DEF CoverInv, QueueInv

LEMMA WriteCover ==
  ASSUME Inv, Types, CoverInv, Write
  PROVE  CoverInv'
  <1>1. run.mode \in {"Index", "Update"}
    BY Pending DEF Write
  <1>2. /\ run'.mode = run.mode /\ run'.queue = run.queue /\ run'.out = run.out
        /\ run'.torn = run.torn /\ last' = last
        /\ "input" \in DOMAIN run' /\ run'.input = run.input
    BY WriteComing DEF CoverInv, QueueInv
  <1>3. run' # Idle
    BY <1>1, <1>2, IdleShape
  <1>4. /\ Narrows(Coming', tables', Coming, tables) /\ Coming' \subseteq Coming
        /\ tables'["previous"] = tables["previous"]
        /\ "tables" \notin torn' => "tables" \notin torn /\ tables'["final"] = tables["final"]
        /\ \A p \in Providers : \A name \in DOMAIN tables'[p] : Shaped(name, tables'[p][name])
    <2>1. CASE tables' = tables /\ Coming' = Coming /\ torn' = torn \cup {"vectors"}
      BY <2>1, SameNarrows DEF CoverInv, ShapeInv
    <2>2. ASSUME NEW w \in Coming, w.at \in {"final", "delta"}, Coming = Coming' \cup {w},
                 tables' = [tables EXCEPT ![w.at] = With(@, w.name, w.rows)],
                 torn' = torn \cup IF w.at = "final" THEN {"tables"} ELSE {}
          PROVE  <1>4!:
      <3>1. w.at \in Providers /\ DOMAIN tables = Providers
            /\ "final" \in Providers /\ "previous" \in Providers
        BY <2>2 DEF Inv, Providers
      <3>2. Narrows(Coming', tables', Coming, tables)
        <4> DEFINE U == tables'
                   V == Coming'
        <4>1. U = [tables EXCEPT ![w.at] = With(@, w.name, w.rows)] /\ Coming = V \cup {w}
          BY <2>2
        <4> HIDE DEF U, V
        <4>2. Narrows(V, U, V \cup {w}, tables)
          BY <3>1, <4>1, WriteNarrows
        <4> QED
          BY <4>1, <4>2 DEF U, V
      <3>3. \A p \in Providers : p # w.at => tables'[p] = tables[p]
        BY <2>2, <3>1
      <3>4. tables'[w.at] = With(tables[w.at], w.name, w.rows)
        BY <2>2, <3>1
      <3>5. ASSUME NEW p \in Providers, NEW name \in DOMAIN tables'[p]
            PROVE  Shaped(name, tables'[p][name])
        <4>1. /\ \A q \in Providers : \A n \in DOMAIN tables[q] : Shaped(n, tables[q][n])
              /\ Shaped(w.name, w.rows)
          BY DEF CoverInv, ShapeInv
        <4>2. CASE p # w.at
          BY <3>3, <3>5, <4>1, <4>2
        <4>3. CASE p = w.at
          BY <3>4, <3>5, <4>1, <4>3 DEF With
        <4> QED
          BY <4>2, <4>3
      <3> QED
        BY <2>2, <3>1, <3>2, <3>3, <3>5
    <2> QED
      BY <2>1, <2>2, WriteComing
  <1>5. ShapeInv'
    BY <1>4 DEF CoverInv, ShapeInv
  <1>6. QueueInv'
    BY <1>1, <1>2 DEF CoverInv, QueueInv
  <1>7. /\ Done' = Done /\ OldDocs' = OldDocs /\ Given' = Given /\ AllDocs' = AllDocs
    BY <1>2, <1>4 DEF Done, OldDocs, Given, AllDocs
  <1>8. OwnInv'
    <2>1. Indexed(Coming, tables, run.out, Given, Done) /\ run.out \in Providers
      BY <1>1 DEF CoverInv, OwnInv, Types, RunTypes, Providers
    <2> DEFINE V == Coming'
               U == tables'
    <2>2. Narrows(V, U, Coming, tables)
      BY <1>4
    <2> HIDE DEF V, U
    <2>3. Indexed(V, U, run.out, Given, Done)
      BY <2>1, <2>2, NarrowsIndexed
    <2>4. Indexed(V, U, run'.out, Given', Done')
      BY <1>2, <1>7, <2>3
    <2> QED
      BY <2>4 DEF OwnInv, V, U
  <1>9. MergeInvariant'
    <2> SUFFICES ASSUME run.mode = "Update" PROVE MergeInvariant'
      BY <1>2 DEF MergeInvariant
    <2>1. /\ Done >= 1 => Has("previous", "documents")
          /\ "tables" \notin run.torn =>
               Covered(tables["previous"]) /\ Joined(Coming, tables, AllDocs, Done)
          /\ "tables" \notin torn => tables["final"] = tables["previous"]
      BY DEF CoverInv, MergeInvariant
    <2>2. Done' >= 1 => Has("previous", "documents")'
      BY <1>4, <1>7, <2>1 DEF Has
    <2>3. "tables" \notin run.torn => Covered(tables'["previous"])
      BY <1>4, <2>1
    <2> DEFINE V == Coming'
               U == tables'
    <2>4. Narrows(V, U, Coming, tables) /\ "final" \in Providers
      BY <1>4 DEF Providers
    <2> HIDE DEF V, U
    <2>5. "tables" \notin run.torn => Joined(V, U, AllDocs, Done)
      BY <2>1, <2>4, NarrowsIndexed
    <2>6. "tables" \notin run.torn => Joined(V, U, AllDocs', Done')
      BY <1>7, <2>5
    <2>7. "tables" \notin torn' => tables'["final"] = tables'["previous"]
      BY <1>4, <2>1
    <2> QED
      BY <1>2, <2>2, <2>3, <2>6, <2>7 DEF MergeInvariant, V, U
  <1>10. FinalInv'
    BY <1>4 DEF CoverInv, FinalInv
  <1>11. LastInv'
    BY <1>3 DEF LastInv
  <1> QED
    BY <1>5, <1>6, <1>8, <1>9, <1>10, <1>11 DEF CoverInv

LEMMA StandardInOrder == InOrder(Standard, "Index")
  <1>1. /\ Standard[1] = "load_input_documents" /\ Standard[2] = "create_base_text_units"
        /\ Standard[3] = "create_final_documents" /\ Standard[4] = "extract_graph"
        /\ Standard[5] = "finalize_graph" /\ Standard[6] = "extract_covariates"
        /\ Standard[7] = "create_communities" /\ Standard[8] = "create_final_text_units"
        /\ Standard[9] = "create_community_reports"
        /\ Standard[10] = "generate_text_embeddings"
    BY DEF Standard
  <1>2. Length("Index") = 10 /\ Len(Standard) = 10
    BY StandardSteps DEF Length
  <1>3. ASSUME NEW i \in 1..10
        PROVE  Place[Standard[i]] = i /\ Standard[i] # "load_update_documents"
    <2>1. i \in {1, 2, 3, 4, 5, 6, 7, 8, 9, 10}
      OBVIOUS
    <2> QED
      BY <1>1, <2>1 DEF Place
  <1> QED
    BY <1>2, <1>3 DEF InOrder

LEMMA UpdateInOrder == InOrder(Update, "Update")
  <1> DEFINE L == <<"load_update_documents">>
             T == Tail(Standard)
             M == <<"update_final_documents", "update_entities_relationships",
                    "update_text_units", "update_covariates", "update_communities",
                    "update_community_reports", "update_text_embeddings", "update_clean_state">>
             LT == L \o T
             Right(step, k) == Place[step] = k /\ step # "load_input_documents"
  <1>1. /\ L \in Seq(Names) /\ Len(L) = 1 /\ Right(L[1], 1)
    BY DEF Names, IndexSteps, Place
  <1>2. /\ M \in Seq(Names) /\ Len(M) = 8
        /\ \A i \in 1..8 : Right(M[i], i + 10)
    <2>1. M \in Seq(Names) /\ Len(M) = 8
      BY DEF Names, MergeSteps, Merge
    <2>2. ASSUME NEW i \in 1..8
          PROVE  Right(M[i], i + 10)
      <3>1. i \in {1, 2, 3, 4, 5, 6, 7, 8}
        OBVIOUS
      <3> QED
        BY <3>1 DEF Place
    <2> QED
      BY <2>1, <2>2
  <1>3. Update = LT \o M
    BY DEF Update
  <1> HIDE DEF L, M
  <1>4. /\ T \in Seq(Names) /\ Len(T) = 9
        /\ \A i \in 1..9 : Right(T[i], i + 1)
    <2>1. /\ T \in Seq(Names) /\ Len(T) = Len(Standard) - 1
          /\ \A i \in 1..Len(T) : T[i] = Standard[i + 1]
      <3>1. Standard # <<>>
        BY DEF Standard
      <3> QED
        BY <3>1, StandardSteps, HeadTailProperties
    <2>2. \A i \in 1..9 : i + 1 \in 2..10
      OBVIOUS
    <2>3. \A i \in 2..10 : Place[Standard[i]] = i
      BY StandardInOrder, StandardSteps DEF InOrder, Length
    <2>4. \A i \in 2..10 : Standard[i] # "load_input_documents"
      BY StandardSteps DEF IndexSteps
    <2>5. \A i \in 2..10 : Right(Standard[i], i)
      BY <2>3, <2>4
    <2> HIDE DEF T, Right
    <2>6. Len(T) = 9
      BY <2>1, StandardSteps
    <2>7. \A i \in 1..9 : T[i] = Standard[i + 1]
      BY <2>1, <2>6
    <2>8. \A i \in 1..9 : Right(Standard[i + 1], i + 1)
      BY <2>2, <2>5
    <2> QED
      BY <2>1, <2>6, <2>7, <2>8
  <1> HIDE DEF T, Right
  <1>5. /\ LT \in Seq(Names) /\ Len(LT) = 10
        /\ \A i \in 1..10 : Right(LT[i], i)
    <2>1. /\ LT \in Seq(Names) /\ Len(LT) = Len(L) + Len(T)
          /\ \A i \in 1..(Len(L) + Len(T)) : LT[i] = IF i <= Len(L) THEN L[i] ELSE T[i - Len(L)]
      BY <1>1, <1>4, ConcatProperties
    <2> HIDE DEF LT
    <2>2. ASSUME NEW i \in 1..10 PROVE Right(LT[i], i)
      <3>1. i = 1 \/ (i - 1 \in 1..9 /\ ~(i <= 1) /\ (i - 1) + 1 = i)
        OBVIOUS
      <3>2. i \in 1..(1 + 9)
        OBVIOUS
      <3> QED
        BY <1>1, <1>4, <2>1, <3>1, <3>2
    <2> QED
      BY <1>1, <1>4, <2>1, <2>2
  <1> HIDE DEF LT
  <1>6. /\ \A i \in 1..(Len(LT) + Len(M)) :
                 Update[i] = IF i <= Len(LT) THEN LT[i] ELSE M[i - Len(LT)]
    BY <1>2, <1>3, <1>5, ConcatProperties
  <1>7. ASSUME NEW i \in 1..18
        PROVE  Right(Update[i], i)
    <2>1. (i \in 1..10 /\ i <= 10) \/ (i - 10 \in 1..8 /\ ~(i <= 10) /\ (i - 10) + 10 = i)
      OBVIOUS
    <2>2. i \in 1..(10 + 8)
      OBVIOUS
    <2> QED
      BY <1>2, <1>5, <1>6, <2>1, <2>2
  <1>8. Length("Update") = 18 /\ Len(Update) = 18
    BY UpdateOrdered DEF Length
  <1> QED
    BY <1>7, <1>8 DEF InOrder, Right

LEMMA StartCover ==
  ASSUME Inv, CoverInv, StartIndex \/ StartUpdate
  PROVE  CoverInv'
  <1>1. \A W, T, p, D : Indexed(W, T, p, D, 0) /\ Joined(W, T, D, 0)
    BY DEF Indexed, Joined
  <1>2. CASE StartIndex
    <2>1. /\ run'.mode = "Index" /\ run'.queue = Standard /\ run'.out = "final"
          /\ run'.pending = <<>> /\ "input" \in DOMAIN run' /\ run'.input \in Inputs
          /\ UNCHANGED <<tables, last, torn>>
      BY <1>2 DEF StartIndex, Idle
    <2>2. Coming' = {} /\ run' # Idle /\ Done' = 0
      BY <2>1, EmptyWrites, IdleShape, StandardSteps DEF Coming, Done, Length
    <2>3. ShapeInv'
      BY <2>1, <2>2 DEF CoverInv, ShapeInv
    <2>4. QueueInv'
      BY <2>1, StandardInOrder, IndexAssumption DEF QueueInv
    <2>5. OwnInv' /\ MergeInvariant'
      BY <1>1, <2>1, <2>2 DEF OwnInv, MergeInvariant
    <2>6. FinalInv' /\ LastInv'
      BY <2>1, <2>2 DEF CoverInv, FinalInv, LastInv
    <2> QED
      BY <2>3, <2>4, <2>5, <2>6 DEF CoverInv
  <1>3. CASE StartUpdate
    <2>1. /\ run'.mode = "Update" /\ run'.queue = Update /\ run'.pending = <<>>
          /\ run'.torn = torn /\ "input" \in DOMAIN run' /\ run'.input \in Inputs
          /\ UNCHANGED <<last, torn>>
          /\ tables' = [tables EXCEPT !["previous"] = tables["final"], !["delta"] = NoTables]
      BY <1>3 DEF StartUpdate, Idle
    <2>2. Coming' = {} /\ run' # Idle /\ Done' = 0
      BY <2>1, EmptyWrites, IdleShape, UpdateOrdered DEF Coming, Done, Length
    <2>3. /\ tables'["final"] = tables["final"] /\ tables'["previous"] = tables["final"]
          /\ tables'["delta"] = NoTables
      BY <2>1 DEF Inv, Providers
    <2>4. ShapeInv'
      <3>1. ASSUME NEW p \in Providers, NEW name \in DOMAIN tables'[p]
            PROVE  Shaped(name, tables'[p][name])
        <4>1. \A n \in DOMAIN tables["final"] : Shaped(n, tables["final"][n])
          BY DEF CoverInv, ShapeInv, Providers
        <4>2. p # "delta"
          BY <2>3, <3>1 DEF NoTables
        <4>3. tables'[p] = tables["final"]
          BY <2>3, <4>2 DEF Providers
        <4> QED
          BY <3>1, <4>1, <4>3
      <3> QED
        BY <2>2, <3>1 DEF ShapeInv
    <2>5. QueueInv'
      BY <2>1, UpdateInOrder, IndexAssumption DEF QueueInv
    <2>6. OwnInv'
      BY <1>1, <2>2 DEF OwnInv
    <2>7. MergeInvariant'
      <3>1. "tables" \notin torn => Covered(tables["final"])
        BY DEF CoverInv, FinalInv
      <3>2. ~(0 >= 1)
        OBVIOUS
      <3> QED
        BY <1>1, <2>1, <2>2, <2>3, <3>1, <3>2 DEF MergeInvariant
    <2>8. FinalInv' /\ LastInv'
      BY <2>1, <2>2, <2>3 DEF CoverInv, FinalInv, LastInv
    <2> QED
      BY <2>4, <2>5, <2>6, <2>7, <2>8 DEF CoverInv
  <1> QED
    BY <1>2, <1>3

\* A run whose queue is empty has done everything.
Certain == {"documents", "text_units", "entities", "relationships"}
LEMMA FinishCover ==
  ASSUME Inv, CoverInv, Finish
  PROVE  CoverInv'
  <1>1. /\ run # Idle /\ run.queue = <<>> /\ run.pending = <<>> /\ End("Ok")
        /\ torn' = IF run.mode = "Index" THEN {} ELSE run.torn \ {"vectors"}
    BY DEF Finish
  <1>2. run.mode \in {"Index", "Update"}
    BY <1>1 DEF CoverInv, QueueInv
  <1>3. Coming = {} /\ Len(run.queue) = 0
    BY <1>1, EmptyWrites DEF Coming
  <1>4. ASSUME NEW T, NEW D,
               Reached({}, T, "final", "documents", D), Reached({}, T, "final", "text_units", D),
               Reached({}, T, "final", "entities", D), Reached({}, T, "final", "relationships", D),
               Claims => Reached({}, T, "final", "covariates", D)
        PROVE  /\ "documents" \in DOMAIN T["final"]
               /\ Column(T["final"]["documents"], "id") = D /\ Covered(T["final"])
    <2> DEFINE F == T["final"]
    <2>1. /\ Certain \subseteq DOMAIN F
          /\ \A name \in Certain : Covers(name, F[name], D)
          /\ Claims => "covariates" \in DOMAIN F /\ Covers("covariates", F["covariates"], D)
      BY <1>4, NothingComing DEF Certain
    <2> HIDE DEF F
    <2>2. Column(F["documents"], "id") = D
      BY <2>1 DEF Covers, CoversDocuments, Certain
    <2>3. ASSUME NEW name \in DOMAIN F PROVE Covers(name, F[name], D)
      <3>1. CASE name \in Certain
        BY <2>1, <3>1
      <3>2. CASE name = "covariates"
        <4>1. CASE Claims
          BY <2>1, <3>2, <4>1
        <4>2. CASE ~Claims
          BY <3>2, <4>2 DEF Covers, CoversClaims
        <4> QED
          BY <4>1, <4>2
      <3>3. CASE name \notin Certain \cup {"covariates"}
        BY <3>3 DEF Covers, Certain
      <3> QED
        BY <3>1, <3>2, <3>3
    <2>4. Covered(F)
      BY <2>1, <2>2, <2>3 DEF Covered, Certain
    <2> QED
      BY <2>1, <2>2, <2>4 DEF F, Certain
  <1>5. CASE run.mode = "Index"
    <2>1. Done = 10 /\ Given = run.input /\ run.out = "final"
      BY <1>3, <1>5 DEF Done, Length, Given, CoverInv, QueueInv
    <2>2. Indexed({}, tables, "final", run.input, 10)
      BY <1>2, <1>3, <2>1 DEF CoverInv, OwnInv
    <2>3. /\ "documents" \in DOMAIN tables["final"]
          /\ Column(tables["final"]["documents"], "id") = run.input /\ Covered(tables["final"])
      BY <1>4, <2>2 DEF Indexed
    <2>4. RunDocs = run.input
      BY <1>5 DEF RunDocs
    <2> QED
      BY <1>1, <2>3, <2>4, EndCover DEF Has, Final
  <1>6. CASE run.mode = "Update"
    <2>1. Done = 18 /\ torn' = run.torn \ {"vectors"} /\ Given = run.input \ OldDocs
      BY <1>1, <1>3, <1>6 DEF Done, Length, Given
    <2>2. /\ Has("previous", "documents")
          /\ "tables" \notin run.torn => Joined({}, tables, AllDocs, 18)
      BY <1>3, <1>6, <2>1 DEF CoverInv, MergeInvariant
    <2>3. RunDocs = AllDocs
      BY <1>6, <2>1, <2>2 DEF RunDocs, AllDocs
    <2>4. "tables" \notin torn' =>
             /\ "documents" \in DOMAIN tables["final"]
             /\ Column(tables["final"]["documents"], "id") = AllDocs
             /\ Covered(tables["final"])
      BY <1>4, <2>1, <2>2 DEF Joined
    <2> QED
      BY <1>1, <2>3, <2>4, EndCover DEF Has, Final
  <1> QED
    BY <1>2, <1>5, <1>6
-----------------------------------------------------------------------------
\* Where a run stands when it is the turn of a workflow: all that its stage
\* promises is in the tables, for nothing is pending.
LEMMA Standing ==
  ASSUME Inv, CoverInv, NEW step, At(step)
  PROVE  /\ run.mode \in {"Index", "Update"} /\ Place[step] \in 1..18
         /\ Done = Place[step] - 1 /\ Coming = {}
         /\ Place[step] > 10 => run.mode = "Update"
         /\ step = "load_input_documents" => run.mode = "Index"
         /\ step = "load_update_documents" => run.mode = "Update"
         /\ run.mode = "Update" => run.out = "delta"
         /\ Indexed({}, tables, run.out, Given, Place[step] - 1)
         /\ run.mode = "Update" =>
                /\ Place[step] >= 2 => Has("previous", "documents")
                /\ "tables" \notin run.torn =>
                       Covered(tables["previous"]) /\ Joined({}, tables, AllDocs, Place[step] - 1)
                /\ "tables" \notin torn => tables["final"] = tables["previous"]
  <1> DEFINE q == run.queue
             L == Length(run.mode)
  <1>1. q \in Seq(Names) /\ q # <<>> /\ Head(q) = step /\ run.pending = <<>>
    BY DEF Inv, At
  <1>2. Len(q) \in Nat \ {0} /\ q[1] = step /\ 1 \in 1..Len(q)
    BY <1>1, HeadTailProperties, EmptySeq
  <1>3. run.mode \in {"Index", "Update"}
    BY <1>1, Pending
  <1>4. /\ L = 18 \/ (L = 10 /\ run.mode = "Index")
        /\ run.mode = "Index" => L = 10
    BY <1>3 DEF Length
  <1>5. /\ Len(q) <= L /\ Place[step] = L - Len(q) + 1
        /\ step = "load_input_documents" => run.mode = "Index"
        /\ step = "load_update_documents" => run.mode = "Update"
    BY <1>2 DEF CoverInv, QueueInv, InOrder
  <1>6. Done = L - Len(q)
    BY DEF Done
  <1> HIDE DEF q, L
  <1>7. Done = Place[step] - 1 /\ Place[step] \in 1..18 /\ (Place[step] > 10 => run.mode = "Update")
    <2> DEFINE k == Place[step]
               n == Len(q)
               d == Done
    <2>1. /\ n \in Nat \ {0} /\ n <= L /\ k = L - n + 1 /\ d = L - n
          /\ L = 18 \/ (L = 10 /\ run.mode = "Index")
      BY <1>2, <1>4, <1>5, <1>6
    <2> HIDE DEF k, n, d
    <2>2. d = k - 1 /\ k \in 1..18 /\ (k > 10 => L = 18)
      BY <2>1
    <2>3. k > 10 => run.mode = "Update"
      BY <1>3, <1>4, <2>2
    <2> QED
      BY <2>2, <2>3 DEF k, d
  <1>8. Coming = {}
    BY <1>1, EmptyWrites DEF Coming
  <1>9. Indexed({}, tables, run.out, Given, Place[step] - 1)
    BY <1>3, <1>7, <1>8 DEF CoverInv, OwnInv
  <1>10. run.mode = "Update" =>
            /\ Done >= 1 => Has("previous", "documents")
            /\ "tables" \notin run.torn =>
                   Covered(tables["previous"]) /\ Joined({}, tables, AllDocs, Place[step] - 1)
            /\ "tables" \notin torn => tables["final"] = tables["previous"]
    BY <1>7, <1>8 DEF CoverInv, MergeInvariant
  <1>11. Place[step] >= 2 => Done >= 1
    BY <1>7
  <1>12. run.mode = "Update" => run.out = "delta"
    BY DEF Inv
  <1> QED
    BY <1>3, <1>5, <1>7, <1>8, <1>9, <1>10, <1>11, <1>12

\* A workflow leaves the queue with its writes.
Turn(step, writes) ==
    /\ At(step) /\ UNCHANGED <<tables, last, torn, runs>>
    /\ run'.mode = run.mode /\ run'.out = run.out /\ run'.torn = run.torn
    /\ run'.input = run.input /\ "input" \in DOMAIN run'
    /\ run'.queue = Tail(run.queue) /\ run'.pending = writes

LEMMA AdvanceTurn ==
  ASSUME Inv, CoverInv, NEW step, At(step), NEW writes, NEW map1, NEW map2,
         \/ Go(Advance(writes))
         \/ Go([Advance(writes) EXCEPT !.entityMap = map1])
         \/ Go([Advance(writes) EXCEPT !.communityMap = map1])
         \/ Go([Advance(writes) EXCEPT !.entityMap = map1, !.communityMap = map2])
  PROVE  Turn(step, writes)
  <1>1. {"mode", "queue", "pending", "out", "torn", "input"} \subseteq DOMAIN run
    BY DEF Inv, CoverInv, QueueInv
  <1>2. UNCHANGED <<tables, last, torn, runs>>
    BY DEF Go
  <1> DEFINE a == Advance(writes)
  <1>3. /\ DOMAIN a = DOMAIN run
        /\ a.mode = run.mode /\ a.out = run.out /\ a.torn = run.torn
        /\ a.input = run.input /\ a.queue = Tail(run.queue) /\ a.pending = writes
    BY <1>1 DEF Advance
  <1> HIDE DEF a
  <1>4. \/ run' = a
        \/ run' = [a EXCEPT !.entityMap = map1]
        \/ run' = [a EXCEPT !.communityMap = map1]
        \/ run' = [a EXCEPT !.entityMap = map1, !.communityMap = map2]
    BY DEF Go, a
  <1>5. /\ DOMAIN run' = DOMAIN run
        /\ run'.mode = run.mode /\ run'.out = run.out /\ run'.torn = run.torn
        /\ run'.input = run.input /\ run'.queue = Tail(run.queue) /\ run'.pending = writes
    BY <1>1, <1>3, <1>4
  <1> QED
    BY <1>1, <1>2, <1>5 DEF Turn

LEMMA TurnCover ==
  ASSUME Inv, CoverInv, NEW step, NEW writes, Turn(step, writes), NEW W, W = TableWrites(writes),
         \A w \in W : Shaped(w.name, w.rows),
         OwnStage(W, tables, run.out, Given, Place[step]),
         run.mode = "Update" => Has("previous", "documents"),
         run.mode = "Update" /\ "tables" \notin run.torn =>
             JoinStage(W, tables, AllDocs, Place[step])
  PROVE  CoverInv'
  <1> DEFINE q == run.queue
             t == run'.queue
             k == Place[step]
  <1>1. /\ At(step) /\ UNCHANGED <<tables, last, torn>>
        /\ run'.mode = run.mode /\ run'.out = run.out /\ run'.torn = run.torn
        /\ run'.input = run.input /\ "input" \in DOMAIN run'
        /\ run'.queue = Tail(run.queue) /\ run'.pending = writes
    BY DEF Turn
  <1>2. /\ run.mode \in {"Index", "Update"} /\ k \in 1..18
        /\ Done = k - 1 /\ Coming = {}
        /\ Indexed({}, tables, run.out, Given, k - 1)
        /\ run.mode = "Update" =>
               /\ "tables" \notin run.torn =>
                      Covered(tables["previous"]) /\ Joined({}, tables, AllDocs, k - 1)
               /\ "tables" \notin torn => tables["final"] = tables["previous"]
    BY <1>1, Standing
  <1>3. /\ Len(q) \in Nat \ {0} /\ Len(t) = Len(q) - 1
        /\ \A i \in 1..Len(t) : t[i] = q[i + 1]
    BY <1>1, HeadTailProperties, EmptySeq DEF Inv, At
  <1>4. run' # Idle
    BY <1>1, <1>2, IdleShape
  <1>5. Coming' = W
    BY <1>1 DEF Coming
  <1>6. Done' = k
    <2>1. Done' = Length(run.mode) - Len(t) /\ Done = Length(run.mode) - Len(q)
          /\ Length(run.mode) \in Int
      BY <1>1 DEF Done, Length
    <2> DEFINE L == Length(run.mode)
               n == Len(q)
               m == Len(t)
               c == Done
               d == Done'
    <2>2. n \in Nat /\ m = n - 1
      BY <1>3
    <2>3. c = k - 1 /\ k \in Nat
      BY <1>2
    <2>4. d = L - m /\ c = L - n /\ L \in Int
      BY <2>1
    <2> HIDE DEF q, t, k, L, n, m, c, d
    <2>5. d = k
      BY <2>2, <2>3, <2>4
    <2> QED
      BY <2>5 DEF d
  <1>7. ShapeInv'
    BY <1>1, <1>5 DEF CoverInv, ShapeInv
  <1>8. QueueInv'
    <2>1. InOrder(q, run.mode) /\ Length(run.mode) \in Int
      BY DEF CoverInv, QueueInv, Length
    <2> HIDE DEF q, t
    <2>2. InOrder(t, run.mode)
      <3>1. Len(t) <= Length(run.mode)
        BY <1>3, <2>1 DEF InOrder
      <3>2. ASSUME NEW i \in 1..Len(t)
            PROVE  /\ Place[t[i]] = Length(run.mode) - Len(t) + i
                   /\ t[i] = "load_input_documents" => run.mode = "Index"
                   /\ t[i] = "load_update_documents" => run.mode = "Update"
        <4>1. i + 1 \in 1..Len(q) /\ t[i] = q[i + 1]
          BY <1>3
        <4>2. /\ Place[q[i + 1]] = Length(run.mode) - Len(q) + (i + 1)
              /\ q[i + 1] = "load_input_documents" => run.mode = "Index"
              /\ q[i + 1] = "load_update_documents" => run.mode = "Update"
          BY <2>1, <4>1 DEF InOrder
        <4>3. Length(run.mode) - Len(q) + (i + 1) = Length(run.mode) - Len(t) + i
          BY <1>3, <2>1
        <4> QED
          BY <4>1, <4>2, <4>3
      <3> QED
        BY <3>1, <3>2 DEF InOrder
    <2> QED
      BY <1>1, <1>2, <2>2 DEF QueueInv, CoverInv, t
  <1>9. Given' = Given /\ AllDocs' = AllDocs
    BY <1>1 DEF Given, AllDocs, OldDocs
  <1> HIDE DEF k, q, t
  <1>10. OwnInv'
    <2>1. Indexed(W, tables, run.out, Given, k)
      <3>1. OwnStage(W, tables, run.out, Given, k) /\ k \in Nat \ {0}
        BY <1>2 DEF k
      <3> QED
        BY <1>2, <3>1, NextStage
    <2>2. Indexed(W, tables', run'.out, Given', Done')
      BY <1>1, <1>6, <1>9, <2>1
    <2> QED
      BY <1>5, <2>2 DEF OwnInv
  <1>11. MergeInvariant'
    <2> SUFFICES ASSUME run.mode = "Update" PROVE MergeInvariant'
      BY <1>1 DEF MergeInvariant
    <2>1. ASSUME "tables" \notin run.torn PROVE Joined(W, tables, AllDocs, k)
      <3>1. k \in Nat \ {0}
        BY <1>2
      <3>2. JoinStage(W, tables, AllDocs, k)
        BY <2>1 DEF k
      <3>3. Joined({}, tables, AllDocs, k - 1)
        BY <1>2, <2>1
      <3> QED
        BY <3>1, <3>2, <3>3, NextStage
    <2>2. "tables" \notin run.torn => Joined(W, tables', AllDocs', Done')
      BY <1>1, <1>6, <1>9, <2>1
    <2>3. Has("previous", "documents")'
      BY <1>1 DEF Has
    <2> QED
      BY <1>1, <1>2, <1>5, <2>2, <2>3 DEF MergeInvariant
  <1>12. FinalInv' /\ LastInv'
    BY <1>1, <1>4 DEF CoverInv, FinalInv, LastInv
  <1> QED
    BY <1>7, <1>8, <1>10, <1>11, <1>12 DEF CoverInv

\* A standard workflow writes to the run's own tables, a merging one to the
\* final ones.
LEMMA OwnCover ==
  ASSUME Inv, CoverInv, NEW step, NEW writes, Turn(step, writes), NEW W, W = TableWrites(writes),
         Place[step] <= 10, step # "load_update_documents",
         \A w \in W : w.at = run.out /\ Shaped(w.name, w.rows),
         OwnStage(W, tables, run.out, Given, Place[step])
  PROVE  CoverInv'
  <1>1. At(step)
    BY DEF Turn
  <1>2. /\ Place[step] \in 1..18
        /\ run.mode = "Update" => run.out = "delta"
        /\ step = "load_input_documents" => run.mode = "Index"
    BY <1>1, Standing
  <1>3. run.mode = "Update" => JoinStage(W, tables, AllDocs, Place[step])
    <2> SUFFICES ASSUME run.mode = "Update" PROVE JoinStage(W, tables, AllDocs, Place[step])
      OBVIOUS
    <2>1. Fits(W, "final", AllDocs)
      <3>1. \A w \in W : w.at = "delta"
        BY <1>2
      <3>2. "delta" # "final"
        OBVIOUS
      <3> QED
        BY <3>1, <3>2 DEF Fits
    <2>2. Place[step] \notin {11, 12, 13, 14}
      BY <1>2
    <2> QED
      BY <2>1, <2>2, Zenon DEF JoinStage
  <1>4. run.mode = "Update" => Has("previous", "documents")
    <2>1. step \in Names
      BY <1>1, HeadTailProperties DEF At, Inv
    <2>2. Place[step] >= 2 \/ step \in {"load_input_documents", "load_update_documents"}
      BY <2>1 DEF Place, Names, IndexSteps, MergeSteps, Merge
    <2> QED
      BY <1>1, <1>2, <2>2, Standing
  <1> QED
    BY <1>3, <1>4, TurnCover

LEMMA JoinCover ==
  ASSUME Inv, CoverInv, NEW step, NEW writes, Turn(step, writes), NEW W, W = TableWrites(writes),
         Place[step] > 10,
         \A w \in W : w.at = "final" /\ Shaped(w.name, w.rows),
         "tables" \notin run.torn => JoinStage(W, tables, AllDocs, Place[step])
  PROVE  CoverInv'
  <1>1. At(step)
    BY DEF Turn
  <1>2. Place[step] \in 1..18 /\ run.mode = "Update" /\ run.out = "delta"
        /\ Has("previous", "documents")
    BY <1>1, Standing
  <1>3. OwnStage(W, tables, run.out, Given, Place[step])
    BY <1>2 DEF OwnStage, Fits
  <1> QED
    BY <1>2, <1>3, TurnCover
-----------------------------------------------------------------------------
\* One table is written, or two.
LEMMA OneWrite ==
  ASSUME NEW p, NEW name, NEW rows, NEW D, NEW T, Covers(name, rows, D), Shaped(name, rows),
         NEW W, W = {TableWrite(p, name, rows)}
  PROVE  /\ Fits(W, p, D) /\ Reached(W, T, p, name, D)
         /\ \A w \in W : w.at = p /\ Shaped(w.name, w.rows)
  <1> DEFINE w == TableWrite(p, name, rows)
  <1>1. w.at = p /\ w.name = name /\ w.rows = rows
    BY DEF TableWrite
  <1>2. W = {w}
    OBVIOUS
  <1> HIDE DEF w
  <1>3. Fits(W, p, D)
    BY <1>1, <1>2 DEF Fits
  <1>4. Reached(W, T, p, w.name, D)
    BY <1>1, <1>2, <1>3, ReachedByWrite
  <1> QED
    BY <1>1, <1>2, <1>3, <1>4

LEMMA TwoWrites ==
  ASSUME NEW p, NEW n1, NEW r1, NEW n2, NEW r2, NEW D, NEW T,
         Covers(n1, r1, D), Shaped(n1, r1), Covers(n2, r2, D), Shaped(n2, r2),
         NEW W, W = {TableWrite(p, n1, r1), TableWrite(p, n2, r2)}
  PROVE  /\ Fits(W, p, D) /\ Reached(W, T, p, n1, D)
         /\ \A w \in W : w.at = p /\ Shaped(w.name, w.rows)
  <1> DEFINE v == TableWrite(p, n1, r1)
             w == TableWrite(p, n2, r2)
  <1>1. /\ v.at = p /\ v.name = n1 /\ v.rows = r1
        /\ w.at = p /\ w.name = n2 /\ w.rows = r2
    BY DEF TableWrite
  <1>2. W = {v, w}
    OBVIOUS
  <1> HIDE DEF v, w
  <1>3. Fits(W, p, D)
    BY <1>1, <1>2 DEF Fits
  <1>4. Reached(W, T, p, v.name, D)
    BY <1>1, <1>2, <1>3, ReachedByWrite
  <1> QED
    BY <1>1, <1>2, <1>3, <1>4

\* The other tables say nothing about documents.
LEMMA OtherTable ==
  ASSUME NEW name, name \notin {"documents", "text_units", "entities", "relationships", "covariates"},
         NEW rows, NEW D
  PROVE  Covers(name, rows, D) /\ Shaped(name, rows)
  BY DEF Covers, Shaped

LEMMA ColumnIs ==
  ASSUME NEW rows, NEW field, NEW X, \A row \in rows : row[field] \in X,
         \A x \in X : \E row \in rows : row[field] = x
  PROVE  Column(rows, field) = X
  BY DEF Column

\* The standard workflows: what each writes covers the documents given, when
\* what it reads does.
LEMMA LoadCover == ASSUME Inv, CoverInv, load_input_documents PROVE CoverInv'
  <1>1. At("load_input_documents") /\ Place["load_input_documents"] = 1
    BY DEF load_input_documents, Place
  <1>2. Given = run.input
    BY <1>1, Standing DEF Given
  <1>3. CASE Abort
    BY <1>3, FailCover DEF Abort
  <1>4. CASE Go(Advance(Writes("documents", DocumentRows(run.input))))
    <2> DEFINE rows == DocumentRows(run.input)
               W == TableWrites(Writes("documents", rows))
    <2>1. Covers("documents", rows, Given) /\ Shaped("documents", rows)
      <3>1. Column(rows, "id") = run.input
        <4>1. \A x \in run.input : \E row \in rows : row["id"] = x
          <5> SUFFICES ASSUME NEW x \in run.input PROVE \E row \in rows : row["id"] = x
            OBVIOUS
          <5>1. [id |-> x, units |-> {}] \in rows
            BY DEF DocumentRows
          <5> QED
            BY <5>1
        <4>2. \A row \in rows : row["id"] \in run.input
          BY DEF DocumentRows
        <4> DEFINE input == run.input
        <4>3. /\ \A x \in input : \E row \in rows : row["id"] = x
              /\ \A row \in rows : row["id"] \in input
          BY <4>1, <4>2
        <4> HIDE DEF rows, input
        <4>4. Column(rows, "id") = input
          BY <4>3, ColumnIs
        <4> QED
          BY <4>4 DEF input
      <3> QED
        BY <1>2, <3>1 DEF Covers, CoversDocuments, Shaped
    <2> HIDE DEF rows
    <2>2. W = {TableWrite(run.out, "documents", rows)}
      BY ListedWrites DEF Writes
    <2> HIDE DEF W
    <2>3. /\ Fits(W, run.out, Given) /\ Reached(W, tables, run.out, "documents", Given)
          /\ \A w \in W : w.at = run.out /\ Shaped(w.name, w.rows)
      BY <2>1, <2>2, OneWrite
    <2>4. OwnStage(W, tables, run.out, Given, 1)
      BY <2>3 DEF OwnStage
    <2>5. Turn("load_input_documents", Writes("documents", rows))
      BY <1>1, <1>4, AdvanceTurn DEF rows
    <2> QED
      BY <1>1, <2>3, <2>4, <2>5, OwnCover DEF W
  <1> QED
    BY <1>3, <1>4 DEF load_input_documents

LEMMA BaseUnitsCover == ASSUME Inv, CoverInv, create_base_text_units PROVE CoverInv'
  <1> DEFINE units == {[id |-> d, doc |-> d, entities |-> {}, relationships |-> {}, covariates |-> {}] :
                          d \in Column(Out("documents"), "id") \ Blank}
             writes == IF units = {} THEN <<>> ELSE Writes("text_units", units)
             W == TableWrites(writes)
  <1>1. At("create_base_text_units") /\ Place["create_base_text_units"] = 2
    BY DEF create_base_text_units, Place
  <1>2. Indexed({}, tables, run.out, Given, 1)
    BY <1>1, Standing
  <1>3. Column(Out("documents"), "id") = Given
    BY <1>2, NothingComing DEF Indexed, Covers, CoversDocuments, Out
  <1>4. CASE Abort
    BY <1>4, FailCover DEF Abort
  <1>5. CASE Go(Advance(writes))
    <2>1. /\ Column(units, "id") = Given \ Blank
          /\ \A u \in units : "id" \in DOMAIN u /\ u.id \in Docs
      <3> DEFINE X == Given \ Blank
                 row(d) == [id |-> d, doc |-> d, entities |-> {}, relationships |-> {},
                            covariates |-> {}]
      <3>1. units = {row(d) : d \in X}
        BY <1>3
      <3>2. \A d : row(d)["id"] = d /\ "id" \in DOMAIN row(d)
        OBVIOUS
      <3>4. X \subseteq Docs
        BY DEF CoverInv, QueueInv, Given
      <3> HIDE DEF units, X, row
      <3>3. Column(units, "id") = X
        <4>1. \A u \in units : u["id"] \in X
          BY <3>1, <3>2
        <4>2. \A d \in X : \E u \in units : u["id"] = d
          BY <3>1, <3>2
        <4> QED
          BY <4>1, <4>2, ColumnIs
      <3> QED
        BY <3>1, <3>2, <3>3, <3>4 DEF X
    <2>2. Turn("create_base_text_units", writes)
      <3> HIDE DEF writes
      <3> QED
        BY <1>1, <1>5, AdvanceTurn
    <2> HIDE DEF units
    <2>3. CASE units = {}
      <3>1. Given \ Blank = {}
        BY <2>1, <2>3 DEF Column
      <3>2. \A rows : Covers("text_units", rows, Given)
        BY <3>1 DEF Covers, CoversUnits
      <3>3. W = {}
        BY <2>3, EmptyWrites
      <3> HIDE DEF W
      <3>4. OwnStage(W, tables, run.out, Given, 2)
        BY <3>2, <3>3 DEF OwnStage, Fits, Sound
      <3> QED
        BY <1>1, <2>2, <3>3, <3>4, OwnCover DEF W
    <2>4. CASE units # {}
      <3>1. Covers("text_units", units, Given) /\ Shaped("text_units", units)
        BY <2>1 DEF Covers, CoversUnits, Shaped
      <3>2. W = {TableWrite(run.out, "text_units", units)}
        BY <2>4, ListedWrites DEF Writes
      <3> HIDE DEF W
      <3>3. /\ Fits(W, run.out, Given) /\ Reached(W, tables, run.out, "text_units", Given)
            /\ \A w \in W : w.at = run.out /\ Shaped(w.name, w.rows)
        BY <3>1, <3>2, OneWrite
      <3>4. OwnStage(W, tables, run.out, Given, 2)
        BY <3>3 DEF OwnStage, Reached
      <3> QED
        BY <1>1, <2>2, <3>3, <3>4, OwnCover DEF W
    <2> QED
      BY <2>3, <2>4
  <1> QED
    BY <1>4, <1>5 DEF create_base_text_units

LEMMA DocumentsCover == ASSUME Inv, CoverInv, create_final_documents PROVE CoverInv'
  <1> DEFINE UnitsOf(d) == {u.id : u \in {u \in Out("text_units") : u.doc = d}}
             rows == {[id |-> d.id, units |-> UnitsOf(d.id)] : d \in Out("documents")}
             W == TableWrites(Writes("documents", rows))
  <1>1. At("create_final_documents") /\ Place["create_final_documents"] = 3
    BY DEF create_final_documents, Place
  <1>2. Indexed({}, tables, run.out, Given, 2)
    BY <1>1, Standing
  <1>3. CASE Abort
    BY <1>3, FailCover DEF Abort
  <1>4. CASE Reads(run.out, {"documents", "text_units"}) /\ Go(Advance(Writes("documents", rows)))
    <2>1. Column(Out("documents"), "id") = Given
      BY <1>2, NothingComing DEF Indexed, Covers, CoversDocuments, Out
    <2>2. Column(rows, "id") = Column(Out("documents"), "id")
      <3> DEFINE row(d) == [id |-> d.id, units |-> UnitsOf(d.id)]
                 X == Out("documents")
      <3>1. rows = {row(d) : d \in X}
        OBVIOUS
      <3>2. \A d : row(d)["id"] = d["id"]
        OBVIOUS
      <3> HIDE DEF rows, row, X
      <3>3. Column(rows, "id") = Column(X, "id")
        BY <3>1, <3>2 DEF Column
      <3> QED
        BY <3>3 DEF X
    <2>3. Covers("documents", rows, Given) /\ Shaped("documents", rows)
      BY <2>1, <2>2 DEF Covers, CoversDocuments, Shaped
    <2>4. Reached({}, tables, run.out, "text_units", Given)
      BY <1>2, <1>4, NothingComing DEF Indexed, Reads, Has
    <2> HIDE DEF rows
    <2>5. W = {TableWrite(run.out, "documents", rows)}
      BY ListedWrites DEF Writes
    <2> HIDE DEF W
    <2>6. Fits(W, run.out, Given) /\ \A w \in W : w.at = run.out /\ Shaped(w.name, w.rows)
      BY <2>3, <2>5, OneWrite
    <2>7. OwnStage(W, tables, run.out, Given, 3)
      BY <2>4, <2>6, SoundMoves DEF OwnStage
    <2>8. Turn("create_final_documents", Writes("documents", rows))
      BY <1>1, <1>4, AdvanceTurn
    <2> QED
      BY <1>1, <2>6, <2>7, <2>8, OwnCover DEF W
  <1> QED
    BY <1>3, <1>4 DEF create_final_documents

LEMMA OwnTables ==
  ASSUME Inv, CoverInv, NEW step, At(step), NEW name, Has(run.out, name)
  PROVE  Shaped(name, Out(name))
  <1>1. run.out = "final" \/ run.out = "delta"
    BY Standing DEF CoverInv, QueueInv
  <1>2. run.out \in Providers
    BY <1>1 DEF Providers
  <1> QED
    BY <1>2 DEF CoverInv, ShapeInv, Has, Out

LEMMA GraphCover == ASSUME Inv, CoverInv, extract_graph PROVE CoverInv'
  <1> DEFINE units == Column(Out("text_units"), "id")
             mentions == UNION {Mentions[u] : u \in units}
             pairs == FilterOrphans(UNION {Links[u] : u \in units}, TitlesIn(mentions))
             entity(m) == [id |-> None, title |-> m[1], type |-> m[2],
                           units |-> {u \in units : m \in Mentions[u]}]
             relationship(p) == [id |-> None, source |-> p[1], target |-> p[2],
                                 units |-> {u \in units : p \in Links[u]}]
             entities == {entity(m) : m \in mentions}
             relationships == {relationship(p) : p \in pairs}
             writes == Writes("entities", entities) \o Writes("relationships", relationships)
             W == TableWrites(writes)
  <1>1. At("extract_graph") /\ Place["extract_graph"] = 4
    BY DEF extract_graph, Place
  <1>2. Indexed({}, tables, run.out, Given, 3)
    BY <1>1, Standing
  <1>3. CASE Abort
    BY <1>3, FailCover DEF Abort
  <1>4. CASE Reads(run.out, {"text_units"}) /\ Go(Advance(writes))
    <2>1. Given \ Blank \subseteq units
      BY <1>2, NothingComing DEF Indexed, Covers, CoversUnits, Out
    <2>2. units \subseteq Docs
      <3>1. Shaped("text_units", Out("text_units"))
        BY <1>1, <1>4, OwnTables DEF Reads
      <3> QED
        BY <3>1 DEF Shaped, Column
    <2>3. Turn("extract_graph", writes)
      <3> HIDE DEF writes
      <3> QED
        BY <1>1, <1>4, AdvanceTurn
    <2> HIDE DEF units
    <2>4. /\ \A m : entity(m).title = m[1] /\ {"title", "units"} \subseteq DOMAIN entity(m)
          /\ \A m : entity(m).units = {u \in units : m \in Mentions[u]}
          /\ \A p : /\ relationship(p).source = p[1] /\ relationship(p).target = p[2]
                    /\ relationship(p).units = {u \in units : p \in Links[u]}
                    /\ {"source", "target", "units"} \subseteq DOMAIN relationship(p)
      OBVIOUS
    <2> HIDE DEF entity, relationship
    <2>5. \A d \in units : TitlesIn(Mentions[d]) \subseteq TitlesIn(mentions)
      BY DEF TitlesIn
    <2>6. CoversMentions(entities, Given)
      <3> SUFFICES ASSUME NEW d \in Given \ Blank, NEW t \in TitlesIn(Mentions[d])
                   PROVE  /\ t \in Column(entities, "title")
                          /\ OneType(t) => \A e \in entities : e.title = t => d \in e.units
        BY DEF CoversMentions
      <3>1. d \in units
        BY <2>1
      <3>2. PICK m \in Mentions[d] : m[1] = t
        BY DEF TitlesIn
      <3>3. m \in mentions
        BY <3>1, <3>2
      <3>4. t \in Column(entities, "title")
        BY <2>4, <3>2, <3>3 DEF Column
      <3>5. ASSUME OneType(t), NEW n \in mentions, n[1] = t PROVE n = m
        <4>1. n \in UNION {Mentions[c] : c \in Docs} /\ m \in UNION {Mentions[c] : c \in Docs}
          BY <2>2, <3>1, <3>2
        <4> QED
          BY <3>2, <3>5, <4>1 DEF OneType
      <3>6. ASSUME OneType(t), NEW n \in mentions, entity(n).title = t PROVE d \in entity(n).units
        <4>1. n = m
          BY <2>4, <3>5, <3>6
        <4> QED
          BY <2>4, <3>1, <3>2, <4>1
      <3> QED
        BY <3>4, <3>6
    <2>7. CoversLinks(relationships, Given)
      <3> SUFFICES ASSUME NEW d \in Given \ Blank, NEW p \in KnownPairs(d)
                   PROVE  \E q \in relationships : q.source = p[1] /\ q.target = p[2] /\ d \in q.units
        BY DEF CoversLinks
      <3>1. d \in units
        BY <2>1
      <3>2. /\ p \in Links[d]
            /\ p[1] \in TitlesIn(Mentions[d]) /\ p[2] \in TitlesIn(Mentions[d])
        BY DEF KnownPairs, FilterOrphans
      <3>3. p \in pairs
        BY <2>5, <3>1, <3>2 DEF FilterOrphans
      <3> QED
        BY <2>4, <3>1, <3>2, <3>3
    <2>8. /\ \A e \in entities : {"title", "units"} \subseteq DOMAIN e
          /\ \A q \in relationships : {"source", "target", "units"} \subseteq DOMAIN q
      BY <2>4
    <2> HIDE DEF entities, relationships
    <2>9. /\ Covers("entities", entities, Given) /\ Shaped("entities", entities)
          /\ Covers("relationships", relationships, Given) /\ Shaped("relationships", relationships)
      BY <2>6, <2>7, <2>8 DEF Covers, Shaped
    <2>10. W = {TableWrite(run.out, "entities", entities),
                TableWrite(run.out, "relationships", relationships)}
      BY ListedWrites DEF Writes
    <2> HIDE DEF W
    <2>11. /\ Fits(W, run.out, Given) /\ Reached(W, tables, run.out, "entities", Given)
           /\ \A w \in W : w.at = run.out /\ Shaped(w.name, w.rows)
      BY <2>9, <2>10, TwoWrites
    <2>12. OwnStage(W, tables, run.out, Given, 4)
      <3>1. W = {TableWrite(run.out, "relationships", relationships),
                 TableWrite(run.out, "entities", entities)}
        BY <2>10
      <3>2. Reached(W, tables, run.out, "relationships", Given)
        BY <2>9, <3>1, TwoWrites
      <3> QED
        BY <2>11, <3>2 DEF OwnStage
    <2> QED
      BY <1>1, <2>3, <2>11, <2>12, OwnCover DEF W
  <1> QED
    BY <1>3, <1>4, Zenon DEF extract_graph

\* Rows of which the first of each title is kept: a title of one type has one row.
LEMMA FirstRowsAre ==
  ASSUME NEW rows, NEW kept \in FirstRows(rows)
  PROVE  /\ kept \subseteq rows /\ Unique(kept, "title")
         /\ Column(kept, "title") = Column(rows, "title")
  BY DEF FirstRows

LEMMA FinalizeCover == ASSUME Inv, CoverInv, finalize_graph PROVE CoverInv'
  <1>1. At("finalize_graph") /\ Place["finalize_graph"] = 5
    BY DEF finalize_graph, Place
  <1>2. Indexed({}, tables, run.out, Given, 4)
    BY <1>1, Standing
  <1>3. CASE Abort
    BY <1>3, FailCover DEF Abort
  <1> DEFINE entity(e) == [e EXCEPT !.id = <<runs, e.title>>]
             relationship(q) == [q EXCEPT !.id = <<runs, q.source, q.target>>]
             old == Out("entities")
             pairs == Out("relationships")
             entities(kept) == {entity(e) : e \in kept}
             relationships == {relationship(q) : q \in pairs}
             writes(kept) == Writes("entities", entities(kept)) \o Writes("relationships", relationships)
  <1>4. ASSUME Reads(run.out, {"entities", "relationships"}),
               NEW kept \in FirstRows(old), Go(Advance(writes(kept)))
        PROVE  CoverInv'
    <2> DEFINE E == entities(kept)
               W == TableWrites(Writes("entities", E) \o Writes("relationships", relationships))
    <2>1. /\ \A e \in old : {"title", "units"} \subseteq DOMAIN e
          /\ \A q \in pairs : {"source", "target", "units"} \subseteq DOMAIN q
      BY <1>1, <1>4, OwnTables DEF Reads, Shaped
    <2>2. CoversMentions(old, Given) /\ CoversLinks(pairs, Given)
      BY <1>2, NothingComing DEF Indexed, Covers, Out
    <2>3. /\ \A e \in old : /\ {"title", "units"} \subseteq DOMAIN entity(e)
                            /\ entity(e).title = e.title /\ entity(e).units = e.units
          /\ \A q \in pairs : /\ {"source", "target", "units"} \subseteq DOMAIN relationship(q)
                              /\ relationship(q).source = q.source /\ relationship(q).target = q.target
                              /\ relationship(q).units = q.units
      BY <2>1
    <2>4. Turn("finalize_graph", writes(kept))
      <3> HIDE DEF writes
      <3> QED
        BY <1>1, <1>4, AdvanceTurn
    <2>5. kept \subseteq old /\ Column(kept, "title") = Column(old, "title")
      BY FirstRowsAre
    <2> HIDE DEF entity, relationship, old, pairs
    <2>6. CoversMentions(E, Given)
      <3>1. Column(E, "title") = Column(kept, "title")
        BY <2>3, <2>5 DEF Column
      <3>2. \A e \in E : \E x \in old : e.title = x.title /\ e.units = x.units
        BY <2>3, <2>5
      <3> HIDE DEF entities
      <3> QED
        BY <2>2, <2>5, <3>1, <3>2 DEF CoversMentions
    <2>7. CoversLinks(relationships, Given)
      BY <2>2, <2>3 DEF CoversLinks
    <2>8. /\ \A e \in E : {"title", "units"} \subseteq DOMAIN e
          /\ \A q \in relationships : {"source", "target", "units"} \subseteq DOMAIN q
      BY <2>3, <2>5
    <2>9. writes(kept) = Writes("entities", E) \o Writes("relationships", relationships)
      OBVIOUS
    <2> HIDE DEF E, relationships, writes
    <2>10. /\ Covers("entities", E, Given) /\ Shaped("entities", E)
           /\ Covers("relationships", relationships, Given) /\ Shaped("relationships", relationships)
      BY <2>6, <2>7, <2>8 DEF Covers, Shaped
    <2>11. W = {TableWrite(run.out, "entities", E),
                TableWrite(run.out, "relationships", relationships)}
      BY ListedWrites DEF Writes
    <2>12. W = TableWrites(writes(kept))
      BY <2>9
    <2> HIDE DEF W
    <2>13. /\ Fits(W, run.out, Given) /\ Reached(W, tables, run.out, "entities", Given)
           /\ \A w \in W : w.at = run.out /\ Shaped(w.name, w.rows)
      BY <2>10, <2>11, TwoWrites
    <2>14. OwnStage(W, tables, run.out, Given, 5)
      BY <2>13 DEF OwnStage
    <2> QED
      BY <1>1, <2>4, <2>12, <2>13, <2>14, OwnCover
  <1> QED
    BY <1>3, <1>4, Zenon DEF finalize_graph

\* A stage that asks for nothing new: no table is written, or one that says
\* nothing about documents.
LEMMA PassCover ==
  ASSUME Inv, CoverInv, NEW step, NEW writes, Turn(step, writes),
         Place[step] \in {7, 9, 10} \/ (Place[step] = 6 /\ ~Claims),
         \/ TableWrites(writes) = {}
         \/ \E name, rows : /\ name \notin {"documents", "text_units", "entities", "relationships", "covariates"}
                            /\ writes = Writes(name, rows)
  PROVE  CoverInv'
  <1> DEFINE W == TableWrites(writes)
  <1>1. Fits(W, run.out, Given) /\ \A w \in W : w.at = run.out /\ Shaped(w.name, w.rows)
    <2>1. CASE W = {}
      BY <2>1 DEF Fits
    <2>2. ASSUME NEW name, NEW rows, writes = Writes(name, rows),
                 name \notin {"documents", "text_units", "entities", "relationships", "covariates"}
          PROVE  <1>1!:
      <3>1. W = {TableWrite(run.out, name, rows)}
        BY <2>2, ListedWrites DEF Writes
      <3>2. Covers(name, rows, Given) /\ Shaped(name, rows)
        BY <2>2, OtherTable
      <3> HIDE DEF W
      <3> QED
        BY <3>1, <3>2, OneWrite
    <2> QED
      BY <2>1, <2>2
  <1> HIDE DEF W
  <1>2. OwnStage(W, tables, run.out, Given, Place[step])
    BY <1>1 DEF OwnStage
  <1>3. step # "load_update_documents" /\ Place[step] <= 10
    BY DEF Place
  <1> QED
    BY <1>1, <1>2, <1>3, OwnCover DEF W

LEMMA ClaimsCover == ASSUME Inv, CoverInv, extract_covariates PROVE CoverInv'
  <1> DEFINE row(u) == [id |-> <<runs, u>>, unit |-> u]
             units == Column(Out("text_units"), "id")
             rows == {row(u) : u \in units}
             W == TableWrites(Writes("covariates", rows))
  <1>1. At("extract_covariates") /\ Place["extract_covariates"] = 6
    BY DEF extract_covariates, Place
  <1>2. Indexed({}, tables, run.out, Given, 5)
    BY <1>1, Standing
  <1>3. CASE Abort
    BY <1>3, FailCover DEF Abort
  <1>4. CASE ~Claims /\ Go(Advance(<<>>))
    <2>1. Turn("extract_covariates", <<>>)
      BY <1>1, <1>4, AdvanceTurn
    <2> QED
      BY <1>1, <1>4, <2>1, EmptyWrites, PassCover
  <1>5. CASE Go(Advance(Writes("covariates", rows)))
    <2>1. Given \ Blank \subseteq units
      BY <1>2, NothingComing DEF Indexed, Covers, CoversUnits, Out
    <2>2. \A u : row(u)["unit"] = u
      OBVIOUS
    <2> HIDE DEF row, units
    <2>3. Given \ Blank \subseteq Column(rows, "unit")
      BY <2>1, <2>2 DEF Column
    <2> HIDE DEF rows
    <2>4. Covers("covariates", rows, Given) /\ Shaped("covariates", rows)
      BY <2>3 DEF Covers, CoversClaims, Shaped
    <2>5. W = {TableWrite(run.out, "covariates", rows)}
      BY ListedWrites DEF Writes
    <2> HIDE DEF W
    <2>6. /\ Fits(W, run.out, Given) /\ Reached(W, tables, run.out, "covariates", Given)
          /\ \A w \in W : w.at = run.out /\ Shaped(w.name, w.rows)
      BY <2>4, <2>5, OneWrite
    <2>7. OwnStage(W, tables, run.out, Given, 6)
      BY <2>6 DEF OwnStage
    <2>8. Turn("extract_covariates", Writes("covariates", rows))
      BY <1>1, <1>5, AdvanceTurn
    <2> QED
      BY <1>1, <2>6, <2>7, <2>8, OwnCover DEF W
  <1> QED
    BY <1>3, <1>4, <1>5, Zenon DEF extract_covariates

LEMMA FinalUnitsCover == ASSUME Inv, CoverInv, create_final_text_units PROVE CoverInv'
  <1> DEFINE claims == IF Claims /\ Has(run.out, "covariates") THEN Out("covariates") ELSE {}
             row(u) == [u EXCEPT !.entities = RefsTo(Out("entities"), u.id),
                                 !.relationships = RefsTo(Out("relationships"), u.id),
                                 !.covariates = {c.id : c \in {c \in claims : c.unit = u.id}}]
             old == Out("text_units")
             rows == {row(u) : u \in old}
             W == TableWrites(Writes("text_units", rows))
  <1>1. At("create_final_text_units") /\ Place["create_final_text_units"] = 8
    BY DEF create_final_text_units, Place
  <1>2. Indexed({}, tables, run.out, Given, 7)
    BY <1>1, Standing
  <1>3. CASE Abort
    BY <1>3, FailCover DEF Abort
  <1>4. CASE Reads(run.out, {"text_units", "entities", "relationships"})
               /\ Go(Advance(Writes("text_units", rows)))
    <2>1. \A u \in old : "id" \in DOMAIN u /\ u.id \in Docs
      BY <1>1, <1>4, OwnTables DEF Reads, Shaped
    <2>2. Given \ Blank \subseteq Column(old, "id")
      BY <1>2, NothingComing DEF Indexed, Covers, CoversUnits, Out
    <2> HIDE DEF claims
    <2>3. \A u \in old : "id" \in DOMAIN row(u) /\ row(u)["id"] = u["id"]
      BY <2>1
    <2> HIDE DEF row, old
    <2>4. /\ Column(rows, "id") = Column(old, "id")
          /\ \A u \in rows : "id" \in DOMAIN u /\ u.id \in Docs
      BY <2>1, <2>3 DEF Column
    <2>5. Turn("create_final_text_units", Writes("text_units", rows))
      <3> HIDE DEF rows
      <3> QED
        BY <1>1, <1>4, AdvanceTurn
    <2> HIDE DEF rows
    <2>6. Covers("text_units", rows, Given) /\ Shaped("text_units", rows)
      BY <2>2, <2>4 DEF Covers, CoversUnits, Shaped
    <2>7. W = {TableWrite(run.out, "text_units", rows)}
      BY ListedWrites DEF Writes
    <2> HIDE DEF W
    <2>8. Fits(W, run.out, Given) /\ \A w \in W : w.at = run.out /\ Shaped(w.name, w.rows)
      BY <2>6, <2>7, OneWrite
    <2>9. OwnStage(W, tables, run.out, Given, 8)
      BY <2>8 DEF OwnStage
    <2> QED
      BY <1>1, <2>5, <2>8, <2>9, OwnCover DEF W
  <1> QED
    BY <1>3, <1>4, Zenon DEF create_final_text_units

LEMMA OwnWorkflowsCover ==
  ASSUME Inv, CoverInv,
         \/ load_input_documents \/ create_base_text_units \/ create_final_documents
         \/ extract_graph \/ finalize_graph \/ extract_covariates \/ create_communities
         \/ create_final_text_units \/ create_community_reports \/ generate_text_embeddings
  PROVE  CoverInv'
  <1>1. Abort => CoverInv'
    BY FailCover DEF Abort
  <1>2. CASE create_communities
    <2>1. At("create_communities") /\ Place["create_communities"] = 7
      BY <1>2 DEF create_communities, Place
    <2> DEFINE rows == CommunityRows(Out("entities"), Out("relationships"))
    <2>2. Abort \/ Go(Advance(Writes("communities", rows)))
      BY <1>2 DEF create_communities
    <2> HIDE DEF rows
    <2>3. ASSUME Go(Advance(Writes("communities", rows))) PROVE CoverInv'
      <3>1. Turn("create_communities", Writes("communities", rows))
        BY <2>1, <2>3, AdvanceTurn
      <3> QED
        BY <2>1, <3>1, PassCover
    <2> QED
      BY <1>1, <2>2, <2>3
  <1>3. CASE create_community_reports
    <2>1. At("create_community_reports") /\ Place["create_community_reports"] = 9
      BY <1>3 DEF create_community_reports, Place
    <2>2. Abort \/ \E rows : Go(Advance(Writes("community_reports", rows)))
      BY <1>3 DEF create_community_reports
    <2>3. ASSUME NEW rows, Go(Advance(Writes("community_reports", rows))) PROVE CoverInv'
      <3>1. Turn("create_community_reports", Writes("community_reports", rows))
        BY <2>1, <2>3, AdvanceTurn
      <3> QED
        BY <2>1, <3>1, PassCover
    <2> QED
      BY <1>1, <2>2, <2>3
  <1>4. CASE generate_text_embeddings
    <2>1. /\ At("generate_text_embeddings") /\ Place["generate_text_embeddings"] = 10
          /\ Go(Advance(Embeddings(run.out)))
      BY <1>4 DEF generate_text_embeddings, run_text_embeddings, Embeddings, Place
    <2>2. TableWrites(Embeddings(run.out)) = {}
      BY EmbedPlan, NoTableWrites DEF Embeddings
    <2>3. Turn("generate_text_embeddings", Embeddings(run.out))
      BY <2>1, AdvanceTurn
    <2> QED
      BY <2>1, <2>2, <2>3, PassCover
  <1> QED
    BY <1>2, <1>3, <1>4, LoadCover, BaseUnitsCover, DocumentsCover, GraphCover, FinalizeCover,
       ClaimsCover, FinalUnitsCover
-----------------------------------------------------------------------------
\* The merge.  Old rows cover the documents of the last index, new ones those
\* of the delta, and both together all of them.
LEMMA UnionCovers ==
  ASSUME NEW name, name \notin {"entities", "relationships"}, NEW old, NEW new, NEW A, NEW B,
         Covers(name, old, A), Covers(name, new, B)
  PROVE  Covers(name, old \cup new, A \cup B)
  <1>1. name = "documents" => CoversDocuments(old \cup new, A \cup B)
    BY DEF Covers, CoversDocuments, Column
  <1>2. name = "text_units" => CoversUnits(old \cup new, A \cup B)
    BY DEF Covers, CoversUnits, Column
  <1>3. name = "covariates" => CoversClaims(old \cup new, A \cup B)
    BY DEF Covers, CoversClaims, Column
  <1> QED
    BY <1>1, <1>2, <1>3 DEF Covers

LEMMA FirstRow == ASSUME NEW rows, rows # {}, NEW old PROVE First(rows, old) \in rows
  BY DEF First

LEMMA MergedEntities ==
  ASSUME NEW old, NEW new, NEW A, NEW B, CoversMentions(old, A), CoversMentions(new, B),
         Shaped("entities", old), Shaped("entities", new)
  PROVE  /\ CoversMentions(MergeEntities(old, new), A \cup B)
         /\ Shaped("entities", MergeEntities(old, new))
  <1> DEFINE all == old \cup new
             Rows(t) == {e \in all : e.title = t}
             row(t) == [First(Rows(t), old) EXCEPT !.units = UNION Column(Rows(t), "units")]
             titles == Column(all, "title")
             merged == {row(t) : t \in titles}
  <1>1. MergeEntities(old, new) = merged
    BY DEF MergeEntities
  <1>2. \A e \in all : {"title", "units"} \subseteq DOMAIN e
    BY DEF Shaped
  <1>3. ASSUME NEW t \in titles
        PROVE  /\ {"title", "units"} \subseteq DOMAIN row(t) /\ row(t).title = t
               /\ row(t).units = UNION Column(Rows(t), "units")
    <2>1. Rows(t) # {}
      BY DEF Column
    <2> DEFINE f == First(Rows(t), old)
               u == UNION Column(Rows(t), "units")
    <2>2. f \in Rows(t)
      BY <2>1, FirstRow
    <2>3. {"title", "units"} \subseteq DOMAIN f /\ f.title = t
      BY <1>2, <2>2
    <2> HIDE DEF f, u
    <2>4. /\ {"title", "units"} \subseteq DOMAIN [f EXCEPT !.units = u]
          /\ [f EXCEPT !.units = u].title = t /\ [f EXCEPT !.units = u].units = u
      BY <2>3
    <2> QED
      BY <2>4 DEF f, u
  <1>4. ASSUME NEW e \in all
        PROVE  e.title \in titles /\ e.units \subseteq UNION Column(Rows(e.title), "units")
    BY DEF Column
  <1> HIDE DEF row, Rows, titles
  <1>5. /\ Column(merged, "title") = titles
        /\ \A e \in merged : e.title \in titles /\ e.units = UNION Column(Rows(e.title), "units")
    BY <1>3 DEF Column
  <1>6. ASSUME NEW d \in (A \cup B) \ Blank, NEW t \in TitlesIn(Mentions[d])
        PROVE  /\ t \in Column(merged, "title")
               /\ OneType(t) => \A e \in merged : e.title = t => d \in e.units
    <2>1. \E e \in all : e.title = t /\ (OneType(t) => d \in e.units)
      BY DEF CoversMentions, Column
    <2>2. PICK e \in all : e.title = t /\ (OneType(t) => d \in e.units)
      BY <2>1
    <2>3. t \in titles /\ (OneType(t) => d \in UNION Column(Rows(t), "units"))
      BY <1>4, <2>2
    <2> QED
      BY <1>5, <2>3
  <1>7. \A e \in merged : {"title", "units"} \subseteq DOMAIN e
    BY <1>3
  <1> HIDE DEF merged
  <1> QED
    BY <1>1, <1>6, <1>7 DEF CoversMentions, Shaped

LEMMA MergedRelationships ==
  ASSUME NEW old, NEW new, NEW A, NEW B, CoversLinks(old, A), CoversLinks(new, B),
         Shaped("relationships", old), Shaped("relationships", new), NEW titles,
         \A d \in (A \cup B) \ Blank : TitlesIn(Mentions[d]) \subseteq titles
  PROVE  /\ CoversLinks(MergeRelationships(old, new, titles), A \cup B)
         /\ Shaped("relationships", MergeRelationships(old, new, titles))
  <1> DEFINE all == old \cup new
             Rows(p) == {q \in all : q.source = p[1] /\ q.target = p[2]}
             row(p) == [First(Rows(p), old) EXCEPT !.units = UNION Column(Rows(p), "units")]
             ends == {<<q.source, q.target>> : q \in all}
             pairs == FilterOrphans(ends, titles)
             merged == {row(p) : p \in pairs}
  <1>1. MergeRelationships(old, new, titles) = merged
    BY DEF MergeRelationships
  <1>2. \A q \in all : {"source", "target", "units"} \subseteq DOMAIN q
    BY DEF Shaped
  <1>3. ASSUME NEW p \in ends
        PROVE  /\ {"source", "target", "units"} \subseteq DOMAIN row(p)
               /\ row(p).source = p[1] /\ row(p).target = p[2]
               /\ row(p).units = UNION Column(Rows(p), "units")
    <2>1. Rows(p) # {}
      OBVIOUS
    <2> DEFINE f == First(Rows(p), old)
               u == UNION Column(Rows(p), "units")
    <2>2. f \in Rows(p)
      BY <2>1, FirstRow
    <2>3. {"source", "target", "units"} \subseteq DOMAIN f /\ f.source = p[1] /\ f.target = p[2]
      BY <1>2, <2>2
    <2> HIDE DEF f, u
    <2>4. /\ {"source", "target", "units"} \subseteq DOMAIN [f EXCEPT !.units = u]
          /\ [f EXCEPT !.units = u].source = p[1] /\ [f EXCEPT !.units = u].target = p[2]
          /\ [f EXCEPT !.units = u].units = u
      BY <2>3
    <2> QED
      BY <2>4 DEF f, u
  <1>4. pairs \subseteq ends /\ \A p \in ends : p[1] \in titles /\ p[2] \in titles => p \in pairs
    BY DEF FilterOrphans
  <1>5. ASSUME NEW q \in all
        PROVE  /\ <<q.source, q.target>> \in ends
               /\ q.units \subseteq UNION Column(Rows(<<q.source, q.target>>), "units")
    BY DEF Column
  <1> HIDE DEF row, Rows, ends
  <1>6. ASSUME NEW d \in (A \cup B) \ Blank, NEW p \in KnownPairs(d)
        PROVE  \E q \in merged : q.source = p[1] /\ q.target = p[2] /\ d \in q.units
    <2>1. p[1] \in titles /\ p[2] \in titles
      BY DEF KnownPairs, FilterOrphans
    <2>2. PICK q \in all : q.source = p[1] /\ q.target = p[2] /\ d \in q.units
      BY DEF CoversLinks
    <2> DEFINE e == <<q.source, q.target>>
    <2>3. e[1] = p[1] /\ e[2] = p[2]
      BY <2>2
    <2>4. e \in ends /\ d \in UNION Column(Rows(e), "units")
      BY <1>5, <2>2
    <2> HIDE DEF e
    <2>5. row(e) \in merged
      BY <1>4, <2>1, <2>3, <2>4
    <2>6. row(e).source = p[1] /\ row(e).target = p[2] /\ d \in row(e).units
      BY <1>3, <2>3, <2>4
    <2> QED
      BY <2>5, <2>6
  <1>7. \A q \in merged : {"source", "target", "units"} \subseteq DOMAIN q
    BY <1>3, <1>4
  <1> HIDE DEF merged
  <1> QED
    BY <1>1, <1>6, <1>7 DEF CoversLinks, Shaped

Told == {"documents", "text_units", "entities", "relationships", "covariates"}
LEMMA MergeStanding ==
  ASSUME Inv, CoverInv, NEW step, At(step), Place[step] > 10
  PROVE  /\ \A name : Has("previous", name) => Shaped(name, Old(name))
         /\ \A name : Has("delta", name) => Shaped(name, New(name))
         /\ \A name \in Told : Has("delta", name) => Covers(name, New(name), Given)
         /\ Claims => Has("delta", "covariates")
         /\ "tables" \notin run.torn =>
                /\ \A name : Has("previous", name) => Covers(name, Old(name), OldDocs)
                /\ Claims => Has("previous", "covariates")
  <1>1. /\ run.mode = "Update" /\ run.out = "delta" /\ Place[step] \in 1..18
        /\ Indexed({}, tables, run.out, Given, Place[step] - 1)
        /\ Has("previous", "documents")
        /\ "tables" \notin run.torn => Covered(tables["previous"])
    BY Standing
  <1>2. /\ \A name : Has("previous", name) => Shaped(name, Old(name))
        /\ \A name : Has("delta", name) => Shaped(name, New(name))
    BY DEF CoverInv, ShapeInv, Providers, Has, Old, New
  <1>3. /\ Reached({}, tables, "delta", "documents", Given)
        /\ Reached({}, tables, "delta", "text_units", Given)
        /\ Reached({}, tables, "delta", "entities", Given)
        /\ Reached({}, tables, "delta", "relationships", Given)
        /\ Claims => Reached({}, tables, "delta", "covariates", Given)
    <2>1. \A b \in {1, 3, 4, 6} : Place[step] - 1 >= b
      BY <1>1
    <2> QED
      BY <1>1, <2>1 DEF Indexed
  <1>4. /\ \A name \in {"documents", "text_units", "entities", "relationships"} :
               Covers(name, New(name), Given)
        /\ Claims => Has("delta", "covariates") /\ Covers("covariates", New("covariates"), Given)
    BY <1>3, NothingComing DEF Has, New
  <1>5. ~Claims => \A rows : Covers("covariates", rows, Given)
    BY DEF Covers, CoversClaims
  <1>6. \A name \in Told : Has("delta", name) => Covers(name, New(name), Given)
    BY <1>4, <1>5 DEF Told
  <1>7. "tables" \notin run.torn =>
           /\ \A name : Has("previous", name) => Covers(name, Old(name), OldDocs)
           /\ Claims => Has("previous", "covariates")
    BY <1>1 DEF Covered, Has, Old, OldDocs
  <1> QED
    BY <1>2, <1>4, <1>6, <1>7

\* A workflow of the merge that writes one table.
Stage(name) == CASE name = "documents" -> 11 [] name \in {"entities", "relationships"} -> 12
                 [] name = "text_units" -> 13 [] name = "covariates" -> 14 [] OTHER -> 15
LEMMA OneMerge ==
  ASSUME Inv, CoverInv, NEW step, NEW name, NEW rows, Turn(step, Merged(name, rows)),
         Place[step] > 10, Shaped(name, rows),
         (Place[step] = Stage(name) /\ Place[step] # 12) \/ Place[step] > 14,
         "tables" \notin run.torn => Covers(name, rows, AllDocs)
  PROVE  CoverInv'
  <1> DEFINE W == TableWrites(Merged(name, rows))
             w == TableWrite("final", name, rows)
  <1>1. W = {w}
    BY ListedWrites DEF Merged
  <1>2. w.at = "final" /\ w.name = name /\ w.rows = rows
    BY DEF TableWrite
  <1>3. \A x \in W : x.at = "final" /\ Shaped(x.name, x.rows)
    BY <1>1, <1>2
  <1>4. ASSUME "tables" \notin run.torn PROVE JoinStage(W, tables, AllDocs, Place[step])
    <2>1. Fits(W, "final", AllDocs) /\ Reached(W, tables, "final", name, AllDocs)
      BY <1>1, <1>4, OneWrite
    <2> HIDE DEF W, w
    <2>2. /\ Place[step] = 11 => name = "documents"
          /\ Place[step] # 12
          /\ Place[step] = 13 => name = "text_units"
          /\ Place[step] = 14 => name = "covariates"
      BY DEF Stage
    <2> QED
      BY <2>1, <2>2 DEF JoinStage
  <1> HIDE DEF W, w
  <1> QED
    BY <1>3, <1>4, JoinCover DEF W

\* An update that is given nothing new is over at once.
LEMMA LoadUpdateCover == ASSUME Inv, CoverInv, load_update_documents PROVE CoverInv'
  <1> DEFINE new == run.input \ Column(tables["previous"]["documents"], "id")
             rows == DocumentRows(new)
             W == TableWrites(Writes("documents", rows))
  <1>1. At("load_update_documents") /\ Place["load_update_documents"] = 1
    BY DEF load_update_documents, Place
  <1>2. /\ run.mode = "Update" /\ run.out = "delta"
        /\ "tables" \notin torn => tables["final"] = tables["previous"]
    BY <1>1, Standing
  <1>3. Given = new
    BY <1>2 DEF Given, OldDocs
  <1>4. CASE Abort
    BY <1>4, FailCover DEF Abort
  <1>5. CASE Reads("previous", {"documents"}) /\ new = {} /\ End("Ok") /\ UNCHANGED torn
    <2>1. Has("previous", "documents")
      BY <1>5 DEF Reads
    <2>2. RunDocs \subseteq OldDocs
      BY <1>5 DEF RunDocs, OldDocs
    <2>3. "tables" \notin torn' =>
              Has("final", "documents") /\ RunDocs \subseteq Column(Final("documents"), "id")
      BY <1>2, <1>5, <2>1, <2>2 DEF Has, Final, OldDocs
    <2>4. "tables" \notin torn' => Covered(tables["final"])
      BY <1>5 DEF CoverInv, FinalInv
    <2> QED
      BY <1>5, <2>3, <2>4, EndCover
  <1>6. CASE Reads("previous", {"documents"}) /\ Go(Advance(Writes("documents", rows)))
    <2>1. Column(rows, "id") = new
      <3>1. \A x \in new : \E row \in rows : row["id"] = x
        <4> SUFFICES ASSUME NEW x \in new PROVE \E row \in rows : row["id"] = x
          OBVIOUS
        <4>1. [id |-> x, units |-> {}] \in rows
          BY DEF DocumentRows
        <4> QED
          BY <4>1
      <3>2. \A row \in rows : row["id"] \in new
        BY DEF DocumentRows
      <3> HIDE DEF rows, new
      <3> QED
        BY <3>1, <3>2, ColumnIs
    <2> HIDE DEF rows
    <2>2. Covers("documents", rows, Given) /\ Shaped("documents", rows)
      BY <1>3, <2>1 DEF Covers, CoversDocuments, Shaped
    <2>3. W = {TableWrite(run.out, "documents", rows)}
      BY ListedWrites DEF Writes
    <2> HIDE DEF W
    <2>4. /\ Fits(W, run.out, Given) /\ Reached(W, tables, run.out, "documents", Given)
          /\ \A w \in W : w.at = run.out /\ Shaped(w.name, w.rows)
      BY <2>2, <2>3, OneWrite
    <2>5. OwnStage(W, tables, run.out, Given, 1)
      BY <2>4 DEF OwnStage
    <2>6. JoinStage(W, tables, AllDocs, 1)
      <3>1. \A w \in W : w.at # "final"
        BY <1>2, <2>4
      <3> QED
        BY <3>1 DEF JoinStage, Fits
    <2>7. Turn("load_update_documents", Writes("documents", rows))
      BY <1>1, <1>6, AdvanceTurn
    <2>8. Has("previous", "documents")
      BY <1>6 DEF Reads
    <2> QED
      BY <1>1, <2>4, <2>5, <2>6, <2>7, <2>8, TurnCover DEF W
  <1> QED
    <2> HIDE DEF new
    <2> QED
      BY <1>4, <1>5, <1>6, Zenon DEF load_update_documents, rows, new

LEMMA MergeDocumentsCover == ASSUME Inv, CoverInv, update_final_documents PROVE CoverInv'
  <1> DEFINE rows == Concatenated("documents")
  <1>1. At("update_final_documents") /\ Place["update_final_documents"] = 11
    BY DEF update_final_documents, Place
  <1>2. CASE Abort
    BY <1>2, FailCover DEF Abort
  <1>3. CASE Both({"documents"}) /\ Go(Advance(Merged("documents", rows)))
    <2>1. Has("previous", "documents") /\ Has("delta", "documents")
      BY <1>3 DEF Both, Reads
    <2>2. /\ Covers("documents", New("documents"), Given)
          /\ "tables" \notin run.torn => Covers("documents", Old("documents"), OldDocs)
      BY <1>1, <2>1, MergeStanding DEF Told
    <2>3. "tables" \notin run.torn => Covers("documents", rows, AllDocs)
      BY <2>2, UnionCovers DEF Concatenated, AllDocs
    <2> HIDE DEF rows
    <2>4. Turn("update_final_documents", Merged("documents", rows))
      BY <1>1, <1>3, AdvanceTurn
    <2>5. Shaped("documents", rows) /\ Stage("documents") = 11
      BY DEF Shaped, Stage
    <2> QED
      BY <1>1, <2>3, <2>4, <2>5, OneMerge
  <1> QED
    BY <1>2, <1>3 DEF update_final_documents

LEMMA MergeGraphCover == ASSUME Inv, CoverInv, update_entities_relationships PROVE CoverInv'
  <1> DEFINE entities == MergeEntities(Old("entities"), New("entities"))
             relationships == MergeRelationships(Old("relationships"), New("relationships"),
                                                 Column(entities, "title"))
             map == EntityMap(Old("entities"), New("entities"))
             writes == Merged("entities", entities) \o Merged("relationships", relationships)
             W == TableWrites(writes)
  <1>1. /\ At("update_entities_relationships")
        /\ Place["update_entities_relationships"] = 12
    BY DEF update_entities_relationships, Place
  <1>2. CASE Abort
    BY <1>2, FailCover DEF Abort
  <1>3. CASE /\ Both({"entities", "relationships"})
             /\ Go([Advance(writes) EXCEPT !.entityMap = map])
    <2> DEFINE oldE == Old("entities")
               newE == New("entities")
               oldR == Old("relationships")
               newR == New("relationships")
    <2>1. \A name \in {"entities", "relationships"} : Has("previous", name) /\ Has("delta", name)
      BY <1>3 DEF Both, Reads
    <2>2. \A name \in {"entities", "relationships"} :
             /\ Covers(name, New(name), Given) /\ Shaped(name, Old(name)) /\ Shaped(name, New(name))
             /\ "tables" \notin run.torn => Covers(name, Old(name), OldDocs)
      BY <1>1, <2>1, MergeStanding DEF Told
    <2>3. /\ CoversMentions(newE, Given) /\ CoversLinks(newR, Given)
          /\ "tables" \notin run.torn => CoversMentions(oldE, OldDocs) /\ CoversLinks(oldR, OldDocs)
          /\ Shaped("entities", oldE) /\ Shaped("entities", newE)
          /\ Shaped("relationships", oldR) /\ Shaped("relationships", newR)
      BY <2>2 DEF Covers
    <2>4. Turn("update_entities_relationships", writes)
      <3> HIDE DEF writes, map
      <3> QED
        BY <1>1, <1>3, AdvanceTurn
    <2>5. W = {TableWrite("final", "entities", entities),
               TableWrite("final", "relationships", relationships)}
      <3> HIDE DEF entities, relationships
      <3> QED
        BY ListedWrites DEF Merged
    <2> HIDE DEF W, oldE, newE, oldR, newR
    <2>6. /\ entities = MergeEntities(oldE, newE)
          /\ relationships = MergeRelationships(oldR, newR, Column(entities, "title"))
      BY DEF oldE, newE, oldR, newR
    <2> HIDE DEF entities, relationships
    <2>7. "tables" \notin run.torn =>
             CoversMentions(entities, AllDocs) /\ CoversLinks(relationships, AllDocs)
      <3> SUFFICES ASSUME "tables" \notin run.torn
                   PROVE  CoversMentions(entities, AllDocs) /\ CoversLinks(relationships, AllDocs)
        OBVIOUS
      <3>1. CoversMentions(entities, AllDocs)
        BY <2>3, <2>6, MergedEntities DEF AllDocs
      <3>2. \A d \in AllDocs \ Blank : TitlesIn(Mentions[d]) \subseteq Column(entities, "title")
        BY <3>1 DEF CoversMentions
      <3>3. CoversLinks(relationships, AllDocs)
        BY <2>3, <2>6, <3>2, MergedRelationships DEF AllDocs
      <3> QED
        BY <3>1, <3>3
    <2>8. Shaped("entities", entities) /\ Shaped("relationships", relationships)
      <3>1. \A rows : CoversMentions(rows, {}) /\ CoversLinks(rows, {})
        BY DEF CoversMentions, CoversLinks
      <3>2. Shaped("entities", entities)
        BY <2>3, <2>6, <3>1, MergedEntities
      <3> DEFINE titles == Column(entities, "title")
      <3>3. \A d \in ({} \cup {}) \ Blank : TitlesIn(Mentions[d]) \subseteq titles
        OBVIOUS
      <3> HIDE DEF titles
      <3>4. Shaped("relationships", MergeRelationships(oldR, newR, titles))
        BY <2>3, <3>1, <3>3, MergedRelationships
      <3> QED
        BY <2>6, <3>2, <3>4 DEF titles
    <2>9. \A w \in W : w.at = "final" /\ Shaped(w.name, w.rows)
      BY <2>5, <2>8 DEF TableWrite
    <2>10. ASSUME "tables" \notin run.torn PROVE JoinStage(W, tables, AllDocs, 12)
      <3>1. Covers("entities", entities, AllDocs) /\ Covers("relationships", relationships, AllDocs)
        BY <2>7, <2>10 DEF Covers
      <3>2. Fits(W, "final", AllDocs) /\ Reached(W, tables, "final", "entities", AllDocs)
        BY <2>5, <2>8, <3>1, TwoWrites
      <3>3. W = {TableWrite("final", "relationships", relationships),
                 TableWrite("final", "entities", entities)}
        BY <2>5
      <3>4. Reached(W, tables, "final", "relationships", AllDocs)
        BY <2>8, <3>1, <3>3, TwoWrites
      <3> QED
        BY <3>2, <3>4 DEF JoinStage
    <2> QED
      BY <1>1, <2>4, <2>9, <2>10, JoinCover DEF W
  <1> QED
    BY <1>2, <1>3, Zenon DEF update_entities_relationships

LEMMA MergeUnitsCover == ASSUME Inv, CoverInv, update_text_units PROVE CoverInv'
  <1> DEFINE row(u) == [u EXCEPT !.entities = {Mapped(run.entityMap, e) : e \in @}]
             mapped == {row(u) : u \in New("text_units")}
             rows == Old("text_units") \cup mapped
  <1>1. At("update_text_units") /\ Place["update_text_units"] = 13
    BY DEF update_text_units, Place
  <1>2. CASE Abort
    BY <1>2, FailCover DEF Abort
  <1>3. CASE Both({"text_units"}) /\ Go(Advance(Merged("text_units", rows)))
    <2>1. Has("previous", "text_units") /\ Has("delta", "text_units")
      BY <1>3 DEF Both, Reads
    <2>2. /\ Covers("text_units", New("text_units"), Given)
          /\ "tables" \notin run.torn => Covers("text_units", Old("text_units"), OldDocs)
          /\ \A u \in Old("text_units") : "id" \in DOMAIN u /\ u.id \in Docs
          /\ \A u \in New("text_units") : "id" \in DOMAIN u /\ u.id \in Docs
      BY <1>1, <2>1, MergeStanding DEF Told, Shaped
    <2>3. \A u \in New("text_units") : "id" \in DOMAIN row(u) /\ row(u)["id"] = u["id"]
      BY <2>2
    <2> HIDE DEF row
    <2>4. Column(mapped, "id") = Column(New("text_units"), "id")
            /\ \A u \in mapped : "id" \in DOMAIN u /\ u.id \in Docs
      BY <2>2, <2>3 DEF Column
    <2>5. Turn("update_text_units", Merged("text_units", rows))
      <3> HIDE DEF rows
      <3> QED
        BY <1>1, <1>3, AdvanceTurn
    <2> HIDE DEF mapped
    <2>6. Covers("text_units", mapped, Given)
      BY <2>2, <2>4 DEF Covers, CoversUnits
    <2>7. "tables" \notin run.torn => Covers("text_units", rows, AllDocs)
      BY <2>2, <2>6, UnionCovers DEF AllDocs
    <2>8. Shaped("text_units", rows) /\ Stage("text_units") = 13
      BY <2>2, <2>4 DEF Shaped, Stage
    <2> HIDE DEF rows
    <2> QED
      BY <1>1, <2>5, <2>7, <2>8, OneMerge
  <1> QED
    BY <1>2, <1>3, Zenon DEF update_text_units

LEMMA MergeClaimsCover == ASSUME Inv, CoverInv, update_covariates PROVE CoverInv'
  <1> DEFINE rows == Concatenated("covariates")
  <1>1. At("update_covariates") /\ Place["update_covariates"] = 14
    BY DEF update_covariates, Place
  <1>2. /\ Claims => Has("delta", "covariates")
        /\ "tables" \notin run.torn /\ Claims => Has("previous", "covariates")
    BY <1>1, MergeStanding
  <1>3. CASE Both({"covariates"}) /\ Go(Advance(Merged("covariates", rows)))
    <2>1. Has("previous", "covariates") /\ Has("delta", "covariates")
      BY <1>3 DEF Both, Reads
    <2>2. /\ Covers("covariates", New("covariates"), Given)
          /\ "tables" \notin run.torn => Covers("covariates", Old("covariates"), OldDocs)
      BY <1>1, <2>1, MergeStanding DEF Told
    <2>3. "tables" \notin run.torn => Covers("covariates", rows, AllDocs)
      BY <2>2, UnionCovers DEF Concatenated, AllDocs
    <2> HIDE DEF rows
    <2>4. Turn("update_covariates", Merged("covariates", rows))
      BY <1>1, <1>3, AdvanceTurn
    <2>5. Shaped("covariates", rows) /\ Stage("covariates") = 14
      BY DEF Shaped, Stage
    <2> QED
      BY <1>1, <2>3, <2>4, <2>5, OneMerge
  <1>4. CASE ~Both({"covariates"}) /\ Go(Advance(<<>>))
    <2>1. "tables" \notin run.torn => ~Claims
      BY <1>2, <1>4 DEF Both, Reads
    <2>2. Turn("update_covariates", <<>>)
      BY <1>1, <1>4, AdvanceTurn
    <2> DEFINE W == TableWrites(<<>>)
    <2>3. W = {}
      BY EmptyWrites
    <2> HIDE DEF W
    <2>4. "tables" \notin run.torn => JoinStage(W, tables, AllDocs, 14)
      BY <2>1, <2>3 DEF JoinStage, Fits
    <2>5. \A w \in W : w.at = "final" /\ Shaped(w.name, w.rows)
      BY <2>3
    <2>6. 14 > 10
      OBVIOUS
    <2> QED
      BY <1>1, <2>2, <2>4, <2>5, <2>6, JoinCover DEF W
  <1> QED
    BY <1>3, <1>4, Zenon DEF update_covariates

\* The rest of the merge writes what says nothing about documents.
LEMMA RestCover ==
  ASSUME Inv, CoverInv, NEW step, Place[step] > 14, NEW writes, Turn(step, writes),
         \/ TableWrites(writes) = {}
         \/ \E name \in {"communities", "community_reports"} : \E rows : writes = Merged(name, rows)
  PROVE  CoverInv'
  <1>1. Place[step] > 10
    <2>1. Place[step] \in 1..18
      BY Standing DEF Turn
    <2> QED
      BY <2>1
  <1>2. CASE TableWrites(writes) = {}
    <2> DEFINE W == TableWrites(writes)
    <2>1. W = {}
      BY <1>2
    <2> HIDE DEF W
    <2>2. Fits(W, "final", AllDocs) /\ \A w \in W : w.at = "final" /\ Shaped(w.name, w.rows)
      BY <2>1 DEF Fits
    <2>3. Place[step] \notin {11, 12, 13, 14}
      OBVIOUS
    <2>4. JoinStage(W, tables, AllDocs, Place[step])
      BY <2>2, <2>3, Zenon DEF JoinStage
    <2> QED
      BY <1>1, <2>2, <2>4, JoinCover DEF W
  <1>3. ASSUME NEW name \in {"communities", "community_reports"}, NEW rows,
               writes = Merged(name, rows)
        PROVE  CoverInv'
    <2>1. Shaped(name, rows) /\ Covers(name, rows, AllDocs)
      BY OtherTable
    <2> QED
      BY <1>1, <1>3, <2>1, OneMerge
  <1> QED
    BY <1>2, <1>3

LEMMA MergeWorkflowsCover ==
  ASSUME Inv, CoverInv,
         \/ load_update_documents \/ update_final_documents \/ update_entities_relationships
         \/ update_text_units \/ update_covariates \/ update_communities
         \/ update_community_reports \/ update_text_embeddings \/ update_clean_state
  PROVE  CoverInv'
  <1>1. Abort => CoverInv'
    BY FailCover DEF Abort
  <1>2. CASE update_communities
    <2>1. At("update_communities") /\ Place["update_communities"] = 15
      BY <1>2 DEF update_communities, Place
    <2>2. Abort \/ \E rows, map : Go([Advance(Merged("communities", rows))
                                         EXCEPT !.communityMap = map])
      BY <1>2, Zenon DEF update_communities
    <2>3. ASSUME NEW rows, NEW map,
                 Go([Advance(Merged("communities", rows)) EXCEPT !.communityMap = map])
          PROVE  CoverInv'
      <3>1. Turn("update_communities", Merged("communities", rows))
        BY <2>1, <2>3, AdvanceTurn
      <3> QED
        BY <2>1, <3>1, RestCover
    <2> QED
      BY <1>1, <2>2, <2>3
  <1>3. CASE update_community_reports
    <2>1. At("update_community_reports") /\ Place["update_community_reports"] = 16
      BY <1>3 DEF update_community_reports, Place
    <2>2. Abort \/ \E rows : Go(Advance(Merged("community_reports", rows)))
      BY <1>3, Zenon DEF update_community_reports
    <2>3. ASSUME NEW rows, Go(Advance(Merged("community_reports", rows))) PROVE CoverInv'
      <3>1. Turn("update_community_reports", Merged("community_reports", rows))
        BY <2>1, <2>3, AdvanceTurn
      <3> QED
        BY <2>1, <3>1, RestCover
    <2> QED
      BY <1>1, <2>2, <2>3
  <1>4. CASE update_text_embeddings
    <2>1. /\ At("update_text_embeddings") /\ Place["update_text_embeddings"] = 17
          /\ Go(Advance(Embeddings("final")))
      BY <1>4 DEF update_text_embeddings, run_text_embeddings, Embeddings, EmbedFinal, Place
    <2>2. TableWrites(Embeddings("final")) = {}
      BY EmbedPlan, NoTableWrites DEF Embeddings
    <2>3. Turn("update_text_embeddings", Embeddings("final"))
      BY <2>1, AdvanceTurn
    <2> QED
      BY <2>1, <2>2, <2>3, RestCover
  <1>5. CASE update_clean_state
    <2>1. /\ At("update_clean_state") /\ Place["update_clean_state"] = 18
          /\ Go([Advance(<<>>) EXCEPT !.entityMap = None, !.communityMap = None])
      BY <1>5 DEF update_clean_state, Place
    <2>2. Turn("update_clean_state", <<>>)
      BY <2>1, AdvanceTurn
    <2> QED
      BY <2>1, <2>2, EmptyWrites, RestCover
  <1> QED
    BY <1>2, <1>3, <1>4, <1>5, LoadUpdateCover, MergeDocumentsCover, MergeGraphCover,
       MergeUnitsCover, MergeClaimsCover

LEMMA NextCover == Inv /\ Types /\ CoverInv /\ [Next]_vars => CoverInv'
  <1> SUFFICES ASSUME Inv, Types, CoverInv, [Next]_vars PROVE CoverInv'
    OBVIOUS
  <1>1. CASE StartIndex \/ StartUpdate
    BY <1>1, StartCover
  <1>2. CASE Workflow
    BY <1>2, OwnWorkflowsCover, MergeWorkflowsCover DEF Workflow
  <1>3. CASE Write
    BY <1>3, WriteCover
  <1>4. CASE Fail
    BY <1>4, FailCover DEF Fail
  <1>5. CASE Finish
    BY <1>5, FinishCover
  <1>6. CASE UNCHANGED vars
    BY <1>6 DEF vars, CoverInv, ShapeInv, QueueInv, OwnInv, MergeInvariant, FinalInv, LastInv,
                Coming, OldDocs, Given, AllDocs, Done, Has, Final
  <1> QED
    BY <1>1, <1>2, <1>3, <1>4, <1>5, <1>6 DEF Next

\* A run that reports success has indexed every document it was given, an update
\* also keeps every document of the index it merged with: each has its text unit,
\* an entity for every title extracted from it, which names the unit when the
\* title goes by one type only, a relationship that names the unit for every pair
\* of its titles, and its claims, whatever the documents and the titles they
\* share and whichever row of a title is kept, unless an earlier run broke off in
\* the middle of the final tables.
THEOREM SuccessCovers == Spec => []SuccessCoversInput
  <1>1. CoverInv => SuccessCoversInput
    <2> SUFFICES ASSUME CoverInv, Whole, last.outcome = "Ok" PROVE SuccessCoversInput
      BY DEF SuccessCoversInput
    <2>1. /\ Has("final", "documents") /\ last.docs \subseteq Column(Final("documents"), "id")
          /\ Covered(tables["final"])
      BY DEF CoverInv, LastInv, FinalInv, Whole
    <2> DEFINE D == Column(Final("documents"), "id")
    <2>2. /\ Covers("text_units", Final("text_units"), D)
          /\ Covers("entities", Final("entities"), D)
          /\ Covers("relationships", Final("relationships"), D)
          /\ Claims => Covers("covariates", Final("covariates"), D)
      BY <2>1 DEF Covered, Has, Final
    <2> HIDE DEF D
    <2>3. /\ CoversUnits(Final("text_units"), D) /\ CoversMentions(Final("entities"), D)
          /\ CoversLinks(Final("relationships"), D)
          /\ Claims => CoversClaims(Final("covariates"), D)
      BY <2>2 DEF Covers
    <2>4. last.docs \subseteq D
      BY <2>1 DEF D
    <2>5. last.docs \subseteq Column(Final("documents"), "id")
      BY <2>1
    <2>6. \A d \in last.docs \ Blank :
             /\ d \in Column(Final("text_units"), "id")
             /\ \A t \in TitlesIn(Mentions[d]) : \E e \in Final("entities") :
                    e.title = t /\ (OneType(t) => d \in e.units)
             /\ \A p \in FilterOrphans(Links[d], TitlesIn(Mentions[d])) :
                    \E r \in Final("relationships") :
                        r.source = p[1] /\ r.target = p[2] /\ d \in r.units
      BY <2>3, <2>4 DEF CoversUnits, CoversMentions, CoversLinks, KnownPairs, Column
    <2>7. Claims => last.docs \ Blank \subseteq Column(Final("covariates"), "unit")
      BY <2>3, <2>4 DEF CoversClaims
    <2> QED
      BY <2>5, <2>6, <2>7 DEF SuccessCoversInput
  <1> QED
    BY <1>1, InitInv, NextInv, InitTypes, NextTypes, InitCover, NextCover, PTL DEF Spec
-----------------------------------------------------------------------------
\* Ids, titles and numbers that rows of other tables refer to.
Units(T) == Column(T["text_units"], "id")
EntityIds(T) == Column(T["entities"], "id")
EntityTitles(T) == Column(T["entities"], "title")
PairIds(T) == Column(T["relationships"], "id")
ClaimIds(T) == IF Claims /\ "covariates" \in DOMAIN T THEN Column(T["covariates"], "id") ELSE {}
Numbers(rows) == Column(rows, "number") \cup {-1}

WithinUnits(rows, units) == \A row \in rows : row.units \subseteq units
NamesEntities(units, ids) == \A u \in units : u.entities \subseteq ids
NamesPairs(units, ids) == \A u \in units : u.relationships \subseteq ids
NamesClaims(units, ids) == \A u \in units : u.covariates \subseteq ids
EndsKnown(rows, titles) == \A r \in rows : {r.source, r.target} \subseteq titles
Named(rows) == \A e \in rows : e.id # None
Keyed(rows) == \A e1, e2 \in rows : e1.id = e2.id => e1.title = e2.title
SamePair(r1, r2) == r1.source = r2.source /\ r1.target = r2.target
\* Rows with the ids of run n, and of runs before it.
EntitiesOf(rows, n) == \A e \in rows : e.id = <<n, e.title>>
PairsOf(rows, n) == \A r \in rows : r.id = <<n, r.source, r.target>>
EntitiesBefore(rows, n) == \A e \in rows : \E m \in Nat : m < n /\ e.id = <<m, e.title>>
PairsBefore(rows, n) ==
    /\ \A r \in rows : \E m \in Nat : m < n /\ r.id = <<m, r.source, r.target>>
    /\ \A r1, r2 \in rows : SamePair(r1, r2) => r1.id = r2.id
\* The row of an id is there or was merged into an older one.
EntityIn(rows, id) == \E e \in rows : e.id = id \/ (e.id[1] < id[1] /\ e.title = id[2])
PairIn(rows, id) ==
    \E r \in rows : r.id = id \/ (r.id[1] < id[1] /\ r.source = id[2] /\ r.target = id[3])
Bounded(rows) == \E b \in Nat : \A c \in rows : c.number \in 0..b
Numbered(rows) ==
    Unique(rows, "number") /\ Bounded(rows) /\ \A c \in rows : c.parent \in Numbers(rows)
Reports(rows, communities) ==
    \A r \in rows : {r.number, r.parent} \subseteq Numbers(communities)

\* What the workflows of indexing make of a run's own tables V, by the number of
\* those that are done.
DocumentsLinked(V) ==
    {"documents", "text_units"} \subseteq DOMAIN V /\ WithinUnits(V["documents"], Units(V))
GraphLinked(V) ==
    /\ {"entities", "relationships", "text_units"} \subseteq DOMAIN V
    /\ WithinUnits(V["entities"], Units(V)) /\ WithinUnits(V["relationships"], Units(V))
    /\ EndsKnown(V["relationships"], EntityTitles(V))
GraphNamed(V, n) ==
    /\ Unique(V["entities"], "title") /\ Named(V["entities"]) /\ Keyed(V["entities"])
    /\ EntitiesOf(V["entities"], n) /\ PairsOf(V["relationships"], n)
CommunitiesLinked(V) ==
    /\ "communities" \in DOMAIN V
    /\ Numbered(V["communities"]) /\ WithinUnits(V["communities"], Units(V))
MembersLinked(V) ==
    \A c \in V["communities"] :
        c.entities \subseteq EntityIds(V) /\ c.relationships \subseteq PairIds(V)
UnitsLinked(V) ==
    NamesEntities(V["text_units"], EntityIds(V)) /\ NamesClaims(V["text_units"], ClaimIds(V))
PairsLinked(V) == NamesPairs(V["text_units"], PairIds(V))
ReportsLinked(V) ==
    /\ "community_reports" \in DOMAIN V
    /\ Reports(V["community_reports"], V["communities"])
Linked(V, k, n) ==
    /\ k >= 3 => DocumentsLinked(V)
    /\ k >= 4 => GraphLinked(V)
    /\ k >= 5 => GraphNamed(V, n)
    /\ k >= 7 => CommunitiesLinked(V) /\ MembersLinked(V)
    /\ k >= 8 => UnitsLinked(V) /\ PairsLinked(V)
    /\ k >= 9 => ReportsLinked(V)

\* What k workflows make of the final tables F, from the old ones P and the
\* delta D.
MapUnit(u, map) == [u EXCEPT !.entities = {Mapped(map, e) : e \in @}]
MapUnits(units, map) == {MapUnit(u, map) : u \in units}
MergesDocuments(F, P, D) ==
    /\ "documents" \in DOMAIN F
    /\ F["documents"] = P["documents"] \cup D["documents"]
MergesGraph(F, P, D) ==
    /\ {"entities", "relationships"} \subseteq DOMAIN F
    /\ F["entities"] = MergeEntities(P["entities"], D["entities"])
    /\ F["relationships"] = MergeRelationships(P["relationships"], D["relationships"],
                                               EntityTitles(F))
MergesUnits(F, P, D) ==
    /\ "text_units" \in DOMAIN F
    /\ F["text_units"] = P["text_units"]
           \cup MapUnits(D["text_units"], EntityMap(P["entities"], D["entities"]))
MergesClaims(F, P, D) ==
    "covariates" \in DOMAIN P /\ "covariates" \in DOMAIN D =>
        /\ "covariates" \in DOMAIN F
        /\ F["covariates"] = P["covariates"] \cup D["covariates"]
MergesCommunities(F, P, D) ==
    /\ "communities" \in DOMAIN F
    /\ F["communities"] = P["communities"]
           \cup Renumber(D["communities"], CommunityMap(P["communities"], D["communities"]))
MergesReports(F, P, D) ==
    /\ "community_reports" \in DOMAIN F
    /\ F["community_reports"] = P["community_reports"]
           \cup Renumber(D["community_reports"], CommunityMap(P["communities"], D["communities"]))
Merges(F, P, D, k) ==
    /\ k >= 11 => MergesDocuments(F, P, D)
    /\ k >= 12 => MergesGraph(F, P, D)
    /\ k >= 13 => MergesUnits(F, P, D)
    /\ k >= 14 => MergesClaims(F, P, D)
    /\ k >= 15 => MergesCommunities(F, P, D)
    /\ k >= 16 => MergesReports(F, P, D)

\* An index of runs before n with every table there and every reference resolved.
GraphBefore(F, n) ==
    /\ Unique(F["entities"], "title") /\ Named(F["entities"])
    /\ EntitiesBefore(F["entities"], n) /\ PairsBefore(F["relationships"], n)
MembersStand(F) ==
    \A c \in F["communities"] :
        /\ \A id \in c.entities : EntityIn(F["entities"], id)
        /\ \A id \in c.relationships : PairIn(F["relationships"], id)
PairsStand(F) ==
    \A u \in F["text_units"] : \A id \in u.relationships : PairIn(F["relationships"], id)
Resolved(F, n) ==
    "documents" \in DOMAIN F =>
        /\ DocumentsLinked(F) /\ GraphLinked(F) /\ GraphBefore(F, n) /\ CommunitiesLinked(F)
        /\ MembersStand(F) /\ UnitsLinked(F) /\ PairsStand(F) /\ ReportsLinked(F)

\* The fields of the rows, in every table at any time.
Pairs == UNION {Links[d] : d \in Docs}
UnitFields == {"id", "entities", "relationships", "covariates"}
CommunityFields == {"number", "parent", "units", "entities", "relationships"}
FormedUnit(u) == UnitFields \subseteq DOMAIN u /\ u.id \in Docs
FormedEntity(e) == {"id", "title", "units"} \subseteq DOMAIN e /\ e.title \in Titles
FormedRelationship(r) ==
    {"id", "source", "target", "units"} \subseteq DOMAIN r /\ <<r.source, r.target>> \in Pairs
Formed(name, rows) ==
    /\ name = "documents" => \A d \in rows : d.id \in Docs
    /\ name = "text_units" => \A u \in rows : FormedUnit(u)
    /\ name = "entities" => \A e \in rows : FormedEntity(e)
    /\ name = "relationships" => \A r \in rows : FormedRelationship(r)
    /\ name = "communities" => \A c \in rows : CommunityFields \subseteq DOMAIN c
    /\ name = "community_reports" => \A r \in rows : {"number", "parent"} \subseteq DOMAIN r

\* The tables V that provider p will hold when the writes W are carried out on T.
Future(V, W, T, p) ==
    /\ DOMAIN V = DOMAIN T[p] \cup {w.name : w \in {w \in W : w.at = p}}
    /\ \A name \in DOMAIN V : V[name] \in Outcomes(W, T, p, name)

\* The invariant: a run's own tables will be linked as far as it has come, and an
\* update's final ones merged, with the maps that belong to them; unless an update
\* broke off half way the final tables are resolved.
FormInv ==
    /\ \A p \in Providers : \A name \in DOMAIN tables[p] : Formed(name, tables[p][name])
    /\ \A w \in Coming : Formed(w.name, w.rows)
    /\ run.input \subseteq Docs
    /\ {"entityMap", "communityMap"} \subseteq DOMAIN run
LinkInv ==
    run.mode \in {"Index", "Update"} =>
        \A V : Future(V, Coming, tables, run.out) => Linked(V, Done, runs)
MapInv ==
    /\ Done < 12 => run.entityMap = None
    /\ Done < 15 => run.communityMap = None
    /\ run.entityMap # None => run.entityMap = EntityMap(Old("entities"), New("entities"))
    /\ run.communityMap # None =>
           run.communityMap = CommunityMap(Old("communities"), New("communities"))
UnionInv ==
    run.mode = "Update" =>
        /\ \A F : Future(F, Coming, tables, "final") =>
               Merges(F, tables["previous"], tables["delta"], Done)
        /\ "tables" \notin run.torn => Resolved(tables["previous"], runs)
        /\ Done >= 11 => \A w \in Coming : w.at = "final"
        /\ MapInv
ResolvedInv == "tables" \notin torn => Resolved(tables["final"], runs + 1)
RefInv == FormInv /\ LinkInv /\ UnionInv /\ ResolvedInv
-----------------------------------------------------------------------------
\* A write that is carried out leaves fewer futures.
LEMMA FutureNarrows ==
  ASSUME NEW X, NEW w, NEW T, DOMAIN T = Providers, w.at \in Providers,
         NEW U, U = [T EXCEPT ![w.at] = With(@, w.name, w.rows)],
         NEW p \in Providers, NEW V, Future(V, X, U, p)
  PROVE  Future(V, X \cup {w}, T, p)
  <1>1. Narrows(X, U, X \cup {w}, T)
    BY WriteNarrows
  <1>2. DOMAIN U[p] = DOMAIN T[p] \cup IF p = w.at THEN {w.name} ELSE {}
    <2>1. U[p] = IF p = w.at THEN With(T[p], w.name, w.rows) ELSE T[p]
      OBVIOUS
    <2>2. DOMAIN With(T[p], w.name, w.rows) = DOMAIN T[p] \cup {w.name}
      BY DEF With
    <2> QED
      BY <2>1, <2>2
  <1>3. {x.name : x \in {x \in X \cup {w} : x.at = p}}
            = {x.name : x \in {x \in X : x.at = p}} \cup IF p = w.at THEN {w.name} ELSE {}
    OBVIOUS
  <1>4. DOMAIN V = DOMAIN T[p] \cup {x.name : x \in {x \in X \cup {w} : x.at = p}}
    BY <1>2, <1>3 DEF Future
  <1>5. \A name \in DOMAIN V : V[name] \in Outcomes(X \cup {w}, T, p, name)
    BY <1>1 DEF Future, Narrows
  <1> QED
    BY <1>4, <1>5 DEF Future

\* Two sets of tables that agree but for the given names.
SameBut(V, S, names) ==
    \A name : name \notin names => /\ name \in DOMAIN V <=> name \in DOMAIN S
                                   /\ name \in DOMAIN S => V[name] = S[name]

LEMMA FutureNow == ASSUME NEW T, NEW p PROVE Future(T[p], {}, T, p)
  <1>1. \A name : RowsTo({}, p, name) = {}
    BY DEF RowsTo
  <1> QED
    BY <1>1 DEF Future, Outcomes

LEMMA FutureSame ==
  ASSUME NEW V, NEW W, NEW T, NEW p, Future(V, W, T, p), \A w \in W : w.at # p
  PROVE  SameBut(V, T[p], {})
  <1>1. \A name : RowsTo(W, p, name) = {}
    BY DEF RowsTo
  <1>2. DOMAIN V = DOMAIN T[p]
    BY DEF Future
  <1> QED
    BY <1>1, <1>2 DEF Future, Outcomes, SameBut

LEMMA FutureOne ==
  ASSUME NEW V, NEW T, NEW p, NEW name, NEW rows, Future(V, {TableWrite(p, name, rows)}, T, p)
  PROVE  SameBut(V, T[p], {name}) /\ name \in DOMAIN V /\ V[name] = rows
  <1> DEFINE w == TableWrite(p, name, rows)
             W == {w}
  <1>1. w.at = p /\ w.name = name /\ w.rows = rows
    BY DEF TableWrite
  <1> HIDE DEF w
  <1>2. \A n : RowsTo(W, p, n) = IF n = name THEN {rows} ELSE {}
    BY <1>1 DEF RowsTo
  <1>3. DOMAIN V = DOMAIN T[p] \cup {name}
    BY <1>1 DEF Future, w
  <1> HIDE DEF W
  <1>4. \A n \in DOMAIN V : V[n] \in Outcomes(W, T, p, n)
    BY DEF Future, W, w
  <1> QED
    BY <1>2, <1>3, <1>4 DEF Outcomes, SameBut

LEMMA FutureTwo ==
  ASSUME NEW V, NEW T, NEW p, NEW n1, NEW r1, NEW n2, NEW r2, n1 # n2,
         Future(V, {TableWrite(p, n1, r1), TableWrite(p, n2, r2)}, T, p)
  PROVE  /\ SameBut(V, T[p], {n1, n2})
         /\ n1 \in DOMAIN V /\ V[n1] = r1 /\ n2 \in DOMAIN V /\ V[n2] = r2
  <1> DEFINE a == TableWrite(p, n1, r1)
             b == TableWrite(p, n2, r2)
             W == {a, b}
  <1>1. a.at = p /\ a.name = n1 /\ a.rows = r1 /\ b.at = p /\ b.name = n2 /\ b.rows = r2
    BY DEF TableWrite
  <1>2. Future(V, W, T, p)
    OBVIOUS
  <1> HIDE DEF a, b
  <1>3. \A n : RowsTo(W, p, n) = IF n = n1 THEN {r1} ELSE IF n = n2 THEN {r2} ELSE {}
    BY <1>1 DEF RowsTo
  <1>4. DOMAIN V = DOMAIN T[p] \cup {n1, n2}
    BY <1>1, <1>2 DEF Future
  <1> HIDE DEF W
  <1>5. \A n \in DOMAIN V : V[n] \in Outcomes(W, T, p, n)
    BY <1>2 DEF Future
  <1> QED
    BY <1>3, <1>4, <1>5 DEF Outcomes, SameBut

\* Each link is between a few tables and outlives a change of the others.
LEMMA LinksStay ==
  ASSUME NEW V, NEW S, NEW names, SameBut(V, S, names)
  PROVE  /\ names \cap {"documents", "text_units"} = {} /\ DocumentsLinked(S) => DocumentsLinked(V)
         /\ names \cap {"entities", "relationships", "text_units"} = {} /\ GraphLinked(S)
                => GraphLinked(V)
         /\ names \cap {"entities", "relationships"} = {}
                /\ {"entities", "relationships"} \subseteq DOMAIN S
                => \A n : GraphNamed(S, n) => GraphNamed(V, n)
         /\ names \cap {"communities", "entities", "relationships"} = {}
                /\ {"communities", "entities", "relationships"} \subseteq DOMAIN S
                /\ MembersLinked(S) => MembersLinked(V)
         /\ names \cap {"text_units", "relationships"} = {}
                /\ {"text_units", "relationships"} \subseteq DOMAIN S
                /\ PairsLinked(S) => PairsLinked(V)
         /\ names \cap {"communities", "text_units"} = {} /\ "text_units" \in DOMAIN S
                /\ CommunitiesLinked(S) => CommunitiesLinked(V)
         /\ names \cap {"text_units", "entities", "covariates"} = {}
                /\ {"text_units", "entities"} \subseteq DOMAIN S /\ UnitsLinked(S) => UnitsLinked(V)
         /\ names \cap {"communities", "community_reports"} = {} /\ "communities" \in DOMAIN S
                /\ ReportsLinked(S) => ReportsLinked(V)
  <1>1. \A n : n \notin names /\ n \in DOMAIN S => n \in DOMAIN V /\ V[n] = S[n]
    BY DEF SameBut
  <1>2. names \cap {"documents", "text_units"} = {} /\ DocumentsLinked(S) => DocumentsLinked(V)
    <2> SUFFICES ASSUME names \cap {"documents", "text_units"} = {}, DocumentsLinked(S)
                 PROVE  DocumentsLinked(V)
      OBVIOUS
    <2>1. \A n \in {"documents", "text_units"} : n \in DOMAIN V /\ V[n] = S[n]
      BY <1>1 DEF DocumentsLinked
    <2> QED
      BY <2>1 DEF DocumentsLinked, Units
  <1>3. names \cap {"entities", "relationships", "text_units"} = {} /\ GraphLinked(S) => GraphLinked(V)
    <2> SUFFICES ASSUME names \cap {"entities", "relationships", "text_units"} = {}, GraphLinked(S)
                 PROVE  GraphLinked(V)
      OBVIOUS
    <2>1. \A n \in {"entities", "relationships", "text_units"} : n \in DOMAIN V /\ V[n] = S[n]
      BY <1>1 DEF GraphLinked
    <2> QED
      BY <2>1 DEF GraphLinked, Units, EntityTitles
  <1>4. names \cap {"entities", "relationships"} = {} /\ {"entities", "relationships"} \subseteq DOMAIN S
            => \A n : GraphNamed(S, n) => GraphNamed(V, n)
    <2> SUFFICES ASSUME names \cap {"entities", "relationships"} = {},
                        {"entities", "relationships"} \subseteq DOMAIN S, NEW n, GraphNamed(S, n)
                 PROVE  GraphNamed(V, n)
      OBVIOUS
    <2>1. V["entities"] = S["entities"] /\ V["relationships"] = S["relationships"]
      BY <1>1
    <2> QED
      BY <2>1 DEF GraphNamed
  <1>8. names \cap {"communities", "entities", "relationships"} = {}
            /\ {"communities", "entities", "relationships"} \subseteq DOMAIN S
            /\ MembersLinked(S) => MembersLinked(V)
    <2> SUFFICES ASSUME names \cap {"communities", "entities", "relationships"} = {},
                        {"communities", "entities", "relationships"} \subseteq DOMAIN S,
                        MembersLinked(S)
                 PROVE  MembersLinked(V)
      OBVIOUS
    <2>1. /\ V["entities"] = S["entities"] /\ V["relationships"] = S["relationships"]
          /\ V["communities"] = S["communities"]
      BY <1>1
    <2> QED
      BY <2>1 DEF MembersLinked, EntityIds, PairIds
  <1>9. names \cap {"text_units", "relationships"} = {} /\ {"text_units", "relationships"} \subseteq DOMAIN S
            /\ PairsLinked(S) => PairsLinked(V)
    <2> SUFFICES ASSUME names \cap {"text_units", "relationships"} = {},
                        {"text_units", "relationships"} \subseteq DOMAIN S, PairsLinked(S)
                 PROVE  PairsLinked(V)
      OBVIOUS
    <2>1. V["text_units"] = S["text_units"] /\ V["relationships"] = S["relationships"]
      BY <1>1
    <2> QED
      BY <2>1 DEF PairsLinked, PairIds
  <1>5. names \cap {"communities", "text_units"} = {} /\ "text_units" \in DOMAIN S
            /\ CommunitiesLinked(S) => CommunitiesLinked(V)
    <2> SUFFICES ASSUME names \cap {"communities", "text_units"} = {}, "text_units" \in DOMAIN S,
                        CommunitiesLinked(S)
                 PROVE  CommunitiesLinked(V)
      OBVIOUS
    <2>1. \A n \in {"communities", "text_units"} : n \in DOMAIN V /\ V[n] = S[n]
      BY <1>1 DEF CommunitiesLinked
    <2> QED
      BY <2>1 DEF CommunitiesLinked, Units
  <1>6. names \cap {"text_units", "entities", "covariates"} = {}
            /\ {"text_units", "entities"} \subseteq DOMAIN S /\ UnitsLinked(S) => UnitsLinked(V)
    <2> SUFFICES ASSUME names \cap {"text_units", "entities", "covariates"} = {},
                        {"text_units", "entities"} \subseteq DOMAIN S, UnitsLinked(S)
                 PROVE  UnitsLinked(V)
      OBVIOUS
    <2>1. \A n \in {"text_units", "entities"} : n \in DOMAIN V /\ V[n] = S[n]
      BY <1>1
    <2>2. /\ "covariates" \in DOMAIN V <=> "covariates" \in DOMAIN S
          /\ "covariates" \in DOMAIN S => V["covariates"] = S["covariates"]
      BY DEF SameBut
    <2>3. ClaimIds(V) = ClaimIds(S)
      BY <2>2 DEF ClaimIds
    <2> QED
      BY <2>1, <2>3 DEF UnitsLinked, EntityIds
  <1>7. names \cap {"communities", "community_reports"} = {} /\ "communities" \in DOMAIN S
            /\ ReportsLinked(S) => ReportsLinked(V)
    <2> SUFFICES ASSUME names \cap {"communities", "community_reports"} = {},
                        "communities" \in DOMAIN S, ReportsLinked(S)
                 PROVE  ReportsLinked(V)
      OBVIOUS
    <2>1. \A n \in {"communities", "community_reports"} : n \in DOMAIN V /\ V[n] = S[n]
      BY <1>1 DEF ReportsLinked
    <2> QED
      BY <2>1 DEF ReportsLinked
  <1> QED
    BY <1>2, <1>3, <1>4, <1>5, <1>6, <1>7, <1>8, <1>9

\* A change of tables that no link is about, by a workflow that makes none.
LEMMA LinksUntouched ==
  ASSUME NEW V, NEW S, NEW names, SameBut(V, S, names), names \subseteq {"covariates"},
         NEW k \in Nat, k = 6 \/ (k >= 10 /\ names = {}), Linked(S, k - 1, runs)
  PROVE  Linked(V, k, runs)
  <1>1. \A b \in {3, 4, 5, 7, 8, 9} : k >= b => k - 1 >= b
    OBVIOUS
  <1>2. /\ k >= 3 => DocumentsLinked(S)
        /\ k >= 4 => GraphLinked(S)
        /\ k >= 5 => GraphNamed(S, runs)
        /\ k >= 7 => CommunitiesLinked(S) /\ MembersLinked(S)
        /\ k >= 8 => UnitsLinked(S) /\ PairsLinked(S)
        /\ k >= 9 => ReportsLinked(S)
    BY <1>1 DEF Linked
  <1>3. k >= 4 /\ (k >= 9 => k >= 7) /\ (k >= 8 => names = {})
    OBVIOUS
  <1>4. /\ {"entities", "relationships", "text_units"} \subseteq DOMAIN S
        /\ k >= 7 => "communities" \in DOMAIN S
    BY <1>2, <1>3 DEF GraphLinked, CommunitiesLinked
  <1>5. /\ DocumentsLinked(S) => DocumentsLinked(V)
        /\ GraphLinked(S) => GraphLinked(V)
        /\ GraphNamed(S, runs) => GraphNamed(V, runs)
        /\ CommunitiesLinked(S) => CommunitiesLinked(V)
    BY <1>4, LinksStay
  <1>6. "communities" \in DOMAIN S =>
            /\ MembersLinked(S) => MembersLinked(V)
            /\ ReportsLinked(S) => ReportsLinked(V)
    BY <1>4, LinksStay
  <1>7. /\ PairsLinked(S) => PairsLinked(V)
        /\ names = {} /\ UnitsLinked(S) => UnitsLinked(V)
    BY <1>4, LinksStay
  <1> QED
    BY <1>2, <1>3, <1>4, <1>5, <1>6, <1>7 DEF Linked
-----------------------------------------------------------------------------
\* The rows that the workflows of indexing write.
UnitsOf(units, d) == {u.id : u \in {u \in units : u.doc = d}}
FinalDocuments(documents, units) ==
    {[id |-> d.id, units |-> UnitsOf(units, d.id)] : d \in documents}
GraphMentions(ids) == UNION {Mentions[u] : u \in ids}
GraphTitles(ids) == TitlesIn(GraphMentions(ids))
GraphPairs(ids) == FilterOrphans(UNION {Links[u] : u \in ids}, GraphTitles(ids))
GraphEntity(ids, m) ==
    [id |-> None, title |-> m[1], type |-> m[2], units |-> {u \in ids : m \in Mentions[u]}]
GraphRelationship(ids, p) ==
    [id |-> None, source |-> p[1], target |-> p[2], units |-> {u \in ids : p \in Links[u]}]
KeyedEntity(e) == [e EXCEPT !.id = <<runs, e.title>>]
KeyedRelationship(r) == [r EXCEPT !.id = <<runs, r.source, r.target>>]
FinalUnit(u, entities, relationships, claims) ==
    [u EXCEPT !.entities = RefsTo(entities, u.id),
              !.relationships = RefsTo(relationships, u.id),
              !.covariates = {c.id : c \in {c \in claims : c.unit = u.id}}]
ReportRow(c) == [id |-> <<runs, c.number>>, number |-> c.number, parent |-> c.parent]

LEMMA LinksDocuments ==
  ASSUME NEW V, NEW S, SameBut(V, S, {"documents"}), "documents" \in DOMAIN V,
         "text_units" \in DOMAIN S,
         V["documents"] = FinalDocuments(S["documents"], S["text_units"])
  PROVE  Linked(V, 3, runs)
  <1>1. "text_units" \in DOMAIN V /\ V["text_units"] = S["text_units"]
    BY DEF SameBut
  <1>2. \A d : UnitsOf(S["text_units"], d) \subseteq Units(V)
    BY <1>1 DEF UnitsOf, Units, Column
  <1>3. WithinUnits(V["documents"], Units(V))
    BY <1>2 DEF FinalDocuments, WithinUnits
  <1> QED
    BY <1>1, <1>3 DEF Linked, DocumentsLinked

LEMMA LinksGraph ==
  ASSUME NEW V, NEW S, SameBut(V, S, {"entities", "relationships"}),
         {"entities", "relationships"} \subseteq DOMAIN V, Linked(S, 3, runs),
         V["entities"] = {GraphEntity(Units(S), m) : m \in GraphMentions(Units(S))},
         V["relationships"] = {GraphRelationship(Units(S), p) : p \in GraphPairs(Units(S))}
  PROVE  Linked(V, 4, runs)
  <1> DEFINE ids == Units(S)
             E == V["entities"]
             R == V["relationships"]
  <1>1. DocumentsLinked(S) /\ "text_units" \in DOMAIN S
    BY DEF Linked, DocumentsLinked
  <1>2. DocumentsLinked(V)
    BY <1>1, LinksStay
  <1>3. "text_units" \in DOMAIN V /\ Units(V) = ids
    BY <1>1 DEF SameBut, Units
  <1>4. \A e \in E : \E m \in GraphMentions(ids) : e = GraphEntity(ids, m)
    OBVIOUS
  <1>5. \A r \in R : \E p \in GraphPairs(ids) : r = GraphRelationship(ids, p)
    OBVIOUS
  <1>6. /\ \A m : GraphEntity(ids, m).title = m[1] /\ GraphEntity(ids, m).units \subseteq ids
        /\ \A p : /\ GraphRelationship(ids, p).source = p[1]
                  /\ GraphRelationship(ids, p).target = p[2]
                  /\ GraphRelationship(ids, p).units \subseteq ids
    BY DEF GraphEntity, GraphRelationship
  <1>7. EntityTitles(V) = GraphTitles(ids)
    <2> DEFINE M == GraphMentions(ids)
               X == GraphTitles(ids)
    <2>1. \A m \in M : GraphEntity(ids, m) \in E
      OBVIOUS
    <2>2. X = {m[1] : m \in M}
      BY DEF GraphTitles, TitlesIn
    <2> HIDE DEF E, ids, X, M
    <2>4. /\ \A e \in E : e["title"] \in X
          /\ \A t \in X : \E e \in E : e["title"] = t
      BY <1>4, <1>6, <2>1, <2>2 DEF M
    <2>3. Column(E, "title") = X
      BY <2>4, Zenon DEF Column
    <2> QED
      BY <2>3 DEF EntityTitles, E, X
  <1> HIDE DEF ids, E, R
  <1>8. \A p \in GraphPairs(ids) : {p[1], p[2]} \subseteq GraphTitles(ids)
    BY DEF GraphPairs, FilterOrphans
  <1>9. WithinUnits(E, ids)
    BY <1>4, <1>6 DEF WithinUnits
  <1>10. WithinUnits(R, ids) /\ EndsKnown(R, GraphTitles(ids))
    BY <1>5, <1>6, <1>8 DEF WithinUnits, EndsKnown
  <1>11. GraphLinked(V)
    BY <1>3, <1>7, <1>9, <1>10 DEF GraphLinked, E, R
  <1> QED
    BY <1>2, <1>11 DEF Linked

\* The first rows of the titles; they keep their titles, ends and units.
LEMMA LinksNames ==
  ASSUME NEW V, NEW S, SameBut(V, S, {"entities", "relationships"}),
         {"entities", "relationships"} \subseteq DOMAIN V, Linked(S, 4, runs), runs \in 0..MaxRuns,
         Formed("entities", S["entities"]), Formed("relationships", S["relationships"]),
         NEW kept \in FirstRows(S["entities"]), V["entities"] = {KeyedEntity(e) : e \in kept},
         V["relationships"] = {KeyedRelationship(r) : r \in S["relationships"]}
  PROVE  Linked(V, 5, runs)
  <1> DEFINE E == kept
             R == S["relationships"]
             F == V["entities"]
             Q == V["relationships"]
             ids == Units(S)
             id(e) == <<runs, e.title>>
  <1>1. DocumentsLinked(S) /\ GraphLinked(S)
    BY DEF Linked
  <1>2. DocumentsLinked(V)
    BY <1>1, LinksStay
  <1>20. E \subseteq S["entities"] /\ Unique(E, "title")
         /\ Column(E, "title") = Column(S["entities"], "title")
    BY FirstRowsAre
  <1>3. /\ WithinUnits(E, ids) /\ WithinUnits(R, ids)
        /\ EndsKnown(R, Column(E, "title")) /\ Unique(E, "title")
    BY <1>1, <1>20 DEF GraphLinked, EntityTitles, WithinUnits
  <1>4. "text_units" \in DOMAIN V /\ Units(V) = ids
    BY <1>1 DEF SameBut, Units, GraphLinked
  <1>5. \A e \in E : /\ KeyedEntity(e).id = id(e) /\ KeyedEntity(e).title = e.title
                     /\ KeyedEntity(e).units = e.units /\ e.title \in Titles
    BY <1>20 DEF KeyedEntity, Formed, FormedEntity
  <1>6. \A r \in R : /\ KeyedRelationship(r).source = r.source
                     /\ KeyedRelationship(r).target = r.target
                     /\ KeyedRelationship(r).units = r.units
                     /\ KeyedRelationship(r).id = <<runs, r.source, r.target>>
    BY DEF KeyedRelationship, Formed, FormedRelationship
  <1>7. F = {KeyedEntity(e) : e \in E} /\ Q = {KeyedRelationship(r) : r \in R}
    OBVIOUS
  <1>8. \A e1, e2 : id(e1) = id(e2) => e1.title = e2.title
    OBVIOUS
  <1>9. \A e \in E : id(e) # None
    BY <1>5, NoneAssumption
  <1> HIDE DEF E, R, F, Q, ids, id
  <1>10. Column(F, "title") = Column(E, "title")
    BY <1>5, <1>7 DEF Column
  <1>11. WithinUnits(F, ids) /\ Named(F)
    BY <1>3, <1>5, <1>7, <1>9 DEF WithinUnits, Named
  <1>12. Keyed(F)
    BY <1>5, <1>7, <1>8 DEF Keyed
  <1>13. Unique(F, "title")
    <2> SUFFICES ASSUME NEW f1 \in F, NEW f2 \in F, f1["title"] = f2["title"] PROVE f1 = f2
      BY DEF Unique
    <2>1. PICK e1 \in E, e2 \in E : f1 = KeyedEntity(e1) /\ f2 = KeyedEntity(e2)
      BY <1>7
    <2>2. e1["title"] = e2["title"]
      BY <1>5, <2>1
    <2>3. e1 = e2
      BY <1>3, <2>2 DEF Unique
    <2> QED
      BY <2>1, <2>3
  <1>14. WithinUnits(Q, ids) /\ EndsKnown(Q, Column(F, "title"))
    <2>1. WithinUnits(Q, ids)
      BY <1>3, <1>6, <1>7 DEF WithinUnits
    <2>2. ASSUME NEW q \in Q PROVE {q.source, q.target} \subseteq Column(F, "title")
      <3>1. PICK r \in R : q = KeyedRelationship(r)
        BY <1>7
      <3>2. q.source = r.source /\ q.target = r.target
        BY <1>6, <3>1
      <3>3. {r.source, r.target} \subseteq Column(E, "title")
        BY <1>3 DEF EndsKnown
      <3> QED
        BY <1>10, <3>2, <3>3
    <2> QED
      BY <2>1, <2>2 DEF EndsKnown
  <1>16. EntitiesOf(F, runs)
    BY <1>5, <1>7 DEF EntitiesOf, id
  <1>17. PairsOf(Q, runs)
    BY <1>6, <1>7 DEF PairsOf
  <1>15. GraphLinked(V) /\ GraphNamed(V, runs)
    BY <1>4, <1>11, <1>12, <1>13, <1>14, <1>16, <1>17 DEF GraphLinked, GraphNamed, EntityTitles, F, Q
  <1> QED
    BY <1>2, <1>15 DEF Linked


\* The rows of the clusters that are kept: the parent of a cluster that is kept is
\* kept, for whatever is inside a child is inside its parent.
LEMMA CommunityLinks ==
  ASSUME NEW E, NEW R, NEW ids, Formed("relationships", R), WithinUnits(R, ids)
  PROVE  /\ Numbered(CommunityRows(E, R)) /\ WithinUnits(CommunityRows(E, R), ids)
         /\ \A c \in CommunityRows(E, R) :
                /\ CommunityFields \subseteq DOMAIN c
                /\ c.entities \subseteq Column(E, "id") /\ c.relationships \subseteq Column(R, "id")
  <1> DEFINE pairs == {<<r.source, r.target>> : r \in R}
             C == Clusters[pairs]
             Inside(i) == {r \in R : {r.source, r.target} \subseteq C[i].titles}
             Members(i) == {e \in E : e.title \in C[i].titles}
             units(i) == UNION Column(Inside(i), "units")
             row(i) == [number |-> i - 1, parent |-> C[i].parent,
                        entities |-> Column(Members(i), "id"),
                        relationships |-> Column(Inside(i), "id"), units |-> units(i)]
             K == {i \in DOMAIN C : Members(i) # {} /\ Inside(i) # {}}
             rows == {row(i) : i \in K}
  <1>1. CommunityRows(E, R) = rows
    BY DEF CommunityRows
  <1>2. \A i : /\ row(i).number = i - 1 /\ row(i).parent = C[i].parent /\ row(i).units = units(i)
               /\ CommunityFields \subseteq DOMAIN row(i)
    BY DEF CommunityFields
  <1>15. \A i : row(i).entities \subseteq Column(E, "id")
    BY DEF Column
  <1>16. \A i : row(i).relationships \subseteq Column(R, "id")
    BY DEF Column
  <1>3. \A i : units(i) \subseteq ids
    BY DEF Column, WithinUnits
  <1>4. \A i \in K : i \in DOMAIN C /\ Members(i) # {} /\ Inside(i) # {} /\ R # {}
    OBVIOUS
  <1>5. R # {} => pairs \in DOMAIN Clusters
    <2> SUFFICES ASSUME R # {} PROVE pairs \in DOMAIN Clusters
      OBVIOUS
    <2>1. pairs \in SUBSET Pairs /\ pairs # {}
      BY DEF Formed, FormedRelationship
    <2> HIDE DEF pairs
    <2> QED
      BY <2>1, ClusterAssumption DEF Pairs
  <1> HIDE DEF pairs
  <1>6. R # {} => \E n \in Nat : DOMAIN C = 1..n
    <2> SUFFICES ASSUME R # {} PROVE \E n \in Nat : DOMAIN C = 1..n
      OBVIOUS
    <2>1. C \in Seq([parent : {-1} \cup Nat, titles : SUBSET Titles])
      BY <1>5, ClusterAssumption
    <2> HIDE DEF C
    <2> QED
      BY <2>1, LenProperties
  <1>7. ASSUME NEW i \in K
        PROVE  /\ C[i].parent \in -1..(i - 2)
               /\ C[i].parent # -1 => C[i].titles \subseteq C[C[i].parent + 1].titles
    <2>1. pairs \in DOMAIN Clusters /\ i \in DOMAIN Clusters[pairs]
      BY <1>4, <1>5
    <2> QED
      BY <2>1, ClusterAssumption, IndexAssumption
  <1>8. \A i, q : C[i].titles \subseteq C[q].titles =>
                      Members(i) \subseteq Members(q) /\ Inside(i) \subseteq Inside(q)
    OBVIOUS
  <1>9. ASSUME NEW i \in K, C[i].parent # -1
        PROVE  C[i].parent + 1 \in K
    <2> DEFINE q == C[i].parent
    <2>1. PICK n \in Nat : DOMAIN C = 1..n
      BY <1>4, <1>6
    <2>2. i \in 1..n /\ q \in -1..(i - 2) /\ q # -1
      BY <1>4, <1>7, <1>9, <2>1
    <2>3. Members(i) # {} /\ Inside(i) # {}
      BY <1>4
    <2>4. Members(i) \subseteq Members(q + 1) /\ Inside(i) \subseteq Inside(q + 1)
      BY <1>7, <1>8, <1>9
    <2> HIDE DEF q
    <2>5. q + 1 \in 1..n
      BY <2>2
    <2> QED
      BY <2>1, <2>3, <2>4, <2>5 DEF q
  <1> HIDE DEF C, row, units, K
  <1>10. \A i \in K : i \in Int
    <2> SUFFICES ASSUME NEW i \in K PROVE i \in Int
      OBVIOUS
    <2>1. PICK n \in Nat : DOMAIN C = 1..n
      BY <1>4, <1>6
    <2> QED
      BY <1>4, <2>1
  <1>11. Unique(rows, "number")
    <2> SUFFICES ASSUME NEW i \in K, NEW j \in K, row(i)["number"] = row(j)["number"]
                 PROVE  row(i) = row(j)
      BY DEF Unique
    <2>1. i - 1 = j - 1 /\ i \in Int /\ j \in Int
      BY <1>2, <1>10
    <2>2. i = j
      BY <2>1
    <2> QED
      BY <2>2
  <1>12. Bounded(rows)
    <2>1. CASE K = {}
      <3>1. rows = {} /\ 0 \in Nat
        BY <2>1
      <3> HIDE DEF rows
      <3> QED
        BY <3>1 DEF Bounded
    <2>2. CASE K # {}
      <3>1. PICK n \in Nat : DOMAIN C = 1..n
        BY <1>4, <1>6, <2>2
      <3>2. \A i \in K : i - 1 \in 0..n
        BY <1>4, <3>1
      <3>3. \A c \in rows : c.number \in 0..n
        BY <1>2, <3>2
      <3> QED
        BY <3>3 DEF Bounded
    <2> QED
      BY <2>1, <2>2
  <1>13. \A c \in rows : c.parent \in Numbers(rows)
    <2> SUFFICES ASSUME NEW i \in K, C[i].parent # -1 PROVE C[i].parent \in Column(rows, "number")
      BY <1>2 DEF Numbers
    <2> DEFINE q == C[i].parent
    <2>1. q + 1 \in K /\ q \in -1..(i - 2) /\ i \in Int
      BY <1>7, <1>9, <1>10
    <2>2. row(q + 1) \in rows /\ row(q + 1)["number"] = (q + 1) - 1
      BY <1>2, <2>1
    <2>3. (q + 1) - 1 = q
      <3> HIDE DEF q
      <3> QED
        BY <2>1
    <2> HIDE DEF rows, q
    <2>4. q \in Column(rows, "number")
      BY <2>2, <2>3 DEF Column
    <2> QED
      BY <2>4 DEF q
  <1>14. WithinUnits(rows, ids)
    BY <1>2, <1>3 DEF WithinUnits
  <1>17. \A c \in rows :
             /\ CommunityFields \subseteq DOMAIN c
             /\ c.entities \subseteq Column(E, "id") /\ c.relationships \subseteq Column(R, "id")
    BY <1>2, <1>15, <1>16
  <1> QED
    BY <1>1, <1>11, <1>12, <1>13, <1>14, <1>17 DEF Numbered

LEMMA LinksCommunities ==
  ASSUME NEW V, NEW S, SameBut(V, S, {"communities"}), "communities" \in DOMAIN V, Linked(S, 6, runs),
         Formed("relationships", S["relationships"]),
         V["communities"] = CommunityRows(S["entities"], S["relationships"])
  PROVE  Linked(V, 7, runs)
  <1>1. DocumentsLinked(S) /\ GraphLinked(S) /\ GraphNamed(S, runs)
    BY DEF Linked
  <1>2. {"entities", "relationships", "text_units"} \subseteq DOMAIN S
    BY <1>1 DEF GraphLinked
  <1>3. DocumentsLinked(V) /\ GraphLinked(V) /\ GraphNamed(V, runs)
    BY <1>1, <1>2, LinksStay
  <1>4. Units(V) = Units(S) /\ EntityIds(V) = EntityIds(S) /\ PairIds(V) = PairIds(S)
    BY <1>2 DEF SameBut, Units, EntityIds, PairIds
  <1>5. WithinUnits(S["relationships"], Units(S))
    BY <1>1 DEF GraphLinked
  <1> DEFINE rows == V["communities"]
             ids == Units(S)
  <1>6. /\ Numbered(rows) /\ WithinUnits(rows, ids)
        /\ \A c \in rows : c.entities \subseteq EntityIds(S) /\ c.relationships \subseteq PairIds(S)
    BY <1>5, CommunityLinks DEF EntityIds, PairIds
  <1> HIDE DEF ids
  <1>7. CommunitiesLinked(V) /\ MembersLinked(V)
    BY <1>4, <1>6 DEF CommunitiesLinked, MembersLinked, ids
  <1> QED
    BY <1>3, <1>7 DEF Linked

LEMMA LinksUnits ==
  ASSUME NEW V, NEW S, NEW claims, SameBut(V, S, {"text_units"}), "text_units" \in DOMAIN V,
         Linked(S, 7, runs), Formed("text_units", S["text_units"]),
         Column(claims, "id") \subseteq ClaimIds(S),
         V["text_units"] = {FinalUnit(u, S["entities"], S["relationships"], claims) :
                                u \in S["text_units"]}
  PROVE  Linked(V, 8, runs)
  <1> DEFINE row(u) == FinalUnit(u, S["entities"], S["relationships"], claims)
             U == S["text_units"]
             ids == EntityIds(S)
             pairs == PairIds(S)
             F == V["text_units"]
  <1>1. /\ DocumentsLinked(S) /\ GraphLinked(S) /\ GraphNamed(S, runs)
        /\ CommunitiesLinked(S) /\ MembersLinked(S)
    BY DEF Linked
  <1>2. /\ {"documents", "entities", "relationships", "communities"} \subseteq DOMAIN S
        /\ \A n \in {"documents", "entities", "relationships", "communities"} :
               n \in DOMAIN V /\ V[n] = S[n]
    BY <1>1 DEF SameBut, DocumentsLinked, GraphLinked, CommunitiesLinked
  <1>3. \A u \in U : /\ row(u)["id"] = u["id"]
                     /\ row(u).entities = RefsTo(S["entities"], u.id)
                     /\ row(u).relationships = RefsTo(S["relationships"], u.id)
                     /\ row(u).covariates = {c.id : c \in {c \in claims : c.unit = u.id}}
    BY DEF FinalUnit, Formed, FormedUnit, UnitFields
  <1>4. \A u : RefsTo(S["entities"], u) \subseteq ids /\ RefsTo(S["relationships"], u) \subseteq pairs
    BY DEF RefsTo, Column, EntityIds, PairIds
  <1>10. \A u : {c.id : c \in {c \in claims : c.unit = u}} \subseteq ClaimIds(S)
    BY DEF Column
  <1>5. F = {row(u) : u \in U}
    OBVIOUS
  <1> HIDE DEF row, U, ids, pairs, F
  <1>6. Column(F, "id") = Column(U, "id")
    BY <1>3, <1>5 DEF Column
  <1>11. NamesEntities(F, ids) /\ NamesPairs(F, pairs)
    BY <1>3, <1>4, <1>5 DEF NamesEntities, NamesPairs
  <1>12. NamesClaims(F, ClaimIds(S))
    BY <1>3, <1>10, <1>5 DEF NamesClaims
  <1>13. ClaimIds(V) = ClaimIds(S)
    BY DEF SameBut, ClaimIds
  <1>7. /\ Units(V) = Units(S) /\ EntityTitles(V) = EntityTitles(S)
        /\ EntityIds(V) = ids /\ PairIds(V) = pairs
    BY <1>2, <1>6 DEF Units, EntityTitles, EntityIds, PairIds, F, U, ids, pairs
  <1>8. /\ DocumentsLinked(V) /\ GraphLinked(V) /\ GraphNamed(V, runs)
        /\ CommunitiesLinked(V) /\ MembersLinked(V)
    <2>1. DocumentsLinked(V) /\ GraphLinked(V)
      BY <1>1, <1>2, <1>7 DEF DocumentsLinked, GraphLinked
    <2>2. GraphNamed(V, runs)
      BY <1>1, <1>2 DEF GraphNamed
    <2>3. CommunitiesLinked(V) /\ MembersLinked(V)
      BY <1>1, <1>2, <1>7 DEF CommunitiesLinked, MembersLinked, ids, pairs
    <2> QED
      BY <2>1, <2>2, <2>3
  <1>9. UnitsLinked(V) /\ PairsLinked(V)
    BY <1>7, <1>11, <1>12, <1>13 DEF UnitsLinked, PairsLinked, F
  <1> QED
    BY <1>8, <1>9 DEF Linked

LEMMA LinksReports ==
  ASSUME NEW V, NEW S, NEW lost, SameBut(V, S, {"community_reports"}),
         "community_reports" \in DOMAIN V, Linked(S, 8, runs),
         V["community_reports"] = {ReportRow(c) : c \in {c \in S["communities"] : c.number \notin lost}}
  PROVE  Linked(V, 9, runs)
  <1>1. /\ DocumentsLinked(S) /\ GraphLinked(S) /\ GraphNamed(S, runs) /\ CommunitiesLinked(S)
        /\ MembersLinked(S) /\ UnitsLinked(S) /\ PairsLinked(S)
    BY DEF Linked
  <1>2. {"text_units", "entities", "relationships", "communities"} \subseteq DOMAIN S
    BY <1>1 DEF GraphLinked, CommunitiesLinked
  <1>3. /\ DocumentsLinked(V) /\ GraphLinked(V) /\ GraphNamed(V, runs) /\ CommunitiesLinked(V)
        /\ MembersLinked(V) /\ UnitsLinked(V) /\ PairsLinked(V)
    <2>1. DocumentsLinked(V) /\ GraphLinked(V) /\ GraphNamed(V, runs)
      BY <1>1, <1>2, LinksStay
    <2>2. CommunitiesLinked(V) /\ MembersLinked(V)
      BY <1>1, <1>2, LinksStay
    <2>3. UnitsLinked(V) /\ PairsLinked(V)
      BY <1>1, <1>2, LinksStay
    <2> QED
      BY <2>1, <2>2, <2>3
  <1> DEFINE C == S["communities"]
  <1>4. V["communities"] = C
    BY <1>2 DEF SameBut
  <1>5. \A c \in C : {c.number, c.parent} \subseteq Numbers(C)
    <2>1. \A c \in C : c.parent \in Numbers(C)
      BY <1>1 DEF CommunitiesLinked, Numbered
    <2>2. \A c \in C : c.number \in Numbers(C)
      BY DEF Numbers, Column
    <2> QED
      BY <2>1, <2>2
  <1>6. \A c : ReportRow(c).number = c.number /\ ReportRow(c).parent = c.parent
    BY DEF ReportRow
  <1>7. Reports(V["community_reports"], C)
    BY <1>5, <1>6 DEF Reports
  <1> QED
    BY <1>3, <1>4, <1>7 DEF Linked, ReportsLinked
-----------------------------------------------------------------------------
\* What a merge makes of rows that are linked.
LEMMA MaxIsBound ==
  ASSUME NEW S \in SUBSET Nat, S # {}, NEW b \in Nat, \A x \in S : x <= b
  PROVE  Max(S) \in S /\ \A x \in S : x <= Max(S)
  <1> DEFINE U == {u \in Nat : \A x \in S : x <= u}
             R == OpToRel(<, Nat)
  <1>1. \A x, y \in Nat : x < y => <<x, y>> \in R
    BY DEF OpToRel
  <1> HIDE DEF R
  <1>2. IsWellFoundedOn(R, Nat)
    BY NatLessThanWellFounded DEF R
  <1>3. U \subseteq Nat /\ U # {}
    OBVIOUS
  <1>4. PICK m \in U : \A y \in U : ~(<<y, m>> \in R)
    <2> HIDE DEF U
    <2> QED
      BY <1>2, <1>3, WFMin
  <1>5. m \in Nat /\ \A x \in S : x <= m
    BY <1>4
  <1>6. m \in S
    <2> SUFFICES ASSUME m \notin S PROVE FALSE
      OBVIOUS
    <2>1. \A x \in S : x <= m - 1
      BY <1>5
    <2>2. m - 1 \in Nat
      <3>1. PICK x \in S : x \in Nat /\ x <= m - 1
        BY <2>1
      <3> QED
        BY <1>5, <3>1
    <2>3. m - 1 \in U
      BY <2>1, <2>2
    <2>4. <<m - 1, m>> \in R
      BY <1>1, <1>5, <2>2
    <2> QED
      BY <1>4, <2>3, <2>4
  <1>7. \E x \in S : \A y \in S : x >= y
    BY <1>5, <1>6
  <1> QED
    BY <1>7 DEF Max

\* The merged row of a title or of a pair.
MergedRow(rows, old) == [First(rows, old) EXCEPT !.units = UNION Column(rows, "units")]

LEMMA MergedRowIs ==
  ASSUME NEW rows, rows # {}, NEW old, \A row \in rows : "units" \in DOMAIN row
  PROVE  /\ MergedRow(rows, old).units = UNION Column(rows, "units")
         /\ \E row \in rows : /\ DOMAIN MergedRow(rows, old) = DOMAIN row
                              /\ \A field \in DOMAIN row \ {"units"} :
                                     MergedRow(rows, old)[field] = row[field]
                              /\ rows \cap old # {} => row \in old
  <1> DEFINE row == First(rows, old)
             merged == MergedRow(rows, old)
             units == UNION Column(rows, "units")
  <1>1. row \in rows
    BY FirstRow
  <1>2. rows \cap old # {} => row \in old
    BY DEF First
  <1>3. merged = [row EXCEPT !.units = units] /\ "units" \in DOMAIN row
    BY <1>1 DEF MergedRow
  <1> HIDE DEF row, merged, units
  <1>4. /\ merged.units = units /\ DOMAIN merged = DOMAIN row
        /\ \A field \in DOMAIN row \ {"units"} : merged[field] = row[field]
    BY <1>3
  <1> QED
    BY <1>1, <1>2, <1>4 DEF row, merged, units

\* A merged row M has the id of one of its rows, an old one if there is one.
EntitiesGo(P, D, M) ==
    /\ \A m \in M : \E e \in P \cup D : m.id = e.id /\ m.title = e.title
    /\ \A e \in P \cup D : \E m \in M, o \in P \cup D :
           /\ m.title = e.title /\ o.title = e.title /\ m.id = o.id
           /\ e.title \in Column(P, "title") => o \in P
PairsGo(P, D, M, titles) ==
    /\ \A m \in M : \E r \in P \cup D : m.id = r.id /\ SamePair(m, r)
    /\ \A m1, m2 \in M : SamePair(m1, m2) => m1 = m2
    /\ \A r \in P \cup D : {r.source, r.target} \subseteq titles =>
           \E m \in M, o \in P \cup D :
               /\ SamePair(m, r) /\ SamePair(o, r) /\ m.id = o.id
               /\ (\E q \in P : SamePair(q, r)) => o \in P

LEMMA EntitiesMerge ==
  ASSUME NEW P, NEW D, Formed("entities", P), Formed("entities", D),
         NEW M, M = MergeEntities(P, D)
  PROVE  /\ Formed("entities", M) /\ Unique(M, "title")
         /\ EntitiesGo(P, D, M)
         /\ Named(P) /\ Named(D) => Named(M)
         /\ \A units : WithinUnits(P, units) /\ WithinUnits(D, units) => WithinUnits(M, units)
         /\ Unique(P, "title") => Column(P, "id") \subseteq Column(M, "id")
         /\ Unique(P, "title") /\ Unique(D, "title") /\ Keyed(D) =>
                \A x \in Column(D, "id") : Mapped(EntityMap(P, D), x) \in Column(M, "id")
  <1> DEFINE rows(t) == {e \in P \cup D : e.title = t}
             row(t) == MergedRow(rows(t), P)
             T == Column(P \cup D, "title")
  <1>1. M = {row(t) : t \in T}
    BY DEF MergeEntities, MergedRow
  <1>2. \A e \in P \cup D : {"id", "title", "units"} \subseteq DOMAIN e /\ e.title \in Titles
    BY DEF Formed, FormedEntity
  <1>3. \A t \in T : rows(t) # {}
    BY DEF Column
  <1>4. ASSUME NEW t \in T
        PROVE  /\ row(t).units = UNION Column(rows(t), "units")
               /\ \E e \in rows(t) : /\ {"id", "title", "units"} \subseteq DOMAIN row(t)
                                     /\ row(t).id = e.id /\ row(t).title = t
                                     /\ rows(t) \cap P # {} => e \in P
    <2>1. rows(t) # {} /\ \A e \in rows(t) : "units" \in DOMAIN e
      BY <1>2, <1>3
    <2>2. \A e \in rows(t) : {"id", "title", "units"} \subseteq DOMAIN e /\ e.title = t
      BY <1>2
    <2> HIDE DEF rows
    <2>3. /\ row(t).units = UNION Column(rows(t), "units")
          /\ \E e \in rows(t) : /\ DOMAIN row(t) = DOMAIN e
                                /\ \A field \in DOMAIN e \ {"units"} : row(t)[field] = e[field]
                                /\ rows(t) \cap P # {} => e \in P
      BY <2>1, MergedRowIs
    <2> HIDE DEF row
    <2>4. PICK e \in rows(t) : /\ DOMAIN row(t) = DOMAIN e
                               /\ \A field \in DOMAIN e \ {"units"} : row(t)[field] = e[field]
                               /\ rows(t) \cap P # {} => e \in P
      BY <2>3
    <2>5. row(t)["id"] = e["id"] /\ row(t)["title"] = e["title"]
      BY <2>2, <2>4
    <2> QED
      BY <2>2, <2>3, <2>4, <2>5
  <1>5. \A t \in T : \A e \in rows(t) : e \in P \cup D /\ e.title = t
    OBVIOUS
  <1>6. \A e \in P \cup D : e.title \in T /\ e \in rows(e.title)
    BY DEF Column
  <1> HIDE DEF rows, row, T
  <1>7. \A t \in T : row(t) \in M /\ row(t)["id"] \in Column(M, "id")
    BY <1>1 DEF Column
  <1>8. Formed("entities", M)
    <2>1. ASSUME NEW t \in T PROVE FormedEntity(row(t))
      BY <1>2, <1>4, <1>5 DEF FormedEntity
    <2> QED
      BY <1>1, <2>1 DEF Formed
  <1>9. Unique(M, "title")
    BY <1>1, <1>4 DEF Unique
  <1>16. EntitiesGo(P, D, M)
    <2>1. ASSUME NEW m \in M PROVE \E e \in P \cup D : m.id = e.id /\ m.title = e.title
      BY <1>1, <1>4, <1>5
    <2>2. ASSUME NEW e \in P \cup D
          PROVE  \E m \in M, o \in P \cup D :
                     /\ m.title = e.title /\ o.title = e.title /\ m.id = o.id
                     /\ e.title \in Column(P, "title") => o \in P
      <3>1. e.title \in T /\ row(e.title) \in M
        BY <1>6, <1>7
      <3>2. PICK o \in rows(e.title) : /\ row(e.title).id = o.id /\ row(e.title).title = e.title
                                       /\ rows(e.title) \cap P # {} => o \in P
        BY <1>4, <3>1
      <3>3. o \in P \cup D /\ o.title = e.title
        BY <1>5, <3>1, <3>2
      <3>4. e.title \in Column(P, "title") => rows(e.title) \cap P # {}
        BY <1>6 DEF Column
      <3> QED
        BY <3>1, <3>2, <3>3, <3>4
    <2> QED
      BY <2>1, <2>2 DEF EntitiesGo
  <1>10. Named(P) /\ Named(D) => Named(M)
    BY <1>1, <1>4, <1>5 DEF Named
  <1>11. ASSUME NEW units, WithinUnits(P, units), WithinUnits(D, units)
         PROVE  WithinUnits(M, units)
    <2>1. ASSUME NEW t \in T PROVE row(t).units \subseteq units
      <3>1. \A e \in rows(t) : e["units"] \subseteq units
        BY <1>5, <1>11 DEF WithinUnits
      <3>2. UNION Column(rows(t), "units") \subseteq units
        BY <3>1 DEF Column
      <3> QED
        BY <1>4, <3>2
    <2> QED
      BY <1>1, <2>1 DEF WithinUnits
  <1>12. ASSUME Unique(P, "title"), NEW e \in P
         PROVE  e["id"] \in Column(M, "id")
    <2>1. e.title \in T /\ e \in rows(e.title)
      BY <1>6
    <2>2. PICK o \in rows(e.title) : row(e.title).id = o.id /\ o \in P
      BY <1>4, <2>1
    <2>3. o["title"] = e["title"]
      BY <1>5, <2>1, <2>2
    <2>4. o = e
      BY <1>12, <2>2, <2>3 DEF Unique
    <2> QED
      BY <1>7, <2>1, <2>2, <2>4
  <1>13. ASSUME Unique(P, "title"), Unique(D, "title"), Keyed(D), NEW e \in D
         PROVE  Mapped(EntityMap(P, D), e["id"]) \in Column(M, "id")
    <2> DEFINE x == e["id"]
               map == EntityMap(P, D)
    <2>1. x \in DOMAIN map <=> e.title \in Column(P, "title")
      <3>1. DOMAIN map = {f.id : f \in {f \in D : f.title \in Column(P, "title")}}
        BY DEF EntityMap
      <3>2. \A f \in D : f.id = e.id => f.title = e.title
        BY <1>13 DEF Keyed
      <3> HIDE DEF map
      <3> QED
        BY <3>1, <3>2
    <2>2. CASE e.title \in Column(P, "title")
      <3> DEFINE f == CHOOSE f \in D : f.id = x
                 o == CHOOSE o \in P : o.title = f.title
      <3>1. map[x] = o.id
        <4>1. x \in {g.id : g \in {g \in D : g.title \in Column(P, "title")}}
          BY <2>2
        <4> QED
          BY <4>1 DEF EntityMap
      <3>2. f \in D /\ f.id = x
        OBVIOUS
      <3>3. f.title = e.title
        <4> HIDE DEF f
        <4> QED
          BY <1>13, <3>2 DEF Keyed
      <3>4. \E g \in P : g.title = f.title
        <4> HIDE DEF f
        <4> QED
          BY <2>2, <3>3 DEF Column
      <3>5. o \in P
        <4> HIDE DEF f
        <4> QED
          BY <3>4
      <3> HIDE DEF o, f, map, x
      <3>6. Mapped(map, x) = o["id"]
        BY <2>1, <2>2, <3>1 DEF Mapped
      <3> QED
        BY <1>12, <1>13, <3>5, <3>6 DEF x, map
    <2>3. CASE e.title \notin Column(P, "title")
      <3>1. Mapped(map, x) = x
        BY <2>1, <2>3 DEF Mapped
      <3>2. PICK g \in rows(e.title) : row(e.title).id = g.id
        BY <1>4, <1>6
      <3>3. g \in P \cup D /\ g.title = e.title
        BY <1>5, <1>6, <3>2
      <3>4. g \in D
        BY <2>3, <3>3 DEF Column
      <3>5. g = e
        BY <1>13, <3>3, <3>4 DEF Unique
      <3>6. e["id"] \in Column(M, "id")
        BY <1>6, <1>7, <3>2, <3>5
      <3> QED
        BY <3>1, <3>6
    <2> QED
      BY <2>2, <2>3
  <1>14. Unique(P, "title") => Column(P, "id") \subseteq Column(M, "id")
    BY <1>12 DEF Column
  <1>15. Unique(P, "title") /\ Unique(D, "title") /\ Keyed(D) =>
             \A x \in Column(D, "id") : Mapped(EntityMap(P, D), x) \in Column(M, "id")
    <2> SUFFICES ASSUME Unique(P, "title"), Unique(D, "title"), Keyed(D),
                        NEW x \in Column(D, "id")
                 PROVE  Mapped(EntityMap(P, D), x) \in Column(M, "id")
      OBVIOUS
    <2>1. PICK e \in D : x = e["id"]
      BY DEF Column
    <2> QED
      BY <1>13, <2>1
  <1> QED
    BY <1>8, <1>9, <1>10, <1>11, <1>14, <1>15, <1>16


LEMMA RelationshipsMerge ==
  ASSUME NEW P, NEW D, Formed("relationships", P), Formed("relationships", D), NEW titles,
         NEW M, M = MergeRelationships(P, D, titles)
  PROVE  /\ Formed("relationships", M) /\ EndsKnown(M, titles) /\ PairsGo(P, D, M, titles)
         /\ \A units : WithinUnits(P, units) /\ WithinUnits(D, units) => WithinUnits(M, units)
  <1> DEFINE rows(p) == {r \in P \cup D : r.source = p[1] /\ r.target = p[2]}
             row(p) == MergedRow(rows(p), P)
             A == {<<r.source, r.target>> : r \in P \cup D}
             K == FilterOrphans(A, titles)
  <1>1. M = {row(p) : p \in K}
    BY DEF MergeRelationships, MergedRow
  <1>2. \A r \in P \cup D : /\ {"id", "source", "target", "units"} \subseteq DOMAIN r
                            /\ <<r.source, r.target>> \in Pairs
    BY DEF Formed, FormedRelationship
  <1>3. \A p \in K : p \in A /\ {p[1], p[2]} \subseteq titles
    BY DEF FilterOrphans
  <1>4. \A p \in A : rows(p) # {} /\ p = <<p[1], p[2]>>
    OBVIOUS
  <1>5. ASSUME NEW p \in K
        PROVE  /\ row(p).units = UNION Column(rows(p), "units")
               /\ {"id", "source", "target", "units"} \subseteq DOMAIN row(p)
               /\ row(p).source = p[1] /\ row(p).target = p[2]
               /\ \E r \in rows(p) : row(p).id = r.id /\ (rows(p) \cap P # {} => r \in P)
    <2>1. rows(p) # {} /\ \A r \in rows(p) : "units" \in DOMAIN r
      BY <1>2, <1>3, <1>4
    <2>2. \A r \in rows(p) : /\ {"id", "source", "target", "units"} \subseteq DOMAIN r
                             /\ r.source = p[1] /\ r.target = p[2]
      BY <1>2
    <2> HIDE DEF rows
    <2>3. /\ row(p).units = UNION Column(rows(p), "units")
          /\ \E r \in rows(p) : /\ DOMAIN row(p) = DOMAIN r
                                /\ \A field \in DOMAIN r \ {"units"} : row(p)[field] = r[field]
                                /\ rows(p) \cap P # {} => r \in P
      BY <2>1, MergedRowIs
    <2> HIDE DEF row
    <2>4. PICK r \in rows(p) : /\ DOMAIN row(p) = DOMAIN r
                               /\ \A field \in DOMAIN r \ {"units"} : row(p)[field] = r[field]
                               /\ rows(p) \cap P # {} => r \in P
      BY <2>3
    <2>5. /\ row(p)["source"] = r["source"] /\ row(p)["target"] = r["target"]
          /\ row(p)["id"] = r["id"]
      BY <2>2, <2>4
    <2> QED
      BY <2>2, <2>3, <2>4, <2>5
  <1>6. \A p : rows(p) \subseteq P \cup D
    OBVIOUS
  <1>11. \A p : \A r \in rows(p) : r.source = p[1] /\ r.target = p[2]
    OBVIOUS
  <1>12. \A r, q \in P \cup D : SamePair(q, r) => q \in rows(<<r.source, r.target>>)
    BY DEF SamePair
  <1>13. \A r \in P \cup D : /\ {r.source, r.target} \subseteq titles
                            => <<r.source, r.target>> \in K
    BY DEF FilterOrphans
  <1>7. \A p \in A : p \in Pairs
    BY <1>2
  <1> HIDE DEF rows, row, A, K
  <1>8. Formed("relationships", M)
    <2>1. ASSUME NEW p \in K PROVE FormedRelationship(row(p))
      <3>1. <<row(p).source, row(p).target>> = p
        BY <1>3, <1>4, <1>5
      <3> QED
        BY <1>3, <1>5, <1>7, <3>1 DEF FormedRelationship
    <2> QED
      BY <1>1, <2>1 DEF Formed
  <1>9. EndsKnown(M, titles)
    BY <1>1, <1>3, <1>5 DEF EndsKnown
  <1>14. PairsGo(P, D, M, titles)
    <2>1. ASSUME NEW m \in M PROVE \E r \in P \cup D : m.id = r.id /\ SamePair(m, r)
      <3>1. PICK p \in K : m = row(p)
        BY <1>1
      <3>2. PICK r \in rows(p) : row(p).id = r.id
        BY <1>5
      <3> QED
        BY <1>5, <1>6, <1>11, <3>1, <3>2 DEF SamePair
    <2>2. ASSUME NEW m1 \in M, NEW m2 \in M, SamePair(m1, m2) PROVE m1 = m2
      <3>1. PICK p \in K, q \in K : m1 = row(p) /\ m2 = row(q)
        BY <1>1
      <3>2. p[1] = q[1] /\ p[2] = q[2]
        BY <1>5, <2>2, <3>1 DEF SamePair
      <3>3. p = q
        BY <1>3, <1>4, <3>2
      <3> QED
        BY <3>1, <3>3
    <2>3. ASSUME NEW r \in P \cup D, {r.source, r.target} \subseteq titles
          PROVE  \E m \in M, o \in P \cup D :
                     /\ SamePair(m, r) /\ SamePair(o, r) /\ m.id = o.id
                     /\ (\E q \in P : SamePair(q, r)) => o \in P
      <3> DEFINE p == <<r.source, r.target>>
      <3>1. p \in K /\ row(p) \in M /\ p[1] = r.source /\ p[2] = r.target
        BY <1>1, <1>13, <2>3
      <3>2. (\E q \in P : SamePair(q, r)) => rows(p) \cap P # {}
        BY <1>12
      <3> HIDE DEF p
      <3>3. PICK o \in rows(p) : row(p).id = o.id /\ (rows(p) \cap P # {} => o \in P)
        BY <1>5, <3>1
      <3>4. o \in P \cup D /\ SamePair(o, r) /\ SamePair(row(p), r)
        BY <1>5, <1>6, <1>11, <3>1, <3>3 DEF SamePair
      <3> QED
        BY <3>1, <3>2, <3>3, <3>4
    <2> QED
      BY <2>1, <2>2, <2>3 DEF PairsGo
  <1>10. ASSUME NEW units, WithinUnits(P, units), WithinUnits(D, units)
         PROVE  WithinUnits(M, units)
    <2>1. ASSUME NEW p \in K PROVE row(p).units \subseteq units
      <3>1. \A r \in rows(p) : r["units"] \subseteq units
        BY <1>6, <1>10 DEF WithinUnits
      <3>2. UNION Column(rows(p), "units") \subseteq units
        BY <3>1 DEF Column
      <3> QED
        BY <1>5, <3>2
    <2> QED
      BY <1>1, <2>1 DEF WithinUnits
  <1> QED
    BY <1>8, <1>9, <1>10, <1>14

\* Every id of the old rows and of the new ones stands among the merged ones.
LEMMA EntitiesStand ==
  ASSUME NEW P, NEW D, NEW M, EntitiesGo(P, D, M), NEW n \in Nat,
         Unique(P, "title"), EntitiesBefore(P, n), EntitiesOf(D, n)
  PROVE  /\ EntitiesBefore(M, n + 1)
         /\ \A id : EntityIn(P, id) => EntityIn(M, id)
         /\ \A id \in Column(D, "id") : EntityIn(M, id)
  <1>1. \A e \in P : \E m \in Nat : m < n /\ e.id = <<m, e.title>>
    BY DEF EntitiesBefore
  <1>2. \A e \in D : e.id = <<n, e.title>>
    BY DEF EntitiesOf
  <1>3. \A m \in Nat : m < n => m < n + 1
    OBVIOUS
  <1>4. n < n + 1
    OBVIOUS
  <1>5. EntitiesBefore(M, n + 1)
    <2> SUFFICES ASSUME NEW m \in M PROVE \E k \in Nat : k < n + 1 /\ m.id = <<k, m.title>>
      BY DEF EntitiesBefore
    <2>1. PICK e \in P \cup D : m.id = e.id /\ m.title = e.title
      BY DEF EntitiesGo
    <2> QED
      BY <1>1, <1>2, <1>3, <1>4, <2>1
  <1>6. ASSUME NEW id, EntityIn(P, id) PROVE EntityIn(M, id)
    <2>1. PICK e \in P : e.id = id \/ (e.id[1] < id[1] /\ e.title = id[2])
      BY <1>6 DEF EntityIn
    <2>2. e["title"] \in Column(P, "title")
      BY DEF Column
    <2>3. PICK m \in M, o \in P : m.title = e.title /\ o["title"] = e["title"] /\ m.id = o.id
      BY <2>2 DEF EntitiesGo
    <2>4. o = e
      BY <2>3 DEF Unique
    <2> QED
      BY <2>1, <2>3, <2>4 DEF EntityIn
  <1>7. ASSUME NEW e \in D PROVE EntityIn(M, e["id"])
    <2>1. PICK m \in M, o \in P \cup D :
             /\ m.title = e.title /\ o.title = e.title /\ m.id = o.id
             /\ e.title \in Column(P, "title") => o \in P
      BY DEF EntitiesGo
    <2>4. e.id = <<n, e.title>> /\ m.id = o.id /\ m.title = e.title /\ o.title = e.title
      <3>1. e.id = <<n, e.title>>
        BY <1>2
      <3> QED
        BY <2>1, <3>1
    <2>2. CASE o \in D
      <3>1. o.id = <<n, o.title>>
        BY <1>2, <2>2
      <3>2. m.id = e["id"]
        BY <2>4, <3>1
      <3> QED
        BY <3>2 DEF EntityIn
    <2>3. CASE o \in P
      <3>1. PICK k \in Nat : k < n /\ o.id = <<k, o.title>>
        BY <1>1, <2>3
      <3>2. m.id = <<k, e.title>>
        BY <2>4, <3>1
      <3>3. m.id[1] = k /\ e["id"][1] = n /\ e["id"][2] = m.title
        BY <2>4, <3>2
      <3>4. m.id[1] < e["id"][1] /\ m.title = e["id"][2]
        BY <3>1, <3>3
      <3> QED
        BY <3>4 DEF EntityIn
    <2> QED
      BY <2>1, <2>2, <2>3
  <1> QED
    BY <1>5, <1>6, <1>7 DEF Column

LEMMA RelationshipsStand ==
  ASSUME NEW P, NEW D, NEW M, NEW titles, PairsGo(P, D, M, titles), NEW n \in Nat,
         EndsKnown(P, titles), EndsKnown(D, titles), PairsBefore(P, n), PairsOf(D, n)
  PROVE  /\ PairsBefore(M, n + 1)
         /\ \A id : PairIn(P, id) => PairIn(M, id)
         /\ \A id \in Column(D, "id") : PairIn(M, id)
  <1>1. \A r \in P : \E m \in Nat : m < n /\ r.id = <<m, r.source, r.target>>
    BY DEF PairsBefore
  <1>2. \A r \in D : r.id = <<n, r.source, r.target>>
    BY DEF PairsOf
  <1>3. \A m \in Nat : m < n => m < n + 1
    OBVIOUS
  <1>4. n < n + 1
    OBVIOUS
  <1>5. \A r \in P \cup D : {r.source, r.target} \subseteq titles
    BY DEF EndsKnown
  <1>6. ASSUME NEW m \in M PROVE \E k \in Nat : k < n + 1 /\ m.id = <<k, m.source, m.target>>
    <2>1. PICK r \in P \cup D : m.id = r.id /\ SamePair(m, r)
      BY DEF PairsGo
    <2>2. m.source = r.source /\ m.target = r.target
      BY <2>1 DEF SamePair
    <2> QED
      BY <1>1, <1>2, <1>3, <1>4, <2>1, <2>2
  <1>7. PairsBefore(M, n + 1)
    <2>1. \A m1, m2 \in M : SamePair(m1, m2) => m1.id = m2.id
      BY DEF PairsGo
    <2> QED
      BY <1>6, <2>1 DEF PairsBefore
  <1>8. ASSUME NEW id, PairIn(P, id) PROVE PairIn(M, id)
    <2>1. PICK r \in P : r.id = id \/ (r.id[1] < id[1] /\ r.source = id[2] /\ r.target = id[3])
      BY <1>8 DEF PairIn
    <2>2. SamePair(r, r)
      BY DEF SamePair
    <2>3. PICK m \in M, o \in P : SamePair(m, r) /\ SamePair(o, r) /\ m.id = o.id
      BY <1>5, <2>2 DEF PairsGo
    <2>4. o.id = r.id
      BY <2>3 DEF PairsBefore
    <2> QED
      BY <2>1, <2>3, <2>4 DEF PairIn, SamePair
  <1>9. ASSUME NEW r \in D PROVE PairIn(M, r["id"])
    <2>1. PICK m \in M, o \in P \cup D : SamePair(m, r) /\ SamePair(o, r) /\ m.id = o.id
      BY <1>5 DEF PairsGo
    <2>2. /\ m.source = r.source /\ m.target = r.target
          /\ o.source = r.source /\ o.target = r.target
      BY <2>1 DEF SamePair
    <2>3. CASE o \in D
      BY <1>2, <2>1, <2>2, <2>3 DEF PairIn
    <2>4. CASE o \in P
      <3>1. PICK k \in Nat : k < n /\ o.id = <<k, o.source, o.target>>
        BY <1>1, <2>4
      <3>2. r.id = <<n, r.source, r.target>> /\ m.id = <<k, r.source, r.target>>
        BY <1>2, <2>1, <2>2, <3>1
      <3>3. m.id[1] = k /\ r.id[1] = n /\ r.id[2] = r.source /\ r.id[3] = r.target
        BY <3>2
      <3> QED
        BY <2>2, <3>1, <3>3 DEF PairIn
    <2> QED
      BY <2>1, <2>3, <2>4
  <1> QED
    BY <1>7, <1>8, <1>9 DEF Column

\* Text units keep their ids, and the ids of entities they name are mapped.
UnitsKept(M, P, D) ==
    \A u \in M : u \in P \/ \E d \in D : /\ u.relationships = d.relationships
                                        /\ u.covariates = d.covariates
LEMMA UnitsMerge ==
  ASSUME NEW P, NEW D, Formed("text_units", P), Formed("text_units", D), NEW map,
         NEW M, M = P \cup MapUnits(D, map)
  PROVE  /\ Formed("text_units", M)
         /\ Column(M, "id") = Column(P, "id") \cup Column(D, "id")
         /\ UnitsKept(M, P, D)
  <1> DEFINE row(u) == MapUnit(u, map)
  <1>1. M = P \cup {row(u) : u \in D}
    BY DEF MapUnits
  <1>2. \A u \in D : /\ FormedUnit(row(u)) /\ row(u)["id"] = u["id"]
                     /\ row(u).relationships = u.relationships /\ row(u).covariates = u.covariates
    BY DEF Formed, FormedUnit, UnitFields, MapUnit
  <1> HIDE DEF row
  <1>3. Formed("text_units", M)
    BY <1>1, <1>2 DEF Formed
  <1>4. Column(M, "id") = Column(P, "id") \cup Column(D, "id")
    BY <1>1, <1>2 DEF Column
  <1>5. UnitsKept(M, P, D)
    BY <1>1, <1>2 DEF UnitsKept
  <1> QED
    BY <1>3, <1>4, <1>5

LEMMA UnitsMapped ==
  ASSUME NEW P, NEW D, Formed("text_units", D), NEW map, NEW M, M = P \cup MapUnits(D, map),
         NEW ids, NEW old, NEW new, NamesEntities(P, old), old \subseteq ids,
         NamesEntities(D, new), \A x \in new : Mapped(map, x) \in ids
  PROVE  NamesEntities(M, ids)
  <1> DEFINE row(u) == MapUnit(u, map)
  <1>1. M = P \cup {row(u) : u \in D}
    BY DEF MapUnits
  <1>2. \A u \in D : row(u).entities = {Mapped(map, e) : e \in u.entities}
    BY DEF Formed, FormedUnit, UnitFields, MapUnit
  <1> HIDE DEF row
  <1>3. \A u \in P : u.entities \subseteq ids
    BY DEF NamesEntities
  <1>4. \A u \in D : row(u).entities \subseteq ids
    BY <1>2 DEF NamesEntities
  <1> QED
    BY <1>1, <1>3, <1>4 DEF NamesEntities

\* The numbers of the delta continue after the old ones.
LEMMA NumbersMerge ==
  ASSUME NEW P, NEW D, Numbered(P), Numbered(D),
         Formed("communities", P), Formed("communities", D),
         NEW map, map = CommunityMap(P, D), NEW M, M = P \cup Renumber(D, map), NEW units
  PROVE  /\ Numbered(M) /\ Formed("communities", M) /\ Numbers(P) \subseteq Numbers(M)
         /\ \A n \in Numbers(D) : Mapped(map, n) \in Numbers(M)
         /\ WithinUnits(P, units) /\ WithinUnits(D, units) => WithinUnits(M, units)
         /\ \A c \in M : c \in P \/ \E d \in D : /\ c.entities = d.entities
                                              /\ c.relationships = d.relationships
  <1> DEFINE b == Rebase(P)
             row(c) == [c EXCEPT !.number = Mapped(map, @), !.parent = Mapped(map, @)]
  <1>1. PICK n \in Nat : \A c \in P : c.number \in 0..n
    BY DEF Numbered, Bounded
  <1>2. PICK m \in Nat : \A c \in D : c.number \in 0..m
    BY DEF Numbered, Bounded
  <1>3. b \in Nat /\ \A c \in P : c.number < b
    <2> DEFINE S == Column(P, "number") \cup {0}
               x == Max(S)
    <2>1. S \in SUBSET Nat /\ S # {} /\ \A y \in S : y <= n
      BY <1>1 DEF Column
    <2>2. \A c \in P : c["number"] \in S
      BY DEF Column
    <2> HIDE DEF S
    <2>3. x \in S /\ \A y \in S : y <= x
      BY <2>1, MaxIsBound
    <2>4. b = x + 1
      BY DEF Rebase, S
    <2> HIDE DEF x, b
    <2>5. x \in Nat
      BY <2>1, <2>3
    <2>6. b \in Nat
      BY <2>4, <2>5
    <2>7. ASSUME NEW c \in P PROVE c.number < b
      <3>1. c["number"] \in Nat /\ c["number"] <= x
        BY <2>1, <2>2, <2>3
      <3> QED
        BY <2>4, <2>5, <3>1
    <2> QED
      BY <2>6, <2>7
  <1>4. \A k \in Column(D, "number") \cup {-1} : Mapped(map, k) = IF k = -1 THEN -1 ELSE k + b
    BY DEF CommunityMap, Mapped
  <1> HIDE DEF b
  <1>5. ASSUME NEW c \in D
        PROVE  /\ CommunityFields \subseteq DOMAIN row(c)
               /\ c.number \in 0..m /\ row(c).number = c.number + b
               /\ row(c).parent = Mapped(map, c.parent) /\ row(c).units = c.units
               /\ row(c).entities = c.entities /\ row(c).relationships = c.relationships
    <2>1. CommunityFields \subseteq DOMAIN c
      BY DEF Formed
    <2>2. /\ CommunityFields \subseteq DOMAIN row(c)
          /\ row(c).number = Mapped(map, c.number)
          /\ row(c).parent = Mapped(map, c.parent) /\ row(c).units = c.units
          /\ row(c).entities = c.entities /\ row(c).relationships = c.relationships
      BY <2>1 DEF CommunityFields
    <2>3. c.number \in 0..m /\ c["number"] \in Column(D, "number")
      BY <1>2 DEF Column
    <2> HIDE DEF row
    <2>4. c.number # -1
      BY <2>3
    <2> QED
      BY <1>4, <2>2, <2>3, <2>4
  <1>6. M = P \cup {row(c) : c \in D}
    BY DEF Renumber
  <1> HIDE DEF row
  <1>7. Formed("communities", M)
    BY <1>5, <1>6 DEF Formed
  <1>8. \A c \in M : (c \in P /\ c.number \in 0..n /\ c.number < b)
                     \/ \E d \in D : c = row(d) /\ d.number \in 0..m /\ c.number = d.number + b
    BY <1>1, <1>3, <1>5, <1>6
  <1>9. Bounded(M)
    <2> DEFINE k == n + m + b
    <2>1. k \in Nat
      BY <1>3
    <2>2. ASSUME NEW c \in M PROVE c.number \in 0..k
      <3>1. CASE c \in P /\ c.number \in 0..n
        BY <1>3, <3>1
      <3>2. ASSUME NEW d \in D, d.number \in 0..m, c.number = d.number + b
            PROVE  c.number \in 0..k
        BY <1>3, <3>2
      <3> QED
        BY <1>8, <3>1, <3>2
    <2> HIDE DEF k
    <2> QED
      BY <2>1, <2>2 DEF Bounded
  <1>10. Unique(M, "number")
    <2> SUFFICES ASSUME NEW c \in M, NEW d \in M, c["number"] = d["number"] PROVE c = d
      BY DEF Unique
    <2>1. CASE c \in P /\ d \in P
      BY <2>1 DEF Numbered, Unique
    <2>2. ASSUME NEW x \in D, NEW y \in D, c = row(x), d = row(y) PROVE c = d
      <3>1. x.number + b = y.number + b /\ x.number \in 0..m /\ y.number \in 0..m
        BY <1>5, <2>2
      <3>2. x.number = y.number
        BY <1>3, <3>1
      <3>3. x = y
        BY <3>2 DEF Numbered, Unique
      <3> QED
        BY <2>2, <3>3
    <2>3. \A x \in P, y \in D : x.number # row(y).number
      <3> SUFFICES ASSUME NEW x \in P, NEW y \in D PROVE x.number # row(y).number
        OBVIOUS
      <3>1. x.number \in 0..n /\ x.number < b /\ y.number \in 0..m /\ row(y).number = y.number + b
        BY <1>1, <1>3, <1>5
      <3> QED
        BY <1>3, <3>1
    <2> QED
      BY <1>6, <2>1, <2>2, <2>3
  <1>11. Numbers(P) \subseteq Numbers(M)
    BY <1>6 DEF Numbers, Column
  <1>12. ASSUME NEW k \in Numbers(D) PROVE Mapped(map, k) \in Numbers(M)
    <2>1. CASE k = -1
      BY <1>4, <2>1 DEF Numbers
    <2>2. CASE k # -1
      <3>1. PICK c \in D : k = c["number"]
        BY <2>2 DEF Numbers, Column
      <3>2. k \in Column(D, "number")
        BY <3>1 DEF Column
      <3>3. Mapped(map, k) = row(c)["number"]
        BY <1>4, <1>5, <2>2, <3>1, <3>2
      <3>4. row(c) \in M
        BY <1>6
      <3> QED
        BY <3>3, <3>4 DEF Numbers, Column
    <2> QED
      BY <2>1, <2>2
  <1>13. \A c \in M : c.parent \in Numbers(M)
    <2>1. /\ \A c \in P : c.parent \in Numbers(M)
          /\ \A c \in D : Mapped(map, c.parent) \in Numbers(M)
      BY <1>11, <1>12 DEF Numbered
    <2> QED
      BY <1>5, <1>6, <2>1
  <1>14. WithinUnits(P, units) /\ WithinUnits(D, units) => WithinUnits(M, units)
    BY <1>5, <1>6 DEF WithinUnits
  <1>15. \A c \in M : c \in P \/ \E d \in D : /\ c.entities = d.entities
                                               /\ c.relationships = d.relationships
    BY <1>5, <1>6
  <1> QED
    BY <1>7, <1>9, <1>10, <1>11, <1>12, <1>13, <1>14, <1>15 DEF Numbered

LEMMA ReportsFormed ==
  ASSUME NEW P, NEW D, Formed("community_reports", P), Formed("community_reports", D), NEW map
  PROVE  Formed("community_reports", P \cup Renumber(D, map))
  <1> DEFINE row(c) == [c EXCEPT !.number = Mapped(map, @), !.parent = Mapped(map, @)]
  <1>1. \A c \in D : {"number", "parent"} \subseteq DOMAIN row(c)
    BY DEF Formed
  <1>2. Renumber(D, map) = {row(c) : c \in D}
    BY DEF Renumber
  <1> HIDE DEF row
  <1> QED
    BY <1>1, <1>2 DEF Formed

LEMMA ReportsMerge ==
  ASSUME NEW P, NEW D, Formed("community_reports", D),
         NEW map, NEW M, M = P \cup Renumber(D, map), NEW old, NEW new, NEW all,
         Reports(P, old), Numbers(old) \subseteq Numbers(all),
         Reports(D, new), \A n \in Numbers(new) : Mapped(map, n) \in Numbers(all)
  PROVE  Reports(M, all)
  <1> DEFINE row(c) == [c EXCEPT !.number = Mapped(map, @), !.parent = Mapped(map, @)]
  <1>1. \A c \in D : /\ row(c).number = Mapped(map, c.number)
                     /\ row(c).parent = Mapped(map, c.parent)
    BY DEF Formed
  <1>2. M = P \cup {row(c) : c \in D}
    BY DEF Renumber
  <1> HIDE DEF row
  <1>3. \A r \in P : {r.number, r.parent} \subseteq Numbers(all)
    BY DEF Reports
  <1>4. \A r \in D : {row(r).number, row(r).parent} \subseteq Numbers(all)
    <2> SUFFICES ASSUME NEW r \in D PROVE {row(r).number, row(r).parent} \subseteq Numbers(all)
      OBVIOUS
    <2>1. r.number \in Numbers(new) /\ r.parent \in Numbers(new)
      BY DEF Reports
    <2> QED
      BY <1>1, <2>1
  <1> QED
    BY <1>2, <1>3, <1>4 DEF Reports


\* Two indices that are linked are merged into one that is.
AllFormed(T) == \A name \in DOMAIN T : Formed(name, T[name])

LEMMA MergeResolves ==
  ASSUME runs \in Nat, NEW P, NEW D, NEW F, Resolved(P, runs), "documents" \in DOMAIN P,
         Linked(D, 18, runs), AllFormed(P), AllFormed(D), Merges(F, P, D, 18),
         Claims => "covariates" \in DOMAIN P /\ "covariates" \in DOMAIN D
  PROVE  Resolved(F, runs + 1)
  <1> DEFINE Six == {"documents", "text_units", "entities", "relationships", "communities",
                     "community_reports"}
             entityMap == EntityMap(P["entities"], D["entities"])
             communityMap == CommunityMap(P["communities"], D["communities"])
  <1>1. /\ DocumentsLinked(P) /\ GraphLinked(P) /\ GraphBefore(P, runs) /\ CommunitiesLinked(P)
        /\ MembersStand(P) /\ UnitsLinked(P) /\ PairsStand(P) /\ ReportsLinked(P)
    BY DEF Resolved
  <1>2. /\ DocumentsLinked(D) /\ GraphLinked(D) /\ GraphNamed(D, runs) /\ CommunitiesLinked(D)
        /\ MembersLinked(D) /\ UnitsLinked(D) /\ PairsLinked(D) /\ ReportsLinked(D)
    BY DEF Linked
  <1>3. Six \subseteq DOMAIN P /\ Six \subseteq DOMAIN D
    BY <1>1, <1>2 DEF DocumentsLinked, GraphLinked, CommunitiesLinked, ReportsLinked
  <1>4. \A name \in Six : Formed(name, P[name]) /\ Formed(name, D[name])
    BY <1>3 DEF AllFormed
  <1>5. /\ MergesDocuments(F, P, D) /\ MergesGraph(F, P, D) /\ MergesUnits(F, P, D)
        /\ MergesClaims(F, P, D) /\ MergesCommunities(F, P, D) /\ MergesReports(F, P, D)
    BY DEF Merges
  <1>6. /\ F["documents"] = P["documents"] \cup D["documents"]
        /\ F["entities"] = MergeEntities(P["entities"], D["entities"])
        /\ F["relationships"] = MergeRelationships(P["relationships"], D["relationships"],
                                                   EntityTitles(F))
    BY <1>5 DEF MergesDocuments, MergesGraph
  <1>7. /\ F["text_units"] = P["text_units"] \cup MapUnits(D["text_units"], entityMap)
        /\ F["communities"] = P["communities"] \cup Renumber(D["communities"], communityMap)
        /\ F["community_reports"] = P["community_reports"]
                                        \cup Renumber(D["community_reports"], communityMap)
    BY <1>5 DEF MergesUnits, MergesCommunities, MergesReports
  <1>8. Six \subseteq DOMAIN F
    BY <1>5 DEF MergesDocuments, MergesGraph, MergesUnits, MergesCommunities, MergesReports
  <1> HIDE DEF entityMap, communityMap
  <1>9. Units(F) = Units(P) \cup Units(D)
    <2>1. Column(F["text_units"], "id")
              = Column(P["text_units"], "id") \cup Column(D["text_units"], "id")
      <3> DEFINE A == P["text_units"]
                 B == D["text_units"]
                 C == F["text_units"]
      <3>1. Formed("text_units", A) /\ Formed("text_units", B) /\ C = A \cup MapUnits(B, entityMap)
        BY <1>4, <1>7
      <3> HIDE DEF A, B, C
      <3>2. Column(C, "id") = Column(A, "id") \cup Column(B, "id")
        BY <3>1, UnitsMerge, Zenon
      <3> QED
        BY <3>2 DEF A, B, C
    <2> QED
      BY <2>1 DEF Units
  <1>10. \A rows : WithinUnits(rows, Units(P)) \/ WithinUnits(rows, Units(D))
                      => WithinUnits(rows, Units(F))
    BY <1>9 DEF WithinUnits
  <1>11. DocumentsLinked(F)
    <2>1. WithinUnits(P["documents"], Units(F)) /\ WithinUnits(D["documents"], Units(F))
      BY <1>1, <1>2, <1>10 DEF DocumentsLinked
    <2>2. WithinUnits(F["documents"], Units(F))
      BY <1>6, <2>1 DEF WithinUnits
    <2> QED
      BY <1>8, <2>2 DEF DocumentsLinked
  <1>12. /\ Unique(P["entities"], "title") /\ Unique(D["entities"], "title")
         /\ Keyed(D["entities"]) /\ Named(P["entities"]) /\ Named(D["entities"])
         /\ EntitiesBefore(P["entities"], runs) /\ EntitiesOf(D["entities"], runs)
         /\ PairsBefore(P["relationships"], runs) /\ PairsOf(D["relationships"], runs)
    BY <1>1, <1>2 DEF GraphBefore, GraphNamed
  <1>13. /\ Unique(F["entities"], "title") /\ Named(F["entities"])
         /\ EntitiesGo(P["entities"], D["entities"], F["entities"])
         /\ EntityIds(P) \subseteq EntityIds(F)
         /\ \A x \in EntityIds(D) : Mapped(entityMap, x) \in EntityIds(F)
         /\ WithinUnits(P["entities"], Units(F)) /\ WithinUnits(D["entities"], Units(F))
                => WithinUnits(F["entities"], Units(F))
    BY <1>4, <1>6, <1>12, EntitiesMerge DEF EntityIds, entityMap
  <1>14. GraphLinked(F) /\ PairsGo(P["relationships"], D["relationships"], F["relationships"],
                                    EntityTitles(F))
    <2>1. /\ WithinUnits(P["entities"], Units(F)) /\ WithinUnits(D["entities"], Units(F))
          /\ WithinUnits(P["relationships"], Units(F))
          /\ WithinUnits(D["relationships"], Units(F))
      BY <1>1, <1>2, <1>10 DEF GraphLinked
    <2>2. /\ EndsKnown(F["relationships"], EntityTitles(F))
          /\ WithinUnits(F["relationships"], Units(F))
          /\ PairsGo(P["relationships"], D["relationships"], F["relationships"], EntityTitles(F))
      BY <1>4, <1>6, <2>1, RelationshipsMerge
    <2> QED
      BY <1>8, <1>13, <2>1, <2>2 DEF GraphLinked
  <1>20. /\ EntitiesBefore(F["entities"], runs + 1)
         /\ \A id : EntityIn(P["entities"], id) => EntityIn(F["entities"], id)
         /\ \A id \in EntityIds(D) : EntityIn(F["entities"], id)
    BY <1>12, <1>13, EntitiesStand DEF EntityIds
  <1>21. /\ PairsBefore(F["relationships"], runs + 1)
         /\ \A id : PairIn(P["relationships"], id) => PairIn(F["relationships"], id)
         /\ \A id \in PairIds(D) : PairIn(F["relationships"], id)
    <2>1. \A e \in P["entities"] \cup D["entities"] : e["title"] \in EntityTitles(F)
      BY <1>13 DEF EntitiesGo, EntityTitles, Column
    <2>2. EntityTitles(P) \subseteq EntityTitles(F) /\ EntityTitles(D) \subseteq EntityTitles(F)
      <3> DEFINE titles == EntityTitles(F)
      <3>1. \A e \in P["entities"] \cup D["entities"] : e["title"] \in titles
        BY <2>1
      <3> HIDE DEF titles
      <3> QED
        BY <3>1 DEF EntityTitles, Column, titles
    <2>3. EndsKnown(P["relationships"], EntityTitles(F)) /\ EndsKnown(D["relationships"], EntityTitles(F))
      BY <1>1, <1>2, <2>2 DEF GraphLinked, EndsKnown
    <2> QED
      BY <1>12, <1>14, <2>3, RelationshipsStand DEF PairIds
  <1>22. GraphBefore(F, runs + 1)
    BY <1>13, <1>20, <1>21 DEF GraphBefore
  <1>15. /\ Numbered(P["communities"]) /\ Numbered(D["communities"])
         /\ WithinUnits(P["communities"], Units(F)) /\ WithinUnits(D["communities"], Units(F))
    BY <1>1, <1>2, <1>10 DEF CommunitiesLinked
  <1>16. /\ Numbered(F["communities"])
         /\ Numbers(P["communities"]) \subseteq Numbers(F["communities"])
         /\ \A n \in Numbers(D["communities"]) :
                Mapped(communityMap, n) \in Numbers(F["communities"])
         /\ WithinUnits(F["communities"], Units(F))
         /\ \A c \in F["communities"] :
                c \in P["communities"]
                    \/ \E d \in D["communities"] : /\ c.entities = d.entities
                                                   /\ c.relationships = d.relationships
    <2> DEFINE A == P["communities"]
               B == D["communities"]
               C == F["communities"]
               units == Units(F)
    <2>1. /\ Formed("communities", A) /\ Formed("communities", B)
          /\ Numbered(A) /\ Numbered(B) /\ WithinUnits(A, units) /\ WithinUnits(B, units)
          /\ communityMap = CommunityMap(A, B) /\ C = A \cup Renumber(B, communityMap)
      BY <1>4, <1>7, <1>15 DEF communityMap
    <2> HIDE DEF A, B, C, units
    <2>2. /\ Numbered(C) /\ Numbers(A) \subseteq Numbers(C) /\ WithinUnits(C, units)
          /\ \A n \in Numbers(B) : Mapped(communityMap, n) \in Numbers(C)
          /\ \A c \in C : c \in A \/ \E d \in B : /\ c.entities = d.entities
                                               /\ c.relationships = d.relationships
      BY <2>1, NumbersMerge
    <2> QED
      BY <2>2 DEF A, B, C, units
  <1>17. CommunitiesLinked(F)
    BY <1>8, <1>16 DEF CommunitiesLinked
  <1>23. MembersStand(F)
    <2> SUFFICES ASSUME NEW c \in F["communities"]
                 PROVE  /\ \A id \in c.entities : EntityIn(F["entities"], id)
                        /\ \A id \in c.relationships : PairIn(F["relationships"], id)
      BY DEF MembersStand
    <2>1. CASE c \in P["communities"]
      BY <1>1, <1>20, <1>21, <2>1 DEF MembersStand
    <2>2. ASSUME NEW d \in D["communities"], c.entities = d.entities, c.relationships = d.relationships
          PROVE  /\ \A id \in c.entities : EntityIn(F["entities"], id)
                 /\ \A id \in c.relationships : PairIn(F["relationships"], id)
      BY <1>2, <1>20, <1>21, <2>2 DEF MembersLinked
    <2> QED
      BY <1>16, <2>1, <2>2
  <1>24. \A u \in F["text_units"] :
             u \in P["text_units"] \/ \E d \in D["text_units"] : /\ u.relationships = d.relationships
                                                               /\ u.covariates = d.covariates
    <2> DEFINE A == P["text_units"]
               B == D["text_units"]
               C == F["text_units"]
    <2>1. Formed("text_units", A) /\ Formed("text_units", B) /\ C = A \cup MapUnits(B, entityMap)
      BY <1>4, <1>7
    <2> HIDE DEF A, B, C
    <2>2. UnitsKept(C, A, B)
      BY <2>1, UnitsMerge, Zenon
    <2> QED
      BY <2>2 DEF A, B, C, UnitsKept
  <1>25. PairsStand(F)
    <2> SUFFICES ASSUME NEW u \in F["text_units"], NEW id \in u.relationships
                 PROVE  PairIn(F["relationships"], id)
      BY DEF PairsStand
    <2>1. CASE u \in P["text_units"]
      BY <1>1, <1>21, <2>1 DEF PairsStand
    <2>2. ASSUME NEW d \in D["text_units"], u.relationships = d.relationships
          PROVE  PairIn(F["relationships"], id)
      BY <1>2, <1>21, <2>2 DEF PairsLinked, NamesPairs
    <2> QED
      BY <1>24, <2>1, <2>2
  <1>26. NamesClaims(F["text_units"], ClaimIds(F))
    <2>1. ClaimIds(P) \subseteq ClaimIds(F) /\ ClaimIds(D) \subseteq ClaimIds(F)
      <3>1. CASE ~Claims
        BY <3>1 DEF ClaimIds
      <3>2. CASE Claims
        <4>1. "covariates" \in DOMAIN P /\ "covariates" \in DOMAIN D
          BY <3>2
        <4>2. "covariates" \in DOMAIN F /\ F["covariates"] = P["covariates"] \cup D["covariates"]
          BY <1>5, <4>1 DEF MergesClaims
        <4> QED
          BY <4>1, <4>2 DEF ClaimIds, Column
      <3> QED
        BY <3>1, <3>2
    <2>2. NamesClaims(P["text_units"], ClaimIds(P)) /\ NamesClaims(D["text_units"], ClaimIds(D))
      BY <1>1, <1>2 DEF UnitsLinked
    <2> SUFFICES ASSUME NEW u \in F["text_units"] PROVE u.covariates \subseteq ClaimIds(F)
      BY DEF NamesClaims
    <2>3. CASE u \in P["text_units"]
      BY <2>1, <2>2, <2>3 DEF NamesClaims
    <2>4. ASSUME NEW d \in D["text_units"], u.covariates = d.covariates
          PROVE  u.covariates \subseteq ClaimIds(F)
      BY <2>1, <2>2, <2>4 DEF NamesClaims
    <2> QED
      BY <1>24, <2>3, <2>4
  <1>18. UnitsLinked(F)
    <2>1. NamesEntities(P["text_units"], EntityIds(P)) /\ NamesEntities(D["text_units"], EntityIds(D))
      BY <1>1, <1>2 DEF UnitsLinked
    <2>2. NamesEntities(F["text_units"], EntityIds(F))
      BY <1>4, <1>7, <1>13, <2>1, UnitsMapped
    <2> QED
      BY <1>26, <2>2 DEF UnitsLinked
  <1>19. ReportsLinked(F)
    <2>1. /\ Reports(P["community_reports"], P["communities"])
          /\ Reports(D["community_reports"], D["communities"])
      BY <1>1, <1>2 DEF ReportsLinked
    <2> DEFINE A == P["community_reports"]
               B == D["community_reports"]
               C == F["community_reports"]
               old == P["communities"]
               new == D["communities"]
               all == F["communities"]
    <2>2. /\ Formed("community_reports", A) /\ Formed("community_reports", B)
          /\ Reports(A, old) /\ Reports(B, new) /\ C = A \cup Renumber(B, communityMap)
          /\ Numbers(old) \subseteq Numbers(all)
          /\ \A n \in Numbers(new) : Mapped(communityMap, n) \in Numbers(all)
      BY <1>4, <1>7, <1>16, <2>1
    <2> HIDE DEF A, B, C, old, new, all
    <2>3. Reports(C, all)
      BY <2>2, ReportsMerge
    <2> QED
      BY <1>8, <2>3 DEF ReportsLinked, C, all
  <1> QED
    BY <1>11, <1>14, <1>17, <1>18, <1>19, <1>22, <1>23, <1>25 DEF Resolved

\* A run of its own leaves everything linked.
LEMMA LinkedResolves ==
  ASSUME NEW V, Linked(V, 10, runs), runs \in Nat
  PROVE  Resolved(V, runs + 1)
  <1>1. /\ DocumentsLinked(V) /\ GraphLinked(V) /\ GraphNamed(V, runs) /\ CommunitiesLinked(V)
        /\ MembersLinked(V) /\ UnitsLinked(V) /\ PairsLinked(V) /\ ReportsLinked(V)
    BY DEF Linked
  <1>2. runs < runs + 1
    OBVIOUS
  <1>3. EntitiesBefore(V["entities"], runs + 1)
    BY <1>1, <1>2 DEF GraphNamed, EntitiesOf, EntitiesBefore
  <1>4. PairsBefore(V["relationships"], runs + 1)
    BY <1>1, <1>2 DEF GraphNamed, PairsOf, PairsBefore, SamePair
  <1>5. MembersStand(V) /\ PairsStand(V)
    <2>1. \A id \in EntityIds(V) : EntityIn(V["entities"], id)
      BY DEF EntityIds, Column, EntityIn
    <2>2. \A id \in PairIds(V) : PairIn(V["relationships"], id)
      BY DEF PairIds, Column, PairIn
    <2> QED
      BY <1>1, <2>1, <2>2 DEF MembersStand, MembersLinked, PairsStand, PairsLinked, NamesPairs
  <1> QED
    BY <1>1, <1>3, <1>4, <1>5 DEF Resolved, GraphNamed, GraphBefore

\* Runs before n are runs before n + 1.
LEMMA ResolvedBefore ==
  ASSUME NEW F, NEW n \in Nat, Resolved(F, n)
  PROVE  Resolved(F, n + 1)
  <1>1. \A m \in Nat : m < n => m < n + 1
    OBVIOUS
  <1>2. GraphBefore(F, n) => GraphBefore(F, n + 1)
    BY <1>1 DEF GraphBefore, EntitiesBefore, PairsBefore
  <1> QED
    BY <1>2 DEF Resolved

-----------------------------------------------------------------------------
LEMMA IdleMaps ==
  /\ {"entityMap", "communityMap"} \subseteq DOMAIN Idle /\ Idle.input = {} /\ Idle.mode = "None"
  /\ Idle.entityMap = None /\ Idle.communityMap = None
  BY DEF Idle

LEMMA NoTablesFormed == AllFormed(NoTables) /\ \A n : Resolved(NoTables, n)
  BY DEF AllFormed, Resolved, NoTables

LEMMA FormedEverywhere ==
  FormInv <=> /\ \A p \in Providers : AllFormed(tables[p])
              /\ \A w \in Coming : Formed(w.name, w.rows)
              /\ run.input \subseteq Docs
              /\ {"entityMap", "communityMap"} \subseteq DOMAIN run
  BY DEF FormInv, AllFormed

LEMMA DoneCounts == ASSUME Inv PROVE Done \in Int
  <1>1. Len(run.queue) \in Nat
    BY DEF Inv
  <1> QED
    BY <1>1 DEF Done, Length

LEMMA InitRef == Init => RefInv
  <1> SUFFICES ASSUME Init PROVE RefInv
    OBVIOUS
  <1>1. run = Idle /\ tables = [p \in Providers |-> NoTables]
    BY DEF Init
  <1>2. Coming = {}
    BY <1>1, IdleShape DEF Coming
  <1>3. FormInv
    <2>1. \A p \in Providers : AllFormed(tables[p])
      BY <1>1, NoTablesFormed
    <2> QED
      BY <1>1, <1>2, <2>1, IdleMaps, FormedEverywhere
  <1>4. LinkInv /\ UnionInv
    BY <1>1, IdleMaps DEF LinkInv, UnionInv
  <1>5. ResolvedInv
    BY <1>1, NoTablesFormed DEF ResolvedInv, Providers
  <1> QED
    BY <1>3, <1>4, <1>5 DEF RefInv

LEMMA EndRef ==
  ASSUME Inv, RefInv, NEW outcome, End(outcome), UNCHANGED runs,
         "tables" \notin torn' => Resolved(tables["final"], runs + 1)
  PROVE  RefInv'
  <1>1. /\ run' = Idle
        /\ tables' = [tables EXCEPT !["previous"] = NoTables, !["delta"] = NoTables]
    BY DEF End
  <1>2. /\ tables'["final"] = tables["final"]
        /\ \A p \in Providers : p # "final" => tables'[p] = NoTables
    BY <1>1 DEF Inv, Providers
  <1>3. Coming' = {}
    BY <1>1, IdleShape DEF Coming
  <1>4. FormInv'
    <2>1. \A p \in Providers : AllFormed(tables'[p])
      BY <1>2, NoTablesFormed, FormedEverywhere DEF RefInv
    <2>2. \A p \in Providers : \A name \in DOMAIN tables'[p] : Formed(name, tables'[p][name])
      BY <2>1 DEF AllFormed
    <2> QED
      BY <1>1, <1>3, <2>2, IdleMaps DEF FormInv
  <1>5. LinkInv' /\ UnionInv'
    BY <1>1, IdleMaps DEF LinkInv, UnionInv
  <1>6. ResolvedInv'
    BY <1>2 DEF ResolvedInv
  <1> QED
    BY <1>4, <1>5, <1>6 DEF RefInv

LEMMA FailRef == ASSUME Inv, RefInv, End("Failed"), UNCHANGED <<torn, runs>> PROVE RefInv'
  BY EndRef DEF RefInv, ResolvedInv

LEMMA StartRef ==
  ASSUME Inv, Types, RefInv, StartIndex \/ StartUpdate
  PROVE  RefInv'
  <1>1. \A V, n : Linked(V, 0, n)
    BY DEF Linked
  <1>6. runs' = runs + 1 /\ runs \in Nat
    <2>1. runs \in 0..MaxRuns
      BY DEF Types, RunTypes
    <2>2. runs' = runs + 1
      BY Zenon DEF StartIndex, StartUpdate
    <2> QED
      BY <2>1, <2>2
  <1>7. "tables" \notin torn => Resolved(tables["final"], runs + 1)
    BY DEF RefInv, ResolvedInv
  <1>8. "tables" \notin torn => Resolved(tables["final"], runs + 2)
    <2> DEFINE n == runs + 1
    <2>1. n \in Nat /\ n + 1 = runs + 2
      BY <1>6
    <2> HIDE DEF n
    <2>2. "tables" \notin torn => Resolved(tables["final"], n)
      BY <1>7 DEF n
    <2>3. "tables" \notin torn => Resolved(tables["final"], n + 1)
      BY <2>1, <2>2, ResolvedBefore
    <2> QED
      BY <2>1, <2>3
  <1>9. runs' + 1 = runs + 2
    BY <1>6
  <1>2. \A F, P, D : Merges(F, P, D, 0)
    BY DEF Merges
  <1>3. \A input \in Inputs : input \subseteq Docs
    BY IndexAssumption
  <1>4. CASE StartIndex
    <2>1. /\ run'.mode = "Index" /\ run'.queue = Standard /\ run'.pending = <<>>
          /\ {"entityMap", "communityMap"} \subseteq DOMAIN run' /\ run'.input \in Inputs
          /\ UNCHANGED <<tables, torn>>
      BY <1>4 DEF StartIndex, Idle
    <2>2. Coming' = {} /\ Done' = 0
      BY <2>1, EmptyWrites, StandardSteps DEF Coming, Done, Length
    <2>3. FormInv'
      BY <1>3, <2>1, <2>2 DEF RefInv, FormInv
    <2>4. LinkInv' /\ UnionInv'
      BY <1>1, <2>1, <2>2 DEF LinkInv, UnionInv
    <2>5. ResolvedInv'
      BY <1>8, <1>9, <2>1 DEF ResolvedInv
    <2> QED
      BY <2>3, <2>4, <2>5 DEF RefInv
  <1>5. CASE StartUpdate
    <2>1. /\ run'.mode = "Update" /\ run'.queue = Update /\ run'.pending = <<>>
          /\ {"entityMap", "communityMap"} \subseteq DOMAIN run' /\ run'.input \in Inputs
          /\ run'.torn = torn /\ run'.entityMap = None /\ run'.communityMap = None
          /\ UNCHANGED torn
          /\ tables' = [tables EXCEPT !["previous"] = tables["final"], !["delta"] = NoTables]
      BY <1>5 DEF StartUpdate, Idle
    <2>2. Coming' = {} /\ Done' = 0
      BY <2>1, EmptyWrites, UpdateOrdered DEF Coming, Done, Length
    <2>3. /\ tables'["final"] = tables["final"] /\ tables'["previous"] = tables["final"]
          /\ tables'["delta"] = NoTables
      BY <2>1 DEF Inv, Providers
    <2>4. FormInv'
      <3>1. \A p \in Providers : AllFormed(tables'[p])
        BY <2>3, NoTablesFormed, FormedEverywhere DEF RefInv, Providers
      <3>2. \A p \in Providers : \A name \in DOMAIN tables'[p] : Formed(name, tables'[p][name])
        BY <3>1 DEF AllFormed
      <3> QED
        BY <1>3, <2>1, <2>2, <3>2 DEF FormInv
    <2>5. LinkInv'
      BY <1>1, <2>2 DEF LinkInv
    <2>6. MapInv'
      BY <2>1 DEF MapInv
    <2>7. UnionInv'
      <3>1. "tables" \notin torn => Resolved(tables["final"], runs')
        BY <1>6, <1>7
      <3>2. ~(0 >= 11)
        OBVIOUS
      <3> QED
        BY <1>2, <2>1, <2>2, <2>3, <2>6, <3>1, <3>2 DEF UnionInv
    <2>8. ResolvedInv'
      BY <1>8, <1>9, <2>1, <2>3 DEF ResolvedInv
    <2> QED
      BY <2>4, <2>5, <2>7, <2>8 DEF RefInv
  <1> QED
    BY <1>4, <1>5

LEMMA WriteMaps ==
  ASSUME Inv, RefInv, Write
  PROVE  /\ {"entityMap", "communityMap"} \subseteq DOMAIN run'
         /\ run'.entityMap = run.entityMap /\ run'.communityMap = run.communityMap
  <1>1. \/ run' = [run EXCEPT !.pending = Tail(@)]
        \/ \E batch : run' = [run EXCEPT !.pending[1].rows = @ \ batch]
    BY DEF Write, WriteTable, WriteVectors, DropIndex, CreateIndex, DeleteDummy, Flush
  <1>2. {"entityMap", "communityMap"} \subseteq DOMAIN run
    BY DEF RefInv, FormInv
  <1> QED
    BY <1>1, <1>2

LEMMA NoMerges == ASSUME NEW k \in Int, ~(k >= 11), NEW F, NEW P, NEW D PROVE Merges(F, P, D, k)
  BY DEF Merges

LEMMA WriteRef ==
  ASSUME Inv, Types, CoverInv, RefInv, Write
  PROVE  RefInv'
  <1>1. run.mode \in {"Index", "Update"}
    BY Pending DEF Write
  <1>2. /\ run'.mode = run.mode /\ run'.queue = run.queue /\ run'.out = run.out
        /\ run'.torn = run.torn /\ run'.input = run.input
        /\ {"entityMap", "communityMap"} \subseteq DOMAIN run'
        /\ run'.entityMap = run.entityMap /\ run'.communityMap = run.communityMap
    BY WriteComing, WriteMaps DEF CoverInv, QueueInv
  <1>3. Done' = Done /\ Done \in Int
    BY <1>2, DoneCounts DEF Done
  <1>9. runs' = runs
    BY DEF Write
  <1>4. /\ \A p \in Providers : \A V : Future(V, Coming', tables', p) => Future(V, Coming, tables, p)
        /\ Coming' \subseteq Coming /\ tables'["previous"] = tables["previous"]
        /\ (\A w \in Coming : w.at = "final") => tables'["delta"] = tables["delta"]
        /\ "tables" \notin torn' => "tables" \notin torn /\ tables'["final"] = tables["final"]
        /\ \A p \in Providers : \A name \in DOMAIN tables'[p] : Formed(name, tables'[p][name])
    <2>1. CASE tables' = tables /\ Coming' = Coming /\ torn' = torn \cup {"vectors"}
      BY <2>1 DEF RefInv, FormInv
    <2>2. ASSUME NEW w \in Coming, w.at \in {"final", "delta"}, Coming = Coming' \cup {w},
                 tables' = [tables EXCEPT ![w.at] = With(@, w.name, w.rows)],
                 torn' = torn \cup IF w.at = "final" THEN {"tables"} ELSE {}
          PROVE  <1>4!:
      <3>1. w.at \in Providers /\ DOMAIN tables = Providers
            /\ {"final", "previous", "delta"} \subseteq Providers
        BY <2>2 DEF Inv, Providers
      <3>2. ASSUME NEW p \in Providers, NEW V, Future(V, Coming', tables', p)
            PROVE  Future(V, Coming, tables, p)
        <4> DEFINE U == tables'
                   X == Coming'
        <4>1. U = [tables EXCEPT ![w.at] = With(@, w.name, w.rows)] /\ Coming = X \cup {w}
              /\ Future(V, X, U, p)
          BY <2>2, <3>2
        <4> HIDE DEF U, X
        <4>2. Future(V, X \cup {w}, tables, p)
          BY <3>1, <4>1, FutureNarrows
        <4> QED
          BY <4>1, <4>2
      <3>3. \A p \in Providers : p # w.at => tables'[p] = tables[p]
        BY <2>2, <3>1
      <3>4. tables'[w.at] = With(tables[w.at], w.name, w.rows)
        BY <2>2, <3>1
      <3>5. ASSUME NEW p \in Providers, NEW name \in DOMAIN tables'[p]
            PROVE  Formed(name, tables'[p][name])
        <4>1. /\ \A q \in Providers : \A n \in DOMAIN tables[q] : Formed(n, tables[q][n])
              /\ Formed(w.name, w.rows)
          BY DEF RefInv, FormInv
        <4>2. CASE p # w.at
          BY <3>3, <3>5, <4>1, <4>2
        <4>3. CASE p = w.at
          BY <3>4, <3>5, <4>1, <4>3 DEF With
        <4> QED
          BY <4>2, <4>3
      <3>6. (\A x \in Coming : x.at = "final") => tables'["delta"] = tables["delta"]
        BY <3>1, <3>3
      <3>7. tables'["previous"] = tables["previous"]
        BY <2>2, <3>1, <3>3
      <3>8. "tables" \notin torn' => "tables" \notin torn /\ tables'["final"] = tables["final"]
        BY <2>2, <3>1, <3>3
      <3> QED
        BY <2>2, <3>2, <3>5, <3>6, <3>7, <3>8
    <2> QED
      BY <2>1, <2>2, WriteComing
  <1>5. FormInv'
    BY <1>2, <1>4 DEF RefInv, FormInv
  <1>6. LinkInv'
    <2>1. run.out \in Providers
      BY DEF Types, RunTypes, Providers
    <2>2. \A V : Future(V, Coming, tables, run.out) => Linked(V, Done, runs)
      BY <1>1 DEF RefInv, LinkInv
    <2>3. \A V : Future(V, Coming', tables', run.out) => Linked(V, Done, runs)
      BY <1>4, <2>1, <2>2
    <2> QED
      BY <1>2, <1>3, <1>9, <2>3 DEF LinkInv
  <1>7. UnionInv'
    <2> SUFFICES ASSUME run.mode = "Update" PROVE UnionInv'
      BY <1>2 DEF UnionInv
    <2> DEFINE P == tables["previous"]
               D == tables["delta"]
    <2>1. /\ \A F : Future(F, Coming, tables, "final") => Merges(F, P, D, Done)
          /\ "tables" \notin run.torn => Resolved(P, runs)
          /\ Done >= 11 => \A w \in Coming : w.at = "final"
          /\ MapInv
      BY DEF RefInv, UnionInv
    <2>2. Done >= 11 => tables'["delta"] = D
      BY <1>4, <2>1
    <2>3. ASSUME NEW F, Future(F, Coming', tables', "final") PROVE Merges(F, P, tables'["delta"], Done)
      <3>1. Future(F, Coming, tables, "final")
        BY <1>4, <2>3 DEF Providers
      <3> QED
        BY <1>3, <2>1, <2>2, <3>1, NoMerges
    <2>4. Done >= 11 => \A w \in Coming' : w.at = "final"
      BY <1>4, <2>1
    <2>5. MapInv'
      <3>1. /\ run.entityMap # None => Done >= 11 /\ run.entityMap = EntityMap(Old("entities"), New("entities"))
            /\ run.communityMap # None => Done >= 11
            /\ run.communityMap # None =>
                   run.communityMap = CommunityMap(Old("communities"), New("communities"))
            /\ Done < 12 => run.entityMap = None
            /\ Done < 15 => run.communityMap = None
        BY <1>3, <2>1 DEF MapInv
      <3>2. Done >= 11 => /\ New("entities")' = New("entities")
                          /\ New("communities")' = New("communities")
        BY <2>2 DEF New
      <3>3. Old("entities")' = Old("entities") /\ Old("communities")' = Old("communities")
        BY <1>4 DEF Old
      <3> QED
        BY <1>2, <1>3, <3>1, <3>2, <3>3 DEF MapInv
    <2> QED
      BY <1>2, <1>3, <1>4, <1>9, <2>1, <2>3, <2>4, <2>5 DEF UnionInv
  <1>8. ResolvedInv'
    BY <1>4, <1>9 DEF RefInv, ResolvedInv
  <1> QED
    BY <1>5, <1>6, <1>7, <1>8 DEF RefInv
-----------------------------------------------------------------------------
\* A run whose queue is empty leaves an index that is resolved.
LEMMA FinishRef ==
  ASSUME Inv, Types, CoverInv, RefInv, Finish
  PROVE  RefInv'
  <1>1. /\ run # Idle /\ run.queue = <<>> /\ run.pending = <<>> /\ End("Ok")
        /\ torn' = IF run.mode = "Index" THEN {} ELSE run.torn \ {"vectors"}
        /\ runs' = runs /\ runs \in Nat
    BY DEF Finish, Types, RunTypes
  <1>2. run.mode \in {"Index", "Update"}
    BY <1>1 DEF CoverInv, QueueInv
  <1>3. Coming = {} /\ Len(run.queue) = 0
    BY <1>1, EmptyWrites DEF Coming
  <1>4. Linked(tables[run.out], Done, runs)
    BY <1>2, <1>3, FutureNow DEF RefInv, LinkInv
  <1>5. CASE run.mode = "Index"
    <2>1. Done = 10 /\ run.out = "final"
      BY <1>3, <1>5 DEF Done, Length, CoverInv, QueueInv
    <2>2. Resolved(tables["final"], runs + 1)
      BY <1>1, <1>4, <2>1, LinkedResolves
    <2> QED
      BY <1>1, <2>2, EndRef
  <1>6. CASE run.mode = "Update"
    <2>1. Done = 18 /\ run.out = "delta" /\ torn' = run.torn \ {"vectors"}
      BY <1>1, <1>3, <1>6 DEF Done, Length, Inv
    <2>2. "documents" \in DOMAIN tables["previous"]
      BY <1>6, <2>1 DEF CoverInv, MergeInvariant, Has
    <2>3. /\ Merges(tables["final"], tables["previous"], tables["delta"], 18)
          /\ "tables" \notin run.torn => Resolved(tables["previous"], runs)
      BY <1>3, <1>6, <2>1, FutureNow DEF RefInv, UnionInv
    <2>4. AllFormed(tables["previous"]) /\ AllFormed(tables["delta"])
      BY FormedEverywhere DEF RefInv, Providers
    <2>6. "tables" \notin run.torn /\ Claims => "covariates" \in DOMAIN tables["previous"]
      BY <1>6, <2>2 DEF CoverInv, MergeInvariant, Covered
    <2>7. Claims => "covariates" \in DOMAIN tables["delta"]
      <3> SUFFICES ASSUME Claims PROVE "covariates" \in DOMAIN tables["delta"]
        OBVIOUS
      <3>1. Indexed({}, tables, "delta", Given, 18)
        BY <1>2, <1>3, <2>1 DEF CoverInv, OwnInv
      <3>2. Outcomes({}, tables, "delta", "covariates") # {}
        BY <3>1 DEF Indexed, Reached
      <3> QED
        BY <3>2 DEF Outcomes, RowsTo
    <2>5. "tables" \notin torn' => Resolved(tables["final"], runs + 1)
      <3> DEFINE F == tables["final"]
                 P == tables["previous"]
                 D == tables["delta"]
      <3> SUFFICES ASSUME "tables" \notin run.torn PROVE Resolved(F, runs + 1)
        BY <2>1
      <3>1. /\ runs \in Nat /\ Resolved(P, runs) /\ "documents" \in DOMAIN P
            /\ Linked(D, 18, runs) /\ AllFormed(P) /\ AllFormed(D) /\ Merges(F, P, D, 18)
            /\ Claims => "covariates" \in DOMAIN P /\ "covariates" \in DOMAIN D
        BY <1>1, <1>4, <2>1, <2>2, <2>3, <2>4, <2>6, <2>7
      <3> HIDE DEF F, P, D
      <3> QED
        BY <3>1, MergeResolves
    <2> QED
      BY <1>1, <2>5, EndRef
  <1> QED
    BY <1>2, <1>5, <1>6

\* A workflow leaves the queue: its rows are well-formed, and if all was linked
\* and merged before it, so it will be when its writes are carried out.
LEMMA TurnRef ==
  ASSUME Inv, CoverInv, RefInv, NEW step, NEW writes, Turn(step, writes),
         NEW W, W = TableWrites(writes), {"entityMap", "communityMap"} \subseteq DOMAIN run',
         \A w \in W : Formed(w.name, w.rows),
         \A V : Future(V, W, tables, run.out) /\ Linked(tables[run.out], Place[step] - 1, runs)
                    => Linked(V, Place[step], runs),
         run.mode = "Update" =>
             /\ \A F : /\ Future(F, W, tables, "final")
                       /\ Merges(tables["final"], tables["previous"], tables["delta"], Place[step] - 1)
                       => Merges(F, tables["previous"], tables["delta"], Place[step])
             /\ Place[step] >= 11 => \A w \in W : w.at = "final"
             /\ MapInv'
  PROVE  RefInv'
  <1> DEFINE k == Place[step]
  <1>1. /\ At(step) /\ UNCHANGED <<tables, torn, runs>>
        /\ run'.mode = run.mode /\ run'.out = run.out /\ run'.torn = run.torn
        /\ run'.input = run.input /\ run'.queue = Tail(run.queue) /\ run'.pending = writes
    BY DEF Turn
  <1>2. run.mode \in {"Index", "Update"} /\ k \in 1..18 /\ Done = k - 1 /\ Coming = {}
    BY <1>1, Standing
  <1>3. Coming' = W
    BY <1>1 DEF Coming
  <1>4. Done' = k
    <2>1. Len(run.queue) \in Nat \ {0} /\ Len(run'.queue) = Len(run.queue) - 1
      BY <1>1, HeadTailProperties, EmptySeq DEF Inv, At
    <2>2. Done' = Length(run.mode) - Len(run'.queue) /\ Done = Length(run.mode) - Len(run.queue)
          /\ Length(run.mode) \in Int
      BY <1>1 DEF Done, Length
    <2> DEFINE n == Len(run.queue)
               m == Len(run'.queue)
               d == Done
               e == Done'
               l == Length(run.mode)
    <2>3. n \in Nat \ {0} /\ m = n - 1 /\ e = l - m /\ d = l - n /\ l \in Int /\ d = k - 1 /\ k \in 1..18
      BY <1>2, <2>1, <2>2
    <2> HIDE DEF n, m, d, e, l, k
    <2>4. e = k
      BY <2>3
    <2> QED
      BY <2>4 DEF e
  <1>5. FormInv'
    BY <1>1, <1>3 DEF RefInv, FormInv
  <1>6. LinkInv'
    <2>1. Linked(tables[run.out], k - 1, runs)
      BY <1>2, FutureNow DEF RefInv, LinkInv
    <2> QED
      BY <1>1, <1>3, <1>4, <2>1 DEF LinkInv
  <1>7. UnionInv'
    <2> SUFFICES ASSUME run.mode = "Update" PROVE UnionInv'
      BY <1>1 DEF UnionInv
    <2>1. /\ Merges(tables["final"], tables["previous"], tables["delta"], k - 1)
          /\ "tables" \notin run.torn => Resolved(tables["previous"], runs)
      BY <1>2, FutureNow DEF RefInv, UnionInv
    <2>2. \A F : Future(F, W, tables, "final") => Merges(F, tables["previous"], tables["delta"], k)
      BY <2>1
    <2> QED
      BY <1>1, <1>3, <1>4, <2>1, <2>2 DEF UnionInv
  <1>8. ResolvedInv'
    BY <1>1 DEF RefInv, ResolvedInv
  <1> QED
    BY <1>5, <1>6, <1>7, <1>8 DEF RefInv

\* What becomes of the maps.
Maps(m, n) ==
    /\ {"entityMap", "communityMap"} \subseteq DOMAIN run'
    /\ run'.entityMap = m /\ run'.communityMap = n

LEMMA AdvanceMaps ==
  ASSUME RefInv, NEW writes, NEW m, NEW n
  PROVE  /\ Go(Advance(writes)) => Maps(run.entityMap, run.communityMap)
         /\ Go([Advance(writes) EXCEPT !.entityMap = m]) => Maps(m, run.communityMap)
         /\ Go([Advance(writes) EXCEPT !.communityMap = n]) => Maps(run.entityMap, n)
         /\ Go([Advance(writes) EXCEPT !.entityMap = m, !.communityMap = n]) => Maps(m, n)
  <1> DEFINE a == Advance(writes)
  <1>1. {"entityMap", "communityMap"} \subseteq DOMAIN run
    BY DEF RefInv, FormInv
  <1>2. /\ {"entityMap", "communityMap"} \subseteq DOMAIN a
        /\ a.entityMap = run.entityMap /\ a.communityMap = run.communityMap
    BY <1>1 DEF Advance
  <1> HIDE DEF a
  <1>3. /\ Go(a) => Maps(run.entityMap, run.communityMap)
        /\ Go([a EXCEPT !.entityMap = m]) => Maps(m, run.communityMap)
        /\ Go([a EXCEPT !.communityMap = n]) => Maps(run.entityMap, n)
        /\ Go([a EXCEPT !.entityMap = m, !.communityMap = n]) => Maps(m, n)
    BY <1>2 DEF Go, Maps
  <1> QED
    BY <1>3 DEF a
-----------------------------------------------------------------------------
\* The maps after a workflow of the merge.
LEMMA MapsNow ==
  ASSUME Inv, CoverInv, NEW step, NEW writes, Turn(step, writes), run.mode = "Update",
         NEW m, NEW n, Maps(m, n),
         Place[step] < 12 => m = None, Place[step] < 15 => n = None,
         m # None => m = EntityMap(Old("entities"), New("entities")),
         n # None => n = CommunityMap(Old("communities"), New("communities"))
  PROVE  MapInv'
  <1> DEFINE k == Place[step]
  <1>1. k \in 1..18 /\ Done = k - 1 /\ UNCHANGED tables /\ run'.mode = run.mode
        /\ run'.queue = Tail(run.queue)
    BY Standing DEF Turn
  <1>2. Done' = k
    <2>1. Len(run.queue) \in Nat \ {0} /\ Len(run'.queue) = Len(run.queue) - 1
      BY <1>1, HeadTailProperties, EmptySeq DEF Turn, Inv, At
    <2>2. Done' = 18 - Len(run'.queue) /\ Done = 18 - Len(run.queue)
      BY <1>1 DEF Done, Length
    <2> DEFINE l == Len(run.queue)
               j == Len(run'.queue)
               d == Done
               e == Done'
    <2>3. l \in Nat \ {0} /\ j = l - 1 /\ e = 18 - j /\ d = 18 - l /\ d = k - 1 /\ k \in 1..18
      BY <1>1, <2>1, <2>2
    <2> HIDE DEF l, j, d, e, k
    <2>4. e = k
      BY <2>3
    <2> QED
      BY <2>4 DEF e
  <1>3. \A name : Old(name)' = Old(name) /\ New(name)' = New(name)
    BY <1>1 DEF Old, New
  <1>4. run'.entityMap = m /\ run'.communityMap = n
    BY DEF Maps
  <1>5. (k < 12 => m = None) /\ (k < 15 => n = None)
    OBVIOUS
  <1> HIDE DEF k
  <1> QED
    BY <1>2, <1>3, <1>4, <1>5 DEF MapInv

LEMMA MapsStay ==
  ASSUME Inv, CoverInv, RefInv, NEW step, NEW writes, Turn(step, writes), run.mode = "Update",
         Place[step] \notin {12, 15}, Maps(run.entityMap, run.communityMap)
  PROVE  MapInv'
  <1> DEFINE k == Place[step]
  <1>1. k \in 1..18 /\ Done = k - 1
    BY Standing DEF Turn
  <1>2. MapInv
    BY DEF RefInv, UnionInv
  <1>3. (k < 12 => k - 1 < 12) /\ (k < 15 => k - 1 < 15)
    BY <1>1
  <1>4. /\ k < 12 => run.entityMap = None
        /\ k < 15 => run.communityMap = None
    BY <1>1, <1>2, <1>3 DEF MapInv
  <1>5. /\ run.entityMap # None => run.entityMap = EntityMap(Old("entities"), New("entities"))
        /\ run.communityMap # None =>
               run.communityMap = CommunityMap(Old("communities"), New("communities"))
    BY <1>2 DEF MapInv
  <1> QED
    BY <1>4, <1>5, MapsNow

\* A standard workflow merges nothing, a merging one links nothing.
LEMMA OwnRef ==
  ASSUME Inv, CoverInv, RefInv, NEW step, NEW writes, Turn(step, writes),
         NEW W, W = TableWrites(writes), Place[step] <= 10,
         Maps(run.entityMap, run.communityMap), \A w \in W : Formed(w.name, w.rows),
         \A V : Future(V, W, tables, run.out) /\ Linked(tables[run.out], Place[step] - 1, runs)
                    => Linked(V, Place[step], runs)
  PROVE  RefInv'
  <1> DEFINE k == Place[step]
  <1>1. k \in Int /\ ~(k >= 11) /\ k \notin {12, 15}
    BY Standing DEF Turn
  <1>2. run.mode = "Update" => MapInv'
    BY <1>1, MapsStay
  <1>3. \A F, P, D : Merges(F, P, D, k)
    BY <1>1, NoMerges
  <1>4. {"entityMap", "communityMap"} \subseteq DOMAIN run'
    BY DEF Maps
  <1> QED
    BY <1>1, <1>2, <1>3, <1>4, TurnRef

LEMMA JoinRef ==
  ASSUME Inv, CoverInv, RefInv, NEW step, NEW writes, Turn(step, writes),
         NEW W, W = TableWrites(writes), Place[step] > 10,
         {"entityMap", "communityMap"} \subseteq DOMAIN run', MapInv',
         \A w \in W : w.at = "final" /\ Formed(w.name, w.rows),
         \A F : /\ Future(F, W, tables, "final")
                /\ Merges(tables["final"], tables["previous"], tables["delta"], Place[step] - 1)
                => Merges(F, tables["previous"], tables["delta"], Place[step])
  PROVE  RefInv'
  <1> DEFINE k == Place[step]
  <1>1. run.out = "delta" /\ k \in 1..18
    BY Standing DEF Turn
  <1>2. k \in Nat /\ k >= 10
    BY <1>1
  <1>3. \A V : Future(V, W, tables, run.out) /\ Linked(tables[run.out], k - 1, runs) => Linked(V, k, runs)
    <2> SUFFICES ASSUME NEW V, Future(V, W, tables, run.out), Linked(tables[run.out], k - 1, runs)
                 PROVE  Linked(V, k, runs)
      OBVIOUS
    <2> DEFINE p == run.out
               S == tables[p]
               none == {}
    <2>1. \A w \in W : w.at # p
      BY <1>1
    <2>2. /\ Future(V, W, tables, p) /\ Linked(S, k - 1, runs)
          /\ none = {} /\ none \subseteq {"covariates"}
      OBVIOUS
    <2>3. SameBut(V, S, none)
      <3> HIDE DEF p
      <3> QED
        BY <2>1, <2>2, FutureSame
    <2> HIDE DEF p, S, k, none
    <2> QED
      BY <1>2, <2>2, <2>3, LinksUntouched
  <1> QED
    BY <1>3, TurnRef

\* What a merge leaves of the merges before it.
MergedAt(k) ==
    CASE k = 11 -> {"documents"} [] k = 12 -> {"entities", "relationships"}
      [] k = 13 -> {"text_units"} [] k = 14 -> {"covariates"} [] k = 15 -> {"communities"}
      [] k = 16 -> {"community_reports"} [] OTHER -> {}
LEMMA MergesNext ==
  ASSUME NEW F, NEW S, NEW P, NEW D, NEW k \in 11..18, SameBut(F, S, MergedAt(k)),
         Merges(S, P, D, k - 1),
         k = 11 => MergesDocuments(F, P, D), k = 12 => MergesGraph(F, P, D),
         k = 13 => MergesUnits(F, P, D), k = 14 => MergesClaims(F, P, D),
         k = 15 => MergesCommunities(F, P, D),
         k = 16 => MergesReports(F, P, D)
  PROVE  Merges(F, P, D, k)
  <1> DEFINE names == MergedAt(k)
  <1>1. \A n : n \notin names /\ n \in DOMAIN S => n \in DOMAIN F /\ F[n] = S[n]
    BY DEF SameBut
  <1>2. \A b \in {11, 12, 13, 14, 15, 16} : k >= b => k = b \/ k - 1 >= b
    OBVIOUS
  <1>3. /\ k # 11 => "documents" \notin names
        /\ k # 12 => names \cap {"entities", "relationships"} = {}
        /\ k # 13 => "text_units" \notin names
        /\ k # 14 => "covariates" \notin names
        /\ k # 15 => "communities" \notin names
        /\ k # 16 => "community_reports" \notin names
    BY DEF MergedAt
  <1> HIDE DEF names
  <1>4. "documents" \notin names /\ MergesDocuments(S, P, D) => MergesDocuments(F, P, D)
    BY <1>1 DEF MergesDocuments
  <1>5. names \cap {"entities", "relationships"} = {} /\ MergesGraph(S, P, D) => MergesGraph(F, P, D)
    <2> SUFFICES ASSUME names \cap {"entities", "relationships"} = {}, MergesGraph(S, P, D)
                 PROVE  MergesGraph(F, P, D)
      OBVIOUS
    <2>1. \A n \in {"entities", "relationships"} : n \in DOMAIN F /\ F[n] = S[n]
      BY <1>1 DEF MergesGraph
    <2> QED
      BY <2>1 DEF MergesGraph, EntityTitles
  <1>6. "text_units" \notin names /\ MergesUnits(S, P, D) => MergesUnits(F, P, D)
    BY <1>1 DEF MergesUnits
  <1>15. "covariates" \notin names /\ MergesClaims(S, P, D) => MergesClaims(F, P, D)
    BY <1>1 DEF MergesClaims
  <1>7. "communities" \notin names /\ MergesCommunities(S, P, D) => MergesCommunities(F, P, D)
    BY <1>1 DEF MergesCommunities
  <1>8. "community_reports" \notin names /\ MergesReports(S, P, D) => MergesReports(F, P, D)
    BY <1>1 DEF MergesReports
  <1>9. /\ k - 1 >= 11 => MergesDocuments(S, P, D)
        /\ k - 1 >= 12 => MergesGraph(S, P, D)
        /\ k - 1 >= 13 => MergesUnits(S, P, D)
        /\ k - 1 >= 14 => MergesClaims(S, P, D)
        /\ k - 1 >= 15 => MergesCommunities(S, P, D)
        /\ k - 1 >= 16 => MergesReports(S, P, D)
    BY DEF Merges
  <1>10. k >= 11 => MergesDocuments(F, P, D)
    BY <1>2, <1>3, <1>4, <1>9
  <1>11. k >= 12 => MergesGraph(F, P, D)
    BY <1>2, <1>3, <1>5, <1>9
  <1>12. k >= 13 => MergesUnits(F, P, D)
    BY <1>2, <1>3, <1>6, <1>9
  <1>16. k >= 14 => MergesClaims(F, P, D)
    BY <1>2, <1>3, <1>15, <1>9
  <1>13. k >= 15 => MergesCommunities(F, P, D)
    BY <1>2, <1>3, <1>7, <1>9
  <1>14. k >= 16 => MergesReports(F, P, D)
    BY <1>2, <1>3, <1>8, <1>9
  <1> QED
    BY <1>10, <1>11, <1>12, <1>13, <1>14, <1>16 DEF Merges

\* Rows of the tables that a workflow reads.
LEMMA RowsFormed ==
  ASSUME Inv, Types, RefInv, NEW name
  PROVE  /\ Has(run.out, name) => Formed(name, Out(name))
         /\ Has("previous", name) => Formed(name, Old(name))
         /\ Has("delta", name) => Formed(name, New(name))
  <1>1. run.out \in Providers /\ {"previous", "delta"} \subseteq Providers
    BY DEF Types, RunTypes, Providers
  <1>2. \A p \in Providers : \A n \in DOMAIN tables[p] : Formed(n, tables[p][n])
    BY DEF RefInv, FormInv
  <1> QED
    BY <1>1, <1>2 DEF Has, Out, Old, New

\* The writes of a workflow are its one table, or its two.
LEMMA OneRow ==
  ASSUME NEW p, NEW name, NEW rows, Formed(name, rows),
         NEW W, W = TableWrites(<<TableWrite(p, name, rows)>>)
  PROVE  /\ W = {TableWrite(p, name, rows)}
         /\ \A w \in W : w.at = p /\ Formed(w.name, w.rows)
  <1> DEFINE w == TableWrite(p, name, rows)
  <1>1. w.at = p /\ w.name = name /\ w.rows = rows
    BY DEF TableWrite
  <1>2. W = {w}
    BY ListedWrites
  <1> HIDE DEF w
  <1>3. \A x \in W : x.at = p /\ Formed(x.name, x.rows)
    BY <1>1, <1>2
  <1> QED
    BY <1>2, <1>3 DEF w

LEMMA TwoRows ==
  ASSUME NEW p, NEW n1, NEW r1, Formed(n1, r1), NEW n2, NEW r2, Formed(n2, r2),
         NEW W, W = TableWrites(<<TableWrite(p, n1, r1)>> \o <<TableWrite(p, n2, r2)>>)
  PROVE  /\ W = {TableWrite(p, n1, r1), TableWrite(p, n2, r2)}
         /\ \A w \in W : w.at = p /\ Formed(w.name, w.rows)
  <1> DEFINE v == TableWrite(p, n1, r1)
             w == TableWrite(p, n2, r2)
  <1>1. /\ v.at = p /\ v.name = n1 /\ v.rows = r1
        /\ w.at = p /\ w.name = n2 /\ w.rows = r2
    BY DEF TableWrite
  <1>2. W = {v, w}
    BY ListedWrites
  <1> HIDE DEF v, w
  <1>3. \A x \in W : x.at = p /\ Formed(x.name, x.rows)
    BY <1>1, <1>2
  <1> QED
    BY <1>2, <1>3 DEF v, w
-----------------------------------------------------------------------------
\* A standard workflow that writes one table, two, or none.
LEMMA OwnOne ==
  ASSUME Inv, CoverInv, RefInv, NEW step, At(step), Place[step] <= 10, NEW name, NEW rows,
         Go(Advance(Writes(name, rows))), Formed(name, rows),
         \A V : /\ SameBut(V, tables[run.out], {name}) /\ name \in DOMAIN V /\ V[name] = rows
                /\ Linked(tables[run.out], Place[step] - 1, runs)
                => Linked(V, Place[step], runs)
  PROVE  RefInv'
  <1> DEFINE p == run.out
             writes == Writes(name, rows)
             W == TableWrites(writes)
  <1>1. Turn(step, writes) /\ Maps(run.entityMap, run.communityMap)
    <2>1. Go(Advance(writes))
      OBVIOUS
    <2> HIDE DEF writes
    <2> QED
      BY <2>1, AdvanceTurn, AdvanceMaps
  <1>2. W = {TableWrite(p, name, rows)} /\ \A w \in W : Formed(w.name, w.rows)
    BY OneRow DEF Writes
  <1>3. \A V : Future(V, W, tables, p) =>
                   SameBut(V, tables[p], {name}) /\ name \in DOMAIN V /\ V[name] = rows
    <2> HIDE DEF W, p
    <2> QED
      BY <1>2, FutureOne
  <1> HIDE DEF W, writes
  <1> QED
    BY <1>1, <1>2, <1>3, OwnRef DEF W

LEMMA OwnTwo ==
  ASSUME Inv, CoverInv, RefInv, NEW step, At(step), Place[step] <= 10,
         NEW n1, NEW r1, NEW n2, NEW r2, n1 # n2,
         Go(Advance(Writes(n1, r1) \o Writes(n2, r2))), Formed(n1, r1), Formed(n2, r2),
         \A V : /\ SameBut(V, tables[run.out], {n1, n2})
                /\ n1 \in DOMAIN V /\ V[n1] = r1 /\ n2 \in DOMAIN V /\ V[n2] = r2
                /\ Linked(tables[run.out], Place[step] - 1, runs)
                => Linked(V, Place[step], runs)
  PROVE  RefInv'
  <1> DEFINE p == run.out
             writes == Writes(n1, r1) \o Writes(n2, r2)
             W == TableWrites(writes)
  <1>1. Turn(step, writes) /\ Maps(run.entityMap, run.communityMap)
    <2>1. Go(Advance(writes))
      OBVIOUS
    <2> HIDE DEF writes
    <2> QED
      BY <2>1, AdvanceTurn, AdvanceMaps
  <1>2. /\ W = {TableWrite(p, n1, r1), TableWrite(p, n2, r2)}
        /\ \A w \in W : Formed(w.name, w.rows)
    BY TwoRows DEF Writes
  <1>3. \A V : Future(V, W, tables, p) =>
                   /\ SameBut(V, tables[p], {n1, n2})
                   /\ n1 \in DOMAIN V /\ V[n1] = r1 /\ n2 \in DOMAIN V /\ V[n2] = r2
    <2> HIDE DEF W, p
    <2> QED
      BY <1>2, FutureTwo
  <1> HIDE DEF W, writes
  <1> QED
    BY <1>1, <1>2, <1>3, OwnRef DEF W

LEMMA OwnNone ==
  ASSUME Inv, CoverInv, RefInv, NEW step, At(step), Place[step] <= 10, NEW writes,
         Go(Advance(writes)), TableWrites(writes) = {},
         \A V : /\ SameBut(V, tables[run.out], {}) /\ Linked(tables[run.out], Place[step] - 1, runs)
                => Linked(V, Place[step], runs)
  PROVE  RefInv'
  <1> DEFINE p == run.out
             W == TableWrites(writes)
  <1>1. Turn(step, writes) /\ Maps(run.entityMap, run.communityMap)
    BY AdvanceTurn, AdvanceMaps
  <1>2. W = {}
    OBVIOUS
  <1> HIDE DEF W
  <1>3. \A V : Future(V, W, tables, p) => SameBut(V, tables[p], {})
    BY <1>2, FutureSame
  <1> QED
    BY <1>1, <1>2, <1>3, OwnRef DEF W

LEMMA AbortRef == ASSUME Inv, RefInv, Abort PROVE RefInv'
  BY FailRef DEF Abort

LEMMA FirstLinks == \A V : Linked(V, 1, runs) /\ Linked(V, 2, runs)
  BY DEF Linked

LEMMA DocumentRowsFormed == ASSUME NEW docs \in SUBSET Docs PROVE Formed("documents", DocumentRows(docs))
  BY DEF Formed, DocumentRows

LEMMA LoadRef == ASSUME Inv, CoverInv, RefInv, load_input_documents PROVE RefInv'
  <1> DEFINE rows == DocumentRows(run.input)
  <1>1. At("load_input_documents") /\ Place["load_input_documents"] = 1
    BY DEF load_input_documents, Place
  <1>2. Abort \/ Go(Advance(Writes("documents", rows)))
    BY DEF load_input_documents
  <1>3. Formed("documents", rows)
    BY DocumentRowsFormed DEF RefInv, FormInv
  <1> HIDE DEF rows
  <1>4. ASSUME Go(Advance(Writes("documents", rows))) PROVE RefInv'
    <2> DEFINE step == "load_input_documents"
    <2>1. At(step) /\ Place[step] <= 10 /\ \A V : Linked(V, Place[step], runs)
      BY <1>1, FirstLinks
    <2> HIDE DEF step
    <2> QED
      BY <1>3, <1>4, <2>1, OwnOne
  <1> QED
    BY <1>2, <1>4, AbortRef

LEMMA LoadUpdateRef == ASSUME Inv, CoverInv, RefInv, load_update_documents PROVE RefInv'
  <1> DEFINE new == run.input \ Column(tables["previous"]["documents"], "id")
             rows == DocumentRows(new)
  <1>1. At("load_update_documents") /\ Place["load_update_documents"] = 1
    BY DEF load_update_documents, Place
  <1>2. Abort \/ (End("Ok") /\ UNCHANGED <<torn, runs>>) \/ Go(Advance(Writes("documents", rows)))
    <2> HIDE DEF new
    <2> QED
      BY Zenon DEF load_update_documents, new, rows
  <1>3. Formed("documents", rows)
    BY DocumentRowsFormed DEF RefInv, FormInv
  <1> HIDE DEF rows
  <1>4. ASSUME Go(Advance(Writes("documents", rows))) PROVE RefInv'
    <2> DEFINE step == "load_update_documents"
    <2>1. At(step) /\ Place[step] <= 10 /\ \A V : Linked(V, Place[step], runs)
      BY <1>1, FirstLinks
    <2> HIDE DEF step
    <2> QED
      BY <1>3, <1>4, <2>1, OwnOne
  <1>5. ASSUME End("Ok"), UNCHANGED <<torn, runs>> PROVE RefInv'
    BY <1>5, EndRef DEF RefInv, ResolvedInv
  <1> QED
    BY <1>2, <1>4, <1>5, AbortRef

LEMMA BaseUnitsRef == ASSUME Inv, Types, CoverInv, RefInv, create_base_text_units PROVE RefInv'
  <1> DEFINE row(d) == [id |-> d, doc |-> d, entities |-> {}, relationships |-> {}, covariates |-> {}]
             D == Column(Out("documents"), "id") \ Blank
             units == {row(d) : d \in D}
             writes == IF units = {} THEN <<>> ELSE Writes("text_units", units)
  <1>1. At("create_base_text_units") /\ Place["create_base_text_units"] = 2
    BY DEF create_base_text_units, Place
  <1>2. Abort \/ (Has(run.out, "documents") /\ Go(Advance(writes)))
    BY DEF create_base_text_units, Reads
  <1>3. ASSUME Has(run.out, "documents"), Go(Advance(writes)) PROVE RefInv'
    <2>1. Formed("documents", Out("documents"))
      BY <1>3, RowsFormed
    <2>2. D \subseteq Docs
      BY <2>1 DEF Formed, Column
    <2>3. \A d : UnitFields \subseteq DOMAIN row(d) /\ row(d).id = d
      BY DEF UnitFields
    <2> HIDE DEF row, D
    <2>4. \A u \in units : FormedUnit(u)
      BY <2>2, <2>3 DEF FormedUnit
    <2>5. Formed("text_units", units)
      BY <2>4 DEF Formed
    <2> DEFINE step == "create_base_text_units"
    <2>6. At(step) /\ Place[step] <= 10 /\ \A V : Linked(V, Place[step], runs)
      BY <1>1, FirstLinks
    <2> HIDE DEF units, step
    <2>7. CASE units = {}
      BY <1>3, <2>6, <2>7, EmptyWrites, OwnNone
    <2>8. CASE units # {}
      BY <1>3, <2>5, <2>6, <2>8, OwnOne
    <2> QED
      BY <2>7, <2>8
  <1> QED
    BY <1>2, <1>3, AbortRef

LEMMA DocumentsRef == ASSUME Inv, Types, CoverInv, RefInv, create_final_documents PROVE RefInv'
  <1> DEFINE S == tables[run.out]
             rows == FinalDocuments(S["documents"], S["text_units"])
  <1>1. At("create_final_documents") /\ Place["create_final_documents"] = 3
    BY DEF create_final_documents, Place
  <1>2. Abort \/ (Reads(run.out, {"documents", "text_units"}) /\ Go(Advance(Writes("documents", rows))))
    BY DEF create_final_documents, FinalDocuments, UnitsOf, Out
  <1>3. ASSUME Reads(run.out, {"documents", "text_units"}), Go(Advance(Writes("documents", rows)))
        PROVE  RefInv'
    <2>1. Has(run.out, "documents") /\ "text_units" \in DOMAIN S
      BY <1>3 DEF Reads, Has
    <2>2. Formed("documents", Out("documents"))
      BY <2>1, RowsFormed
    <2>3. Formed("documents", rows)
      BY <2>2 DEF Formed, FinalDocuments, Out
    <2>4. \A V : SameBut(V, S, {"documents"}) /\ "documents" \in DOMAIN V /\ V["documents"] = rows
                     => Linked(V, 3, runs)
      BY <2>1, LinksDocuments
    <2> DEFINE step == "create_final_documents"
    <2>5. At(step) /\ Place[step] = 3 /\ Place[step] <= 10
      BY <1>1
    <2> HIDE DEF rows, step
    <2>6. \A V : /\ SameBut(V, S, {"documents"}) /\ "documents" \in DOMAIN V /\ V["documents"] = rows
                 /\ Linked(S, Place[step] - 1, runs)
                 => Linked(V, Place[step], runs)
      BY <2>4, <2>5
    <2> QED
      BY <1>3, <2>3, <2>5, <2>6, OwnOne
  <1> QED
    BY <1>2, <1>3, AbortRef

\* The graph of text units of known documents has known titles and known pairs.
LEMMA GraphFormed ==
  ASSUME NEW ids \in SUBSET Docs
  PROVE  /\ Formed("entities", {GraphEntity(ids, m) : m \in GraphMentions(ids)})
         /\ Formed("relationships", {GraphRelationship(ids, p) : p \in GraphPairs(ids)})
  <1>1. \A m \in GraphMentions(ids) : m[1] \in Titles
    <2> SUFFICES ASSUME NEW m \in GraphMentions(ids) PROVE m[1] \in Titles
      OBVIOUS
    <2>1. PICK u \in ids : m \in Mentions[u]
      BY DEF GraphMentions
    <2>2. m \in Titles \X EntityTypes
      BY <2>1, IndexAssumption
    <2> QED
      BY <2>2
  <1>2. ASSUME NEW p \in GraphPairs(ids) PROVE <<p[1], p[2]>> \in Pairs
    <2>1. PICK u \in ids : p \in Links[u]
      BY DEF GraphPairs, FilterOrphans
    <2>2. p \in Titles \X Titles
      BY <2>1, IndexAssumption
    <2>3. p = <<p[1], p[2]>>
      BY <2>2
    <2>4. p \in Pairs
      BY <2>1 DEF Pairs
    <2> QED
      BY <2>3, <2>4
  <1>3. \A m : /\ {"id", "title", "units"} \subseteq DOMAIN GraphEntity(ids, m)
               /\ GraphEntity(ids, m).title = m[1]
    BY DEF GraphEntity
  <1>4. \A p : /\ {"id", "source", "target", "units"} \subseteq DOMAIN GraphRelationship(ids, p)
               /\ GraphRelationship(ids, p).source = p[1] /\ GraphRelationship(ids, p).target = p[2]
    BY DEF GraphRelationship
  <1>5. \A m \in GraphMentions(ids) : FormedEntity(GraphEntity(ids, m))
    BY <1>1, <1>3 DEF FormedEntity
  <1>6. \A p \in GraphPairs(ids) : FormedRelationship(GraphRelationship(ids, p))
    BY <1>2, <1>4 DEF FormedRelationship
  <1> QED
    BY <1>5, <1>6 DEF Formed

LEMMA GraphRef == ASSUME Inv, Types, CoverInv, RefInv, extract_graph PROVE RefInv'
  <1> DEFINE step == "extract_graph"
             S == tables[run.out]
             ids == Units(S)
             entities == {GraphEntity(ids, m) : m \in GraphMentions(ids)}
             relationships == {GraphRelationship(ids, p) : p \in GraphPairs(ids)}
  <1>1. At(step) /\ Place[step] = 4 /\ Place[step] <= 10 /\ Place[step] - 1 = 3
    BY DEF extract_graph, Place
  <1>2. ids = Column(Out("text_units"), "id")
    BY DEF Units, Out
  <1>3. \/ Abort
        \/ /\ Has(run.out, "text_units")
           /\ Go(Advance(Writes("entities", entities) \o Writes("relationships", relationships)))
    <2> DEFINE units == Column(Out("text_units"), "id")
               mentions == UNION {Mentions[u] : u \in units}
               pairs == FilterOrphans(UNION {Links[u] : u \in units}, TitlesIn(mentions))
               E == {[id |-> None, title |-> m[1], type |-> m[2],
                      units |-> {u \in units : m \in Mentions[u]}] : m \in mentions}
               R == {[id |-> None, source |-> p[1], target |-> p[2],
                      units |-> {u \in units : p \in Links[u]}] : p \in pairs}
    <2>1. \/ Abort
          \/ Reads(run.out, {"text_units"}) /\ Go(Advance(Writes("entities", E) \o Writes("relationships", R)))
      BY Zenon DEF extract_graph
    <2>2. mentions = GraphMentions(ids) /\ pairs = GraphPairs(ids)
      BY <1>2 DEF GraphMentions, GraphTitles, GraphPairs
    <2>3. E = entities
      <3> HIDE DEF mentions, ids
      <3> QED
        BY <1>2, <2>2 DEF GraphEntity
    <2>4. R = relationships
      <3> HIDE DEF pairs, ids
      <3> QED
        BY <1>2, <2>2 DEF GraphRelationship
    <2>5. Reads(run.out, {"text_units"}) => Has(run.out, "text_units")
      BY DEF Reads
    <2> HIDE DEF E, R, entities, relationships
    <2> QED
      BY <2>1, <2>3, <2>4, <2>5
  <1>4. ASSUME Has(run.out, "text_units"),
               Go(Advance(Writes("entities", entities) \o Writes("relationships", relationships)))
        PROVE  RefInv'
    <2>1. Formed("text_units", Out("text_units"))
      BY <1>4, RowsFormed
    <2>2. ids \subseteq Docs
      BY <1>2, <2>1 DEF Formed, FormedUnit, Column
    <2> HIDE DEF ids
    <2>3. Formed("entities", entities) /\ Formed("relationships", relationships)
      BY <2>2, GraphFormed
    <2> HIDE DEF step
    <2>4. ASSUME NEW V, SameBut(V, S, {"entities", "relationships"}),
                 "entities" \in DOMAIN V, V["entities"] = entities,
                 "relationships" \in DOMAIN V, V["relationships"] = relationships,
                 Linked(S, Place[step] - 1, runs)
          PROVE  Linked(V, Place[step], runs)
      BY <1>1, <2>4, LinksGraph DEF ids
    <2> HIDE DEF entities, relationships
    <2> QED
      BY <1>1, <1>4, <2>3, <2>4, OwnTwo
  <1> QED
    BY <1>3, <1>4, AbortRef

LEMMA FinalizeRef == ASSUME Inv, Types, CoverInv, RefInv, finalize_graph PROVE RefInv'
  <1> DEFINE step == "finalize_graph"
             S == tables[run.out]
             entities(kept) == {KeyedEntity(e) : e \in kept}
             relationships == {KeyedRelationship(r) : r \in S["relationships"]}
  <1>1. At(step) /\ Place[step] = 5 /\ Place[step] <= 10 /\ Place[step] - 1 = 4
    <2>1. At(step)
      BY Zenon DEF finalize_graph
    <2> QED
      BY <2>1 DEF Place
  <1>2. \/ Abort
        \/ /\ Has(run.out, "entities") /\ Has(run.out, "relationships")
           /\ \E kept \in FirstRows(S["entities"]) :
                  Go(Advance(Writes("entities", entities(kept)) \o Writes("relationships", relationships)))
    BY Zenon DEF finalize_graph, KeyedEntity, KeyedRelationship, Out, Reads
  <1>3. ASSUME Has(run.out, "entities"), Has(run.out, "relationships"),
               NEW kept \in FirstRows(S["entities"]),
               Go(Advance(Writes("entities", entities(kept)) \o Writes("relationships", relationships)))
        PROVE  RefInv'
    <2> DEFINE E == entities(kept)
    <2>1. Formed("entities", S["entities"]) /\ Formed("relationships", S["relationships"])
      BY <1>3, RowsFormed DEF Out
    <2>7. kept \subseteq S["entities"]
      BY FirstRowsAre
    <2>2. \A e \in kept : FormedEntity(KeyedEntity(e))
      BY <2>1, <2>7 DEF Formed, FormedEntity, KeyedEntity
    <2>3. \A r \in S["relationships"] : FormedRelationship(KeyedRelationship(r))
      BY <2>1 DEF Formed, FormedRelationship, KeyedRelationship
    <2>4. Formed("entities", E) /\ Formed("relationships", relationships)
      BY <2>2, <2>3 DEF Formed
    <2>5. runs \in 0..MaxRuns
      BY DEF Types, RunTypes
    <2> HIDE DEF step
    <2>6. ASSUME NEW V, SameBut(V, S, {"entities", "relationships"}),
                 "entities" \in DOMAIN V, V["entities"] = E,
                 "relationships" \in DOMAIN V, V["relationships"] = relationships,
                 Linked(S, Place[step] - 1, runs)
          PROVE  Linked(V, Place[step], runs)
      BY <1>1, <2>1, <2>5, <2>6, LinksNames
    <2>8. Go(Advance(Writes("entities", E) \o Writes("relationships", relationships)))
      BY <1>3
    <2> HIDE DEF entities, E, relationships
    <2> QED
      BY <1>1, <2>4, <2>6, <2>8, OwnTwo
  <1> QED
    BY <1>2, <1>3, AbortRef

LEMMA ClaimsRef == ASSUME Inv, CoverInv, RefInv, extract_covariates PROVE RefInv'
  <1> DEFINE step == "extract_covariates"
             S == tables[run.out]
  <1>1. At(step) /\ Place[step] = 6 /\ Place[step] <= 10
    BY DEF extract_covariates, Place
  <1>2. Abort \/ Go(Advance(<<>>)) \/ \E rows : Go(Advance(Writes("covariates", rows)))
    BY Zenon DEF extract_covariates
  <1> HIDE DEF step
  <1>3. ASSUME NEW V, NEW names, SameBut(V, S, names), names \subseteq {"covariates"},
               Linked(S, Place[step] - 1, runs)
        PROVE  Linked(V, Place[step], runs)
    <2> DEFINE k == Place[step]
    <2>1. k \in Nat /\ k = 6
      BY <1>1
    <2>2. Linked(S, k - 1, runs)
      BY <1>3
    <2> HIDE DEF k, S
    <2>3. Linked(V, k, runs)
      BY <1>3, <2>1, <2>2, LinksUntouched
    <2> QED
      BY <2>3 DEF k
  <1>4. ASSUME Go(Advance(<<>>)) PROVE RefInv'
    <2>1. \A V : SameBut(V, S, {}) /\ Linked(S, Place[step] - 1, runs) => Linked(V, Place[step], runs)
      BY <1>3
    <2> QED
      BY <1>1, <1>4, <2>1, EmptyWrites, OwnNone
  <1>5. ASSUME NEW rows, Go(Advance(Writes("covariates", rows))) PROVE RefInv'
    <2>1. Formed("covariates", rows)
      BY DEF Formed
    <2> DEFINE names == {"covariates"}
    <2>2. names \subseteq {"covariates"}
      OBVIOUS
    <2> HIDE DEF names
    <2>3. \A V : SameBut(V, S, names) /\ Linked(S, Place[step] - 1, runs) => Linked(V, Place[step], runs)
      BY <1>3, <2>2
    <2> QED
      BY <1>1, <1>5, <2>1, <2>3, OwnOne DEF names
  <1> QED
    BY <1>2, <1>4, <1>5, AbortRef


LEMMA CommunitiesRef == ASSUME Inv, Types, CoverInv, RefInv, create_communities PROVE RefInv'
  <1> DEFINE step == "create_communities"
             S == tables[run.out]
             R == S["relationships"]
             rows == CommunityRows(S["entities"], R)
  <1>1. At(step) /\ Place[step] = 7 /\ Place[step] <= 10 /\ Place[step] - 1 = 6
    BY DEF create_communities, Place
  <1>2. Abort \/ (Has(run.out, "relationships") /\ Go(Advance(Writes("communities", rows))))
    BY Zenon DEF create_communities, Out, Reads
  <1>3. ASSUME Has(run.out, "relationships"), Go(Advance(Writes("communities", rows))) PROVE RefInv'
    <2>1. Formed("relationships", R)
      BY <1>3, RowsFormed DEF Out
    <2> DEFINE ids == UNION {r.units : r \in R}
    <2>2. WithinUnits(R, ids)
      BY DEF WithinUnits
    <2>3. \A c \in rows : CommunityFields \subseteq DOMAIN c
      BY <2>1, <2>2, CommunityLinks
    <2>4. Formed("communities", rows)
      BY <2>3 DEF Formed
    <2> HIDE DEF step
    <2>5. \A V : /\ SameBut(V, S, {"communities"}) /\ "communities" \in DOMAIN V /\ V["communities"] = rows
                 /\ Linked(S, Place[step] - 1, runs)
                 => Linked(V, Place[step], runs)
      BY <1>1, <2>1, LinksCommunities
    <2> HIDE DEF rows
    <2> QED
      BY <1>1, <1>3, <2>4, <2>5, OwnOne
  <1> QED
    BY <1>2, <1>3, AbortRef

LEMMA FinalUnitsRef == ASSUME Inv, Types, CoverInv, RefInv, create_final_text_units PROVE RefInv'
  <1> DEFINE step == "create_final_text_units"
             S == tables[run.out]
             claims == IF Claims /\ Has(run.out, "covariates") THEN Out("covariates") ELSE {}
             row(u) == FinalUnit(u, S["entities"], S["relationships"], claims)
             rows == {row(u) : u \in S["text_units"]}
  <1>1. At(step) /\ Place[step] = 8 /\ Place[step] <= 10 /\ Place[step] - 1 = 7
    <2>1. At(step)
      BY Zenon DEF create_final_text_units
    <2> QED
      BY <2>1 DEF Place
  <1>2. Abort \/ (Has(run.out, "text_units") /\ Go(Advance(Writes("text_units", rows))))
    BY Zenon DEF create_final_text_units, FinalUnit, Out, Reads
  <1>3. ASSUME Has(run.out, "text_units"), Go(Advance(Writes("text_units", rows))) PROVE RefInv'
    <2>1. Formed("text_units", S["text_units"])
      BY <1>3, RowsFormed DEF Out
    <2>5. Column(claims, "id") \subseteq ClaimIds(S)
      BY DEF Column, ClaimIds, Has, Out
    <2> HIDE DEF claims
    <2>2. \A u \in S["text_units"] : FormedUnit(row(u))
      BY <2>1 DEF Formed, FormedUnit, UnitFields, FinalUnit
    <2>3. Formed("text_units", rows)
      BY <2>2 DEF Formed
    <2> HIDE DEF step
    <2>4. \A V : /\ SameBut(V, S, {"text_units"}) /\ "text_units" \in DOMAIN V /\ V["text_units"] = rows
                 /\ Linked(S, Place[step] - 1, runs)
                 => Linked(V, Place[step], runs)
      BY <1>1, <2>1, <2>5, LinksUnits
    <2> HIDE DEF rows
    <2> QED
      BY <1>1, <1>3, <2>3, <2>4, OwnOne
  <1> QED
    BY <1>2, <1>3, AbortRef

LEMMA ReportsRef == ASSUME Inv, CoverInv, RefInv, create_community_reports PROVE RefInv'
  <1> DEFINE step == "create_community_reports"
             S == tables[run.out]
             rows(lost) == {ReportRow(c) : c \in {c \in S["communities"] : c.number \notin lost}}
  <1>1. At(step) /\ Place[step] = 9 /\ Place[step] <= 10 /\ Place[step] - 1 = 8
    BY DEF create_community_reports, Place
  <1>2. Abort \/ \E lost : Go(Advance(Writes("community_reports", rows(lost))))
    BY Zenon DEF create_community_reports, ReportRow, Out
  <1>3. ASSUME NEW lost, Go(Advance(Writes("community_reports", rows(lost)))) PROVE RefInv'
    <2> DEFINE reports == rows(lost)
    <2>1. Formed("community_reports", reports)
      BY DEF Formed, ReportRow
    <2> HIDE DEF step
    <2>2. \A V : /\ SameBut(V, S, {"community_reports"}) /\ "community_reports" \in DOMAIN V
                 /\ V["community_reports"] = reports /\ Linked(S, Place[step] - 1, runs)
                 => Linked(V, Place[step], runs)
      BY <1>1, LinksReports
    <2>3. Go(Advance(Writes("community_reports", reports)))
      BY <1>3
    <2> HIDE DEF reports
    <2> QED
      BY <1>1, <2>1, <2>2, <2>3, OwnOne
  <1> QED
    BY <1>2, <1>3, AbortRef

LEMMA EmbeddingsRef == ASSUME Inv, CoverInv, RefInv, generate_text_embeddings PROVE RefInv'
  <1> DEFINE step == "generate_text_embeddings"
             S == tables[run.out]
             writes == Embeddings(run.out)
  <1>1. At(step) /\ Place[step] = 10 /\ Place[step] <= 10 /\ Go(Advance(writes))
    BY DEF generate_text_embeddings, run_text_embeddings, Embeddings, Place
  <1>2. TableWrites(writes) = {}
    BY EmbedPlan, NoTableWrites DEF Embeddings
  <1> HIDE DEF step, writes
  <1>3. \A V : SameBut(V, S, {}) /\ Linked(S, Place[step] - 1, runs) => Linked(V, Place[step], runs)
    <2> DEFINE k == Place[step]
               names == {}
    <2>1. k \in Nat /\ k >= 10 /\ names = {} /\ names \subseteq {"covariates"}
      BY <1>1
    <2> HIDE DEF k, S, names
    <2>2. \A V : SameBut(V, S, names) /\ Linked(S, k - 1, runs) => Linked(V, k, runs)
      BY <2>1, LinksUntouched
    <2> QED
      BY <2>2 DEF k, S, names
  <1> QED
    BY <1>1, <1>2, <1>3, OwnNone

LEMMA OwnWorkflowsRef ==
  ASSUME Inv, Types, CoverInv, RefInv,
         \/ load_input_documents \/ create_base_text_units \/ create_final_documents
         \/ extract_graph \/ finalize_graph \/ extract_covariates \/ create_communities
         \/ create_final_text_units \/ create_community_reports \/ generate_text_embeddings
  PROVE  RefInv'
  BY LoadRef, BaseUnitsRef, DocumentsRef, GraphRef, FinalizeRef, ClaimsRef, CommunitiesRef,
     FinalUnitsRef, ReportsRef, EmbeddingsRef
-----------------------------------------------------------------------------
\* The merge.  A workflow that writes one table, the two of the graph, or none.
MergedNow(F, P, D, k) ==
    /\ k = 11 => MergesDocuments(F, P, D)
    /\ k = 12 => MergesGraph(F, P, D)
    /\ k = 13 => MergesUnits(F, P, D)
    /\ k = 14 => MergesClaims(F, P, D)
    /\ k = 15 => MergesCommunities(F, P, D)
    /\ k = 16 => MergesReports(F, P, D)

LEMMA JoinNow ==
  ASSUME Inv, CoverInv, RefInv, NEW step, NEW writes, Turn(step, writes),
         NEW W, W = TableWrites(writes), NEW m, NEW n, Maps(m, n), MapInv', Place[step] > 10,
         \A w \in W : w.at = "final" /\ Formed(w.name, w.rows),
         \A F : Future(F, W, tables, "final") =>
                    /\ SameBut(F, tables["final"], MergedAt(Place[step]))
                    /\ MergedNow(F, tables["previous"], tables["delta"], Place[step])
  PROVE  RefInv'
  <1> DEFINE k == Place[step]
             S == tables["final"]
             P == tables["previous"]
             D == tables["delta"]
  <1>1. k \in 11..18
    <2>1. k \in 1..18
      BY Standing DEF Turn
    <2> QED
      BY <2>1
  <1>2. ASSUME NEW F, Future(F, W, tables, "final"), Merges(S, P, D, k - 1)
        PROVE  Merges(F, P, D, k)
    <2>1. SameBut(F, S, MergedAt(k)) /\ MergedNow(F, P, D, k)
      BY <1>2
    <2> HIDE DEF k, S, P, D
    <2> QED
      BY <1>1, <1>2, <2>1, MergesNext DEF MergedNow
  <1>3. {"entityMap", "communityMap"} \subseteq DOMAIN run'
    BY DEF Maps
  <1> QED
    BY <1>2, <1>3, JoinRef

LEMMA JoinOne ==
  ASSUME Inv, CoverInv, RefInv, NEW step, NEW name, NEW rows, Turn(step, Merged(name, rows)),
         NEW m, NEW n, Maps(m, n), MapInv', Place[step] > 10, Formed(name, rows),
         MergedAt(Place[step]) = {name},
         \A F : name \in DOMAIN F /\ F[name] = rows =>
                    MergedNow(F, tables["previous"], tables["delta"], Place[step])
  PROVE  RefInv'
  <1> DEFINE writes == Merged(name, rows)
             W == TableWrites(writes)
             p == "final"
  <1>1. W = {TableWrite(p, name, rows)} /\ \A w \in W : w.at = p /\ Formed(w.name, w.rows)
    BY OneRow DEF Merged
  <1>2. \A F : Future(F, W, tables, p) =>
                   SameBut(F, tables[p], {name}) /\ name \in DOMAIN F /\ F[name] = rows
    <2> HIDE DEF W, p
    <2> QED
      BY <1>1, FutureOne
  <1>3. Turn(step, writes)
    OBVIOUS
  <1> HIDE DEF W, writes
  <1> QED
    BY <1>1, <1>2, <1>3, JoinNow DEF W

LEMMA JoinNone ==
  ASSUME Inv, CoverInv, RefInv, NEW step, NEW writes, Turn(step, writes), TableWrites(writes) = {},
         NEW m, NEW n, Maps(m, n), MapInv', Place[step] \in {14, 17, 18},
         Place[step] = 14 => ~Both({"covariates"})
  PROVE  RefInv'
  <1> DEFINE W == TableWrites(writes)
             p == "final"
  <1>1. W = {}
    OBVIOUS
  <1> HIDE DEF W
  <1>2. \A F : Future(F, W, tables, p) => SameBut(F, tables[p], MergedAt(Place[step]))
    <2>1. \A F : Future(F, W, tables, p) => SameBut(F, tables[p], {})
      BY <1>1, FutureSame
    <2> QED
      BY <2>1 DEF SameBut
  <1>3. \A F : MergedNow(F, tables["previous"], tables["delta"], Place[step])
    BY DEF MergedNow, MergesClaims, Both, Reads, Has
  <1>4. Place[step] > 10
    OBVIOUS
  <1> QED
    BY <1>1, <1>2, <1>3, <1>4, JoinNow DEF W


LEMMA CommunitiesFormed ==
  ASSUME NEW P, NEW D, Formed("communities", P), Formed("communities", D), NEW map
  PROVE  Formed("communities", P \cup Renumber(D, map))
  <1> DEFINE fields == CommunityFields
             row(c) == [c EXCEPT !.number = Mapped(map, @), !.parent = Mapped(map, @)]
  <1>1. /\ \A c \in P : fields \subseteq DOMAIN c
        /\ \A c \in D : fields \subseteq DOMAIN c
    BY DEF Formed
  <1>2. Renumber(D, map) = {row(c) : c \in D}
    BY DEF Renumber
  <1>3. \A c : DOMAIN row(c) = DOMAIN c
    OBVIOUS
  <1> HIDE DEF row, fields
  <1>4. \A c \in P \cup Renumber(D, map) : fields \subseteq DOMAIN c
    BY <1>1, <1>2, <1>3
  <1> QED
    BY <1>4 DEF Formed, fields

LEMMA MergeDocumentsRef ==
  ASSUME Inv, Types, CoverInv, RefInv, update_final_documents
  PROVE  RefInv'
  <1> DEFINE step == "update_final_documents"
             name == "documents"
             rows == Concatenated(name)
  <1>1. At(step) /\ Place[step] = 11 /\ Place[step] > 10 /\ Place[step] \notin {12, 15}
    BY DEF update_final_documents, Place
  <1>2. Abort \/ (Has("previous", name) /\ Has("delta", name) /\ Go(Advance(Merged(name, rows))))
    BY DEF update_final_documents, Both, Reads
  <1>3. ASSUME Has("previous", name), Has("delta", name), Go(Advance(Merged(name, rows)))
        PROVE  RefInv'
    <2>1. Formed(name, Old(name)) /\ Formed(name, New(name))
      BY <1>3, RowsFormed
    <2>2. Formed(name, rows)
      BY <2>1 DEF Formed, Concatenated
    <2>3. \A F : name \in DOMAIN F /\ F[name] = rows =>
                     MergedNow(F, tables["previous"], tables["delta"], 11)
      BY DEF MergedNow, MergesDocuments, Concatenated, Old, New
    <2>4. MergedAt(11) = {name} /\ run.mode = "Update"
      BY <1>1, Standing DEF MergedAt
    <2> HIDE DEF rows, name, step
    <2>5. Turn(step, Merged(name, rows)) /\ Maps(run.entityMap, run.communityMap)
      BY <1>1, <1>3, AdvanceTurn, AdvanceMaps
    <2>6. MapInv'
      BY <1>1, <2>4, <2>5, MapsStay
    <2> QED
      BY <1>1, <2>2, <2>3, <2>4, <2>5, <2>6, JoinOne
  <1> QED
    BY <1>2, <1>3, AbortRef

LEMMA MergeGraphRef ==
  ASSUME Inv, Types, CoverInv, RefInv, update_entities_relationships
  PROVE  RefInv'
  <1> DEFINE step == "update_entities_relationships"
             E == MergeEntities(Old("entities"), New("entities"))
             R == MergeRelationships(Old("relationships"), New("relationships"), Column(E, "title"))
             map == EntityMap(Old("entities"), New("entities"))
             writes == Merged("entities", E) \o Merged("relationships", R)
             W == TableWrites(writes)
             p == "final"
  <1>1. At(step) /\ Place[step] = 12 /\ Place[step] > 10
    <2>1. At(step)
      BY Zenon DEF update_entities_relationships
    <2> QED
      BY <2>1 DEF Place
  <1>2. \/ Abort
        \/ /\ \A name \in {"entities", "relationships"} : Has("previous", name) /\ Has("delta", name)
           /\ Go([Advance(writes) EXCEPT !.entityMap = map])
    BY Zenon DEF update_entities_relationships, Both, Reads
  <1>3. ASSUME \A name \in {"entities", "relationships"} : Has("previous", name) /\ Has("delta", name),
               Go([Advance(writes) EXCEPT !.entityMap = map])
        PROVE  RefInv'
    <2>1. \A name \in {"entities", "relationships"} : Formed(name, Old(name)) /\ Formed(name, New(name))
      BY <1>3, RowsFormed
    <2>2. Formed("entities", E)
      BY <2>1, EntitiesMerge
    <2>3. Formed("relationships", R)
      <3> DEFINE titles == Column(E, "title")
      <3>1. R = MergeRelationships(Old("relationships"), New("relationships"), titles)
        OBVIOUS
      <3> HIDE DEF R, titles
      <3> QED
        BY <2>1, <3>1, RelationshipsMerge
    <2>4. run.mode = "Update" /\ Done = 11
      BY <1>1, Standing
    <2>5. Turn(step, writes) /\ Maps(map, run.communityMap)
      <3> HIDE DEF writes, map, step
      <3> QED
        BY <1>1, <1>3, AdvanceTurn, AdvanceMaps
    <2>6. run.communityMap = None
      BY <2>4 DEF RefInv, UnionInv, MapInv
    <2>7. MapInv'
      <3>1. map = EntityMap(Old("entities"), New("entities")) /\ ~(Place[step] < 12)
        BY <1>1
      <3> HIDE DEF map, step, writes
      <3> QED
        BY <2>4, <2>5, <2>6, <3>1, MapsNow
    <2>8. ASSUME NEW F, "entities" \in DOMAIN F, F["entities"] = E,
                 "relationships" \in DOMAIN F, F["relationships"] = R
          PROVE  MergedNow(F, tables["previous"], tables["delta"], 12)
      BY <2>8 DEF MergedNow, MergesGraph, EntityTitles, Old, New
    <2>9. MergedAt(12) = {"entities", "relationships"}
      BY DEF MergedAt
    <2> HIDE DEF E, R, map
    <2>10. /\ W = {TableWrite(p, "entities", E), TableWrite(p, "relationships", R)}
           /\ \A w \in W : w.at = p /\ Formed(w.name, w.rows)
      BY <2>2, <2>3, TwoRows DEF Merged
    <2>11. \A F : Future(F, W, tables, p) =>
                     /\ SameBut(F, tables[p], {"entities", "relationships"})
                     /\ "entities" \in DOMAIN F /\ F["entities"] = E
                     /\ "relationships" \in DOMAIN F /\ F["relationships"] = R
      <3> SUFFICES ASSUME NEW F, Future(F, W, tables, p)
                   PROVE  /\ SameBut(F, tables[p], {"entities", "relationships"})
                          /\ "entities" \in DOMAIN F /\ F["entities"] = E
                          /\ "relationships" \in DOMAIN F /\ F["relationships"] = R
        OBVIOUS
      <3> DEFINE n1 == "entities"
                 n2 == "relationships"
      <3>1. n1 # n2 /\ Future(F, {TableWrite(p, n1, E), TableWrite(p, n2, R)}, tables, p)
        BY <2>10
      <3> HIDE DEF p, n1, n2
      <3>2. /\ SameBut(F, tables[p], {n1, n2})
            /\ n1 \in DOMAIN F /\ F[n1] = E /\ n2 \in DOMAIN F /\ F[n2] = R
        BY <3>1, FutureTwo
      <3> QED
        BY <3>2 DEF n1, n2
    <2> HIDE DEF W, writes, step
    <2>12. \A F : Future(F, W, tables, "final") =>
                     /\ SameBut(F, tables["final"], MergedAt(Place[step]))
                     /\ MergedNow(F, tables["previous"], tables["delta"], Place[step])
      BY <1>1, <2>8, <2>9, <2>11
    <2> QED
      BY <1>1, <2>5, <2>7, <2>10, <2>12, JoinNow DEF W
  <1> QED
    BY <1>2, <1>3, AbortRef

LEMMA MergeUnitsRef ==
  ASSUME Inv, Types, CoverInv, RefInv, update_text_units
  PROVE  RefInv'
  <1> DEFINE step == "update_text_units"
             name == "text_units"
             rows == Old(name) \cup MapUnits(New(name), run.entityMap)
  <1>1. At(step) /\ Place[step] = 13 /\ Place[step] > 10 /\ Place[step] \notin {12, 15}
    BY DEF update_text_units, Place
  <1>2. \/ Abort
        \/ /\ run.entityMap # None /\ Has("previous", name) /\ Has("delta", name)
           /\ Go(Advance(Merged(name, rows)))
    BY Zenon DEF update_text_units, Both, Reads, MapUnits, MapUnit
  <1>3. ASSUME run.entityMap # None, Has("previous", name), Has("delta", name),
               Go(Advance(Merged(name, rows)))
        PROVE  RefInv'
    <2>1. Formed(name, Old(name)) /\ Formed(name, New(name))
      BY <1>3, RowsFormed
    <2>2. Formed(name, rows)
      BY <2>1, UnitsMerge
    <2>3. run.mode = "Update" /\ Done = 12
      BY <1>1, Standing
    <2>4. run.entityMap = EntityMap(Old("entities"), New("entities"))
      BY <1>3, <2>3 DEF RefInv, UnionInv, MapInv
    <2>5. \A F : name \in DOMAIN F /\ F[name] = rows =>
                     MergedNow(F, tables["previous"], tables["delta"], 13)
      BY <2>4 DEF MergedNow, MergesUnits, Old, New
    <2>6. MergedAt(13) = {name}
      BY DEF MergedAt
    <2> HIDE DEF rows, name, step
    <2>7. Turn(step, Merged(name, rows)) /\ Maps(run.entityMap, run.communityMap)
      BY <1>1, <1>3, AdvanceTurn, AdvanceMaps
    <2>8. MapInv'
      BY <1>1, <2>3, <2>7, MapsStay
    <2> QED
      BY <1>1, <2>2, <2>5, <2>6, <2>7, <2>8, JoinOne
  <1> QED
    BY <1>2, <1>3, AbortRef

LEMMA MergeClaimsRef ==
  ASSUME Inv, CoverInv, RefInv, update_covariates
  PROVE  RefInv'
  <1> DEFINE step == "update_covariates"
             name == "covariates"
             rows == Concatenated(name)
  <1>1. At(step) /\ Place[step] = 14 /\ Place[step] > 10 /\ Place[step] \notin {12, 15}
        /\ Place[step] \in {14, 17, 18}
    BY DEF update_covariates, Place
  <1>2. \/ ~Both({name}) /\ Go(Advance(<<>>))
        \/ Both({name}) /\ Go(Advance(Merged(name, rows)))
    BY Zenon DEF update_covariates
  <1>3. Formed(name, rows) /\ MergedAt(14) = {name} /\ run.mode = "Update"
    BY <1>1, Standing DEF Formed, MergedAt
  <1>4. \A F : name \in DOMAIN F /\ F[name] = rows =>
                   MergedNow(F, tables["previous"], tables["delta"], 14)
    BY DEF MergedNow, MergesClaims, Concatenated, Old, New
  <1>7. name = "covariates"
    OBVIOUS
  <1> HIDE DEF rows, name, step
  <1>5. ASSUME ~Both({name}), Go(Advance(<<>>)) PROVE RefInv'
    <2> DEFINE writes == <<>>
    <2>1. TableWrites(writes) = {} /\ Go(Advance(writes))
      BY <1>5, EmptyWrites
    <2> HIDE DEF writes
    <2>2. Turn(step, writes) /\ Maps(run.entityMap, run.communityMap)
      BY <1>1, <2>1, AdvanceTurn, AdvanceMaps
    <2>3. MapInv'
      BY <1>1, <1>3, <2>2, MapsStay
    <2> QED
      BY <1>1, <1>5, <1>7, <2>1, <2>2, <2>3, JoinNone
  <1>6. ASSUME Go(Advance(Merged(name, rows))) PROVE RefInv'
    <2>1. Turn(step, Merged(name, rows)) /\ Maps(run.entityMap, run.communityMap)
      BY <1>1, <1>6, AdvanceTurn, AdvanceMaps
    <2>2. MapInv'
      BY <1>1, <1>3, <2>1, MapsStay
    <2> QED
      BY <1>1, <1>3, <1>4, <2>1, <2>2, JoinOne
  <1> QED
    BY <1>2, <1>5, <1>6


LEMMA MergeCommunitiesRef ==
  ASSUME Inv, Types, CoverInv, RefInv, update_communities
  PROVE  RefInv'
  <1> DEFINE step == "update_communities"
             name == "communities"
             map == CommunityMap(Old(name), New(name))
             rows == Old(name) \cup Renumber(New(name), map)
  <1>1. At(step) /\ Place[step] = 15 /\ Place[step] > 10
    <2>1. At(step)
      BY Zenon DEF update_communities
    <2> QED
      BY <2>1 DEF Place
  <1>2. \/ Abort
        \/ /\ Has("previous", name) /\ Has("delta", name)
           /\ Go([Advance(Merged(name, rows)) EXCEPT !.communityMap = map])
    BY Zenon DEF update_communities, Both, Reads
  <1>3. ASSUME Has("previous", name), Has("delta", name),
               Go([Advance(Merged(name, rows)) EXCEPT !.communityMap = map])
        PROVE  RefInv'
    <2>1. Formed(name, Old(name)) /\ Formed(name, New(name))
      BY <1>3, RowsFormed
    <2>2. Formed(name, rows)
      <3> HIDE DEF map
      <3> QED
        BY <2>1, CommunitiesFormed
    <2>3. run.mode = "Update" /\ MapInv
      BY <1>1, Standing DEF RefInv, UnionInv
    <2>4. \A F : name \in DOMAIN F /\ F[name] = rows =>
                     MergedNow(F, tables["previous"], tables["delta"], 15)
      BY DEF MergedNow, MergesCommunities, Old, New
    <2>5. MergedAt(15) = {name}
      BY DEF MergedAt
    <2>6. map = CommunityMap(Old("communities"), New("communities"))
      OBVIOUS
    <2> HIDE DEF rows, map, name, step
    <2>7. Turn(step, Merged(name, rows)) /\ Maps(run.entityMap, map)
      BY <1>1, <1>3, AdvanceTurn, AdvanceMaps
    <2>8. MapInv'
      <3>1. run.entityMap # None => run.entityMap = EntityMap(Old("entities"), New("entities"))
        BY <2>3 DEF MapInv
      <3>2. ~(Place[step] < 12) /\ ~(Place[step] < 15)
        BY <1>1
      <3> QED
        BY <2>3, <2>6, <2>7, <3>1, <3>2, MapsNow
    <2> QED
      BY <1>1, <2>2, <2>4, <2>5, <2>7, <2>8, JoinOne
  <1> QED
    BY <1>2, <1>3, AbortRef

LEMMA MergeReportsRef ==
  ASSUME Inv, Types, CoverInv, RefInv, update_community_reports
  PROVE  RefInv'
  <1> DEFINE step == "update_community_reports"
             name == "community_reports"
             rows == Old(name) \cup Renumber(New(name), run.communityMap)
  <1>1. At(step) /\ Place[step] = 16 /\ Place[step] > 10 /\ Place[step] \notin {12, 15}
    <2>1. At(step)
      BY Zenon DEF update_community_reports
    <2> QED
      BY <2>1 DEF Place
  <1>2. \/ Abort
        \/ /\ run.communityMap # None /\ Has("previous", name) /\ Has("delta", name)
           /\ Go(Advance(Merged(name, rows)))
    BY Zenon DEF update_community_reports, Both, Reads
  <1>3. ASSUME run.communityMap # None, Has("previous", name), Has("delta", name),
               Go(Advance(Merged(name, rows)))
        PROVE  RefInv'
    <2>1. Formed(name, Old(name)) /\ Formed(name, New(name))
      BY <1>3, RowsFormed
    <2>2. Formed(name, rows)
      BY <2>1, ReportsFormed
    <2>3. run.mode = "Update"
      BY <1>1, Standing
    <2>4. run.communityMap = CommunityMap(Old("communities"), New("communities"))
      BY <1>3, <2>3 DEF RefInv, UnionInv, MapInv
    <2>5. \A F : name \in DOMAIN F /\ F[name] = rows =>
                     MergedNow(F, tables["previous"], tables["delta"], 16)
      BY <2>4 DEF MergedNow, MergesReports, Old, New
    <2>6. MergedAt(16) = {name}
      BY DEF MergedAt
    <2> HIDE DEF rows, name, step
    <2>7. Turn(step, Merged(name, rows)) /\ Maps(run.entityMap, run.communityMap)
      BY <1>1, <1>3, AdvanceTurn, AdvanceMaps
    <2>8. MapInv'
      BY <1>1, <2>3, <2>7, MapsStay
    <2> QED
      BY <1>1, <2>2, <2>5, <2>6, <2>7, <2>8, JoinOne
  <1> QED
    BY <1>2, <1>3, AbortRef

LEMMA MergeEmbeddingsRef ==
  ASSUME Inv, CoverInv, RefInv, update_text_embeddings
  PROVE  RefInv'
  <1> DEFINE step == "update_text_embeddings"
             writes == Embeddings("final")
  <1>1. /\ At(step) /\ Place[step] = 17 /\ Place[step] > 10 /\ Go(Advance(writes))
        /\ Place[step] \notin {12, 15} /\ Place[step] \in {14, 17, 18}
    BY DEF update_text_embeddings, run_text_embeddings, Embeddings, EmbedFinal, Place
  <1>2. TableWrites(writes) = {}
    BY EmbedPlan, NoTableWrites DEF Embeddings
  <1>3. run.mode = "Update"
    BY <1>1, Standing
  <1> HIDE DEF step, writes
  <1>4. Turn(step, writes) /\ Maps(run.entityMap, run.communityMap)
    BY <1>1, AdvanceTurn, AdvanceMaps
  <1>5. MapInv'
    BY <1>1, <1>3, <1>4, MapsStay
  <1> QED
    BY <1>1, <1>2, <1>4, <1>5, JoinNone

LEMMA CleanRef ==
  ASSUME Inv, CoverInv, RefInv, update_clean_state
  PROVE  RefInv'
  <1> DEFINE step == "update_clean_state"
             writes == <<>>
  <1>1. /\ At(step) /\ Place[step] = 18 /\ Place[step] > 10 /\ Place[step] \in {14, 17, 18}
        /\ Go([Advance(writes) EXCEPT !.entityMap = None, !.communityMap = None])
    BY DEF update_clean_state, Place
  <1>2. TableWrites(writes) = {}
    BY EmptyWrites
  <1>3. run.mode = "Update"
    BY <1>1, Standing
  <1> HIDE DEF step, writes
  <1>4. Turn(step, writes) /\ Maps(None, None)
    BY <1>1, AdvanceTurn, AdvanceMaps
  <1>5. MapInv'
    BY <1>3, <1>4, MapsNow
  <1> QED
    BY <1>1, <1>2, <1>4, <1>5, JoinNone

LEMMA MergeWorkflowsRef ==
  ASSUME Inv, Types, CoverInv, RefInv,
         \/ load_update_documents \/ update_final_documents \/ update_entities_relationships
         \/ update_text_units \/ update_covariates \/ update_communities
         \/ update_community_reports \/ update_text_embeddings \/ update_clean_state
  PROVE  RefInv'
  BY LoadUpdateRef, MergeDocumentsRef, MergeGraphRef, MergeUnitsRef, MergeClaimsRef,
     MergeCommunitiesRef, MergeReportsRef, MergeEmbeddingsRef, CleanRef

LEMMA NextRef == Inv /\ Types /\ CoverInv /\ RefInv /\ [Next]_vars => RefInv'
  <1> SUFFICES ASSUME Inv, Types, CoverInv, RefInv, [Next]_vars PROVE RefInv'
    OBVIOUS
  <1>1. CASE StartIndex \/ StartUpdate
    BY <1>1, StartRef
  <1>2. CASE Workflow
    BY <1>2, OwnWorkflowsRef, MergeWorkflowsRef DEF Workflow
  <1>3. CASE Write
    BY <1>3, WriteRef
  <1>4. CASE Fail
    BY <1>4, FailRef DEF Fail
  <1>5. CASE Finish
    BY <1>5, FinishRef
  <1>6. CASE UNCHANGED vars
    BY <1>6 DEF vars, RefInv, FormInv, LinkInv, UnionInv, MapInv, ResolvedInv, Coming, Done, Old, New
  <1> QED
    BY <1>1, <1>2, <1>3, <1>4, <1>5, <1>6 DEF Next

\* Whatever runs succeeded, and failed before they touched it, every id, title and
\* number in the index that an update maps is of a row that is there, through the
\* renaming of entities and the renumbering of communities; the ids it does not
\* map, in communities of entities and relationships and in text units of
\* relationships, are of a row that is there or that was merged into an older one
\* of the same title or pair.  What a run has written itself is linked step by
\* step and has its own ids; an update merges tables that are linked each for
\* itself, and the maps it keeps in memory are those of the tables it merges.
THEOREM ReferencesAlwaysResolve == Spec => []ReferencesResolve
  <1>1. RefInv => ReferencesResolve
    <2> DEFINE F == tables["final"]
    <2> SUFFICES ASSUME RefInv, Whole, Has("final", "documents") PROVE ReferencesResolve
      BY DEF ReferencesResolve
    <2>1. Resolved(F, runs + 1) /\ "documents" \in DOMAIN F
      BY DEF RefInv, ResolvedInv, Whole, Has
    <2>2. /\ DocumentsLinked(F) /\ GraphLinked(F) /\ GraphBefore(F, runs + 1) /\ CommunitiesLinked(F)
          /\ MembersStand(F) /\ UnitsLinked(F) /\ PairsStand(F) /\ ReportsLinked(F)
      BY <2>1 DEF Resolved
    <2> DEFINE units == Column(F["text_units"], "id")
               numbers == Column(F["communities"], "number")
               ids == Column(F["entities"], "id")
               titles == Column(F["entities"], "title")
    <2>3. /\ \A d \in F["documents"] : d.units \subseteq units
          /\ \A e \in F["entities"] : e.id # None /\ e.units \subseteq units
          /\ \A r \in F["relationships"] : {r.source, r.target} \subseteq titles /\ r.units \subseteq units
          /\ Unique(F["entities"], "title") /\ Unique(F["communities"], "number")
      BY <2>2 DEF DocumentsLinked, GraphLinked, GraphBefore, CommunitiesLinked, WithinUnits, Units,
                  EntityTitles, EndsKnown, Named, Numbered
    <2>4. /\ \A c \in F["communities"] : c.parent \in numbers \cup {-1} /\ c.units \subseteq units
          /\ \A r \in F["community_reports"] : {r.number, r.parent} \subseteq numbers \cup {-1}
      BY <2>2 DEF CommunitiesLinked, ReportsLinked, Numbered, Numbers, Reports, WithinUnits, Units
    <2>5. /\ \A id : EntityIn(F["entities"], id) => EntityStands(id)
          /\ \A id : PairIn(F["relationships"], id) => RelationshipStands(id)
      BY DEF EntityIn, EntityStands, PairIn, RelationshipStands, Final
    <2>6. ClaimIds(F) \subseteq Claimed
      BY DEF ClaimIds, Claimed, Has, Final
    <2>7. \A u \in F["text_units"] : u.entities \subseteq ids /\ u.covariates \subseteq Claimed
      BY <2>2, <2>6 DEF UnitsLinked, NamesEntities, NamesClaims, EntityIds
    <2>8. \A u \in F["text_units"] : \A id \in u.relationships : RelationshipStands(id)
      BY <2>2, <2>5 DEF PairsStand
    <2>9. \A c \in F["communities"] : /\ \A id \in c.entities : EntityStands(id)
                                      /\ \A id \in c.relationships : RelationshipStands(id)
      BY <2>2, <2>5 DEF MembersStand
    <2>10. \A name : Final(name) = F[name]
      BY DEF Final
    <2> HIDE DEF F
    <2> QED
      BY <2>3, <2>4, <2>7, <2>8, <2>9, <2>10 DEF ReferencesResolve
  <1> QED
    BY <1>1, InitInv, NextInv, InitTypes, NextTypes, InitCover, NextCover, InitRef, NextRef, PTL
    DEF Spec
=============================================================================
