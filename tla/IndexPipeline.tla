--------------------------- MODULE IndexPipeline ---------------------------
(***************************************************************************)
(* Indexing and incremental update of one project                          *)
(* (crates/graphloom/src: api/index.rs, runtime.rs, pipeline.rs, workflows, *)
(* operations).  A run is a list of workflows, executed one after another;  *)
(* each reads whole tables, computes, and writes whole tables and vector    *)
(* indices.  Whatever was written stays when a later step fails or the      *)
(* process dies.  An update indexes the new documents into tables of its    *)
(* own (`delta') and merges them with a copy of the old ones (`previous').  *)
(*                                                                         *)
(* A document has one text unit, or none when its text is empty; both go by *)
(* the document's name, for texts are taken to differ.  What the language   *)
(* model finds in a text unit, and how Leiden clusters a graph, are         *)
(* constants.                                                               *)
(***************************************************************************)
EXTENDS Integers, Sequences, FiniteSetsExt

CONSTANTS Docs, Blank,      \* documents, and those with empty text
          Spaces,           \* those whose text is nothing but white space
          Titles, EntityTypes,
          Mentions, Links,  \* document -> <<title, type>>, pairs of titles extracted
          Clusters,         \* set of pairs -> Leiden's clusters, parents first
          Claims,           \* extract_claims.enabled
          Flaky,            \* numbers of communities whose report may be lost
          Inputs,           \* contents of the input folder when a run starts
          FlushSize,        \* rows per embedding flush
          MaxRuns, MaxFailures,  \* bounds of the model
          None, Dummy

ASSUME IndexAssumption ==
    /\ Blank \subseteq Docs /\ Spaces \subseteq Docs \ Blank
    /\ Mentions \in [Docs -> SUBSET (Titles \X EntityTypes)]
    /\ Links \in [Docs -> SUBSET (Titles \X Titles)]
    /\ Claims \in BOOLEAN
    /\ Inputs \subseteq SUBSET Docs
    /\ FlushSize \in Nat \ {0} /\ MaxRuns \in Nat /\ MaxFailures \in Nat
    /\ \A pairs \in DOMAIN Clusters : \A i \in DOMAIN Clusters[pairs] :
           Clusters[pairs][i].parent \in -1..(i - 2)

\* Leiden clusters every graph that can be extracted, and splits a cluster into
\* children among its own nodes; the mark of a missing id is no id.
ASSUME ClusterAssumption ==
    /\ (SUBSET (UNION {Links[d] : d \in Docs})) \ {{}} \subseteq DOMAIN Clusters
    /\ \A pairs \in DOMAIN Clusters :
           /\ Clusters[pairs] \in Seq([parent : {-1} \cup Nat, titles : SUBSET Titles])
           /\ \A i \in DOMAIN Clusters[pairs] :
                  LET parent == Clusters[pairs][i].parent IN
                  parent # -1 => Clusters[pairs][i].titles \subseteq Clusters[pairs][parent + 1].titles
ASSUME NoneAssumption == None \notin (0..MaxRuns) \X Titles

VARIABLES
    tables,     \* provider -> table -> rows; a table that is not in the domain does not exist
    vectors,    \* embedding name -> ids in its vector index
    run,        \* the run in progress
    last,       \* how the last run ended and what the index should hold then
    torn,       \* what an unfinished run has changed in the active output
    runs, failures
vars == <<tables, vectors, run, last, torn, runs, failures>>

Providers == {"final", "previous", "delta"}
TableNames == {"documents", "text_units", "entities", "relationships", "covariates",
               "communities", "community_reports"}
Source == [entity_description |-> "entities",
           community_full_content |-> "community_reports",
           text_unit_text |-> "text_units"]

Standard == <<"load_input_documents", "create_base_text_units", "create_final_documents",
              "extract_graph", "finalize_graph", "extract_covariates", "create_communities",
              "create_final_text_units", "create_community_reports",
              "generate_text_embeddings">>
Update == <<"load_update_documents">> \o Tail(Standard)
            \o <<"update_final_documents", "update_entities_relationships",
                 "update_text_units", "update_covariates", "update_communities",
                 "update_community_reports", "update_text_embeddings", "update_clean_state">>

NoTables == [t \in {} |-> {}]
Idle == [mode |-> "None", queue |-> <<>>, pending |-> <<>>, out |-> "final", input |-> {},
         entityMap |-> None, communityMap |-> None, torn |-> {}]
Init ==
    /\ tables = [p \in Providers |-> NoTables]
    /\ vectors = NoTables
    /\ run = Idle
    /\ last = [outcome |-> "None", docs |-> {}]
    /\ torn = {} /\ runs = 0 /\ failures = 0

With(f, key, value) == [k \in DOMAIN f \cup {key} |-> IF k = key THEN value ELSE f[k]]
Column(rows, field) == {row[field] : row \in rows}
Unique(rows, key) == \A r1, r2 \in rows : r1[key] = r2[key] => r1 = r2
Has(p, name) == name \in DOMAIN tables[p]
Reads(p, names) == \A name \in names : Has(p, name)
Out(name) == tables[run.out][name]
Final(name) == tables["final"][name]
-----------------------------------------------------------------------------
(* api/index.rs and runtime.rs: the start of a run.                         *)
StartIndex ==
    /\ run = Idle /\ runs < MaxRuns
    /\ \E input \in Inputs :
           run' = [Idle EXCEPT !.mode = "Index", !.queue = Standard, !.input = input,
                               !.torn = torn]
    /\ runs' = runs + 1
    /\ UNCHANGED <<tables, vectors, last, torn, failures>>

\* Mutant: the update pipeline writes where queries read.
SharedOutput == "final"
UpdateOutput == "delta"
\* The final tables are copied to `previous'; the standard steps write `delta'.
\* Their directories are named by the second: no two updates start in the same.
StartUpdate ==
    /\ run = Idle /\ runs < MaxRuns
    /\ \E input \in Inputs :
           run' = [Idle EXCEPT !.mode = "Update", !.queue = Update, !.input = input,
                               !.torn = torn, !.out = UpdateOutput]
    /\ tables' = [tables EXCEPT !["previous"] = tables["final"], !["delta"] = NoTables]
    /\ runs' = runs + 1
    /\ UNCHANGED <<vectors, last, torn, failures>>

\* The next update, started in another second, has directories of its own.
End(outcome) ==
    /\ run' = Idle
    /\ last' = [outcome |-> outcome,
                docs |-> run.input \cup
                    IF run.mode = "Update" /\ Has("previous", "documents")
                    THEN Column(tables["previous"]["documents"], "id") ELSE {}]
    /\ tables' = [tables EXCEPT !["previous"] = NoTables, !["delta"] = NoTables]

\* A workflow that cannot read its input, or refuses it, ends the run.
Abort == End("Failed") /\ UNCHANGED <<vectors, torn, runs, failures>>
\* Anything else that fails, or the death of the process, does so anywhere.
Fail ==
    /\ run # Idle /\ failures < MaxFailures
    /\ failures' = failures + 1
    /\ End("Failed")
    /\ UNCHANGED <<vectors, torn, runs>>

Finish ==
    /\ run # Idle /\ run.queue = <<>> /\ run.pending = <<>>
    /\ End("Ok")
    /\ torn' = IF run.mode = "Index" THEN {} ELSE run.torn \ {"vectors"}
    /\ UNCHANGED <<vectors, runs, failures>>
-----------------------------------------------------------------------------
(* Writes of a workflow, one after another.                                 *)
TableWrite(p, name, rows) == [kind |-> "table", at |-> p, name |-> name, rows |-> rows]
VectorWrite(kind, field, ids) == [kind |-> kind, at |-> None, name |-> field, rows |-> ids]

WriteTable(w) ==
    /\ w.kind = "table"
    /\ tables' = [tables EXCEPT ![w.at] = With(@, w.name, w.rows)]
    /\ torn' = torn \cup IF w.at = "final" THEN {"tables"} ELSE {}
    /\ run' = [run EXCEPT !.pending = Tail(@)]
    /\ UNCHANGED vectors

\* LanceDB: an index is dropped, then created with a placeholder row, which is
\* deleted; rows arrive in flushes, which pass over those whose text is blank.
\* The text of an entity or a report never is.
DropIndex(w) ==
    /\ w.kind = "drop"
    /\ vectors' = [f \in DOMAIN vectors \ {w.name} |-> vectors[f]]
    /\ run' = [run EXCEPT !.pending = Tail(@)]
CreateIndex(w) ==
    /\ w.kind = "create"
    /\ vectors' = With(vectors, w.name, {Dummy})
    /\ run' = [run EXCEPT !.pending = Tail(@)]
DeleteDummy(w) ==
    /\ w.kind = "sweep"
    /\ vectors' = [vectors EXCEPT ![w.name] = @ \ {Dummy}]
    /\ run' = [run EXCEPT !.pending = Tail(@)]
Skipped(field) == IF field = "text_unit_text" THEN Spaces ELSE {}
Flush(w) ==
    /\ w.kind = "append"
    /\ IF w.rows = {} THEN run' = [run EXCEPT !.pending = Tail(@)] /\ UNCHANGED vectors
       ELSE \E batch \in SUBSET w.rows :
               /\ Cardinality(batch) = Min({FlushSize, Cardinality(w.rows)})
               /\ vectors' = [vectors EXCEPT ![w.name] = @ \cup (batch \ Skipped(w.name))]
               /\ run' = [run EXCEPT !.pending[1].rows = @ \ batch]
WriteVectors(w) ==
    /\ DropIndex(w) \/ CreateIndex(w) \/ DeleteDummy(w) \/ Flush(w)
    /\ torn' = torn \cup {"vectors"}
    /\ UNCHANGED tables
Write ==
    /\ run.pending # <<>>
    /\ WriteTable(Head(run.pending)) \/ WriteVectors(Head(run.pending))
    /\ UNCHANGED <<last, runs, failures>>

At(workflow) == run.queue # <<>> /\ Head(run.queue) = workflow /\ run.pending = <<>>
Advance(writes) == [run EXCEPT !.queue = Tail(@), !.pending = writes]
Go(next) == run' = next /\ UNCHANGED <<tables, vectors, last, torn, runs, failures>>
Writes(name, rows) == <<TableWrite(run.out, name, rows)>>
-----------------------------------------------------------------------------
(* The standard workflows.                                                  *)
DocumentRows(docs) == {[id |-> d, units |-> {}] : d \in docs}

load_input_documents ==
    /\ At("load_input_documents")
    /\ IF run.input = {} THEN Abort
       ELSE Go(Advance(Writes("documents", DocumentRows(run.input))))

\* No chunk at all: the table is closed without a write and keeps its rows.
create_base_text_units ==
    LET units == {[id |-> d, doc |-> d, entities |-> {}, relationships |-> {}, covariates |-> {}] :
                     d \in Column(Out("documents"), "id") \ Blank}
    IN /\ At("create_base_text_units")
       /\ IF Reads(run.out, {"documents"})
          THEN Go(Advance(IF units = {} THEN <<>> ELSE Writes("text_units", units)))
          ELSE Abort

create_final_documents ==
    LET UnitsOf(d) == {u.id : u \in {u \in Out("text_units") : u.doc = d}}
    IN /\ At("create_final_documents")
       /\ IF Reads(run.out, {"documents", "text_units"})
          THEN Go(Advance(Writes("documents",
                   {[id |-> d.id, units |-> UnitsOf(d.id)] : d \in Out("documents")})))
          ELSE Abort

\* A relationship to a title nobody extracted is dropped.
FilterOrphans(pairs, titles) == {pair \in pairs : pair[1] \in titles /\ pair[2] \in titles}
TitlesIn(mentions) == {m[1] : m \in mentions}
\* One row for a title and a type.  The join of the summaries by title repeats
\* rows that differ in their description only.
extract_graph ==
    LET units == Column(Out("text_units"), "id")
        mentions == UNION {Mentions[u] : u \in units}
        pairs == FilterOrphans(UNION {Links[u] : u \in units}, TitlesIn(mentions))
    IN /\ At("extract_graph")
       /\ IF Reads(run.out, {"text_units"}) /\ mentions # {} /\ pairs # {}
          THEN Go(Advance(
                 Writes("entities",
                     {[id |-> None, title |-> m[1], type |-> m[2],
                       units |-> {u \in units : m \in Mentions[u]}] : m \in mentions})
                 \o Writes("relationships",
                     {[id |-> None, source |-> p[1], target |-> p[2],
                       units |-> {u \in units : p \in Links[u]}] : p \in pairs})))
          ELSE Abort

\* The first row of a title stays, whichever comes first, and the others go with
\* the text units they name.  Fresh UUIDs: the run and what the row is about.
FirstRows(rows) ==
    {kept \in SUBSET rows : Unique(kept, "title") /\ Column(kept, "title") = Column(rows, "title")}
finalize_graph ==
    /\ At("finalize_graph")
    /\ IF Reads(run.out, {"entities", "relationships"})
       THEN \E kept \in FirstRows(Out("entities")) :
            Go(Advance(
              Writes("entities", {[e EXCEPT !.id = <<runs, e.title>>] : e \in kept})
              \o Writes("relationships",
                  {[r EXCEPT !.id = <<runs, r.source, r.target>>] : r \in Out("relationships")})))
       ELSE Abort

extract_covariates ==
    /\ At("extract_covariates")
    /\ IF ~Claims THEN Go(Advance(<<>>))
       ELSE IF Reads(run.out, {"text_units"})
       THEN Go(Advance(Writes("covariates",
                {[id |-> <<runs, u>>, unit |-> u] : u \in Column(Out("text_units"), "id")})))
       ELSE Abort

\* Clusters without an entity or without a relationship inside are skipped.
CommunityRows(entities, relationships) ==
    LET clusters == Clusters[{<<r.source, r.target>> : r \in relationships}]
        Inside(i) == {r \in relationships : {r.source, r.target} \subseteq clusters[i].titles}
        Members(i) == {e \in entities : e.title \in clusters[i].titles}
    IN {[number |-> i - 1, parent |-> clusters[i].parent,
         entities |-> Column(Members(i), "id"),
         relationships |-> Column(Inside(i), "id"),
         units |-> UNION Column(Inside(i), "units")] :
            i \in {i \in DOMAIN clusters : Members(i) # {} /\ Inside(i) # {}}}
create_communities ==
    /\ At("create_communities")
    /\ IF Reads(run.out, {"entities", "relationships"})
       THEN Go(Advance(Writes("communities",
                CommunityRows(Out("entities"), Out("relationships")))))
       ELSE Abort

RefsTo(rows, unit) == {row.id : row \in {row \in rows : unit \in row.units}}
create_final_text_units ==
    LET claims == IF Claims /\ Has(run.out, "covariates") THEN Out("covariates") ELSE {}
    IN /\ At("create_final_text_units")
       /\ IF Reads(run.out, {"text_units", "entities", "relationships"})
          THEN Go(Advance(Writes("text_units",
                 {[u EXCEPT !.entities = RefsTo(Out("entities"), u.id),
                            !.relationships = RefsTo(Out("relationships"), u.id),
                            !.covariates = {c.id : c \in {c \in claims : c.unit = u.id}}] :
                     u \in Out("text_units")})))
          ELSE Abort

\* A report whose model call or answer fails is left out with a warning.
create_community_reports ==
    /\ At("create_community_reports")
    /\ IF Reads(run.out, {"entities", "relationships", "communities"})
       THEN \E lost \in SUBSET (Flaky \cap Column(Out("communities"), "number")) :
              Go(Advance(Writes("community_reports",
                  {[id |-> <<runs, c.number>>, number |-> c.number, parent |-> c.parent] :
                      c \in {c \in Out("communities") : c.number \notin lost}})))
       ELSE Abort

\* Mutant: an index goes by the table it is made from.
TableIndex(field) == Source[field]
IndexName(field) == field
EmbedField(p, field) ==
    IF ~Has(p, Source[field]) THEN <<>>
    ELSE <<VectorWrite("drop", IndexName(field), {}), VectorWrite("create", IndexName(field), {}),
           VectorWrite("sweep", IndexName(field), {}),
           VectorWrite("append", IndexName(field), Column(tables[p][Source[field]], "id"))>>
run_text_embeddings(p) ==
    Go(Advance(EmbedField(p, "entity_description") \o EmbedField(p, "community_full_content")
                 \o EmbedField(p, "text_unit_text")))
\* During an update these are the rows of the delta.
generate_text_embeddings ==
    At("generate_text_embeddings") /\ run_text_embeddings(run.out)
-----------------------------------------------------------------------------
(* The update workflows.                                                    *)
\* No new title: the run stops here and succeeds.
load_update_documents ==
    LET new == run.input \ Column(tables["previous"]["documents"], "id")
    IN /\ At("load_update_documents")
       /\ IF ~Reads("previous", {"documents"}) THEN Abort
          ELSE IF new = {}
          THEN /\ End("Ok")
               /\ UNCHANGED <<vectors, torn, runs, failures>>
          ELSE Go(Advance(Writes("documents", DocumentRows(new))))

Old(name) == tables["previous"][name]
New(name) == tables["delta"][name]
Both(names) == Reads("previous", names) /\ Reads("delta", names)
Merged(name, rows) == <<TableWrite("final", name, rows)>>

\* Mutant: the delta replaces the old rows.
DeltaOnly(name) == New(name)
Concatenated(name) == Old(name) \cup New(name)
update_final_documents ==
    /\ At("update_final_documents")
    /\ IF Both({"documents"})
       THEN Go(Advance(Merged("documents", Concatenated("documents"))))
       ELSE Abort

\* Rows of one title, or of one pair, become one row under the old row's id.
First(rows, old) == IF rows \cap old # {} THEN CHOOSE row \in rows \cap old : TRUE
                    ELSE CHOOSE row \in rows : TRUE
MergeEntities(old, new) ==
    {LET rows == {e \in old \cup new : e.title = t}
     IN [First(rows, old) EXCEPT !.units = UNION Column(rows, "units")] :
        t \in Column(old \cup new, "title")}
MergeRelationships(old, new, titles) ==
    {LET rows == {r \in old \cup new : r.source = p[1] /\ r.target = p[2]}
     IN [First(rows, old) EXCEPT !.units = UNION Column(rows, "units")] :
        p \in FilterOrphans({<<r.source, r.target>> : r \in old \cup new}, titles)}
\* Mutant: delta ids of known titles are not mapped.
EmptyMap(old, new) == [id \in {} |-> id]
EntityMap(old, new) ==
    [id \in {e.id : e \in {e \in new : e.title \in Column(old, "title")}} |->
        LET title == (CHOOSE e \in new : e.id = id).title
        IN (CHOOSE e \in old : e.title = title).id]
Mapped(map, x) == IF x \in DOMAIN map THEN map[x] ELSE x

Finalized(p) == None \notin Column(tables[p]["entities"], "id")
                  /\ None \notin Column(tables[p]["relationships"], "id")
update_entities_relationships ==
    LET entities == MergeEntities(Old("entities"), New("entities"))
    IN /\ At("update_entities_relationships")
       /\ IF Both({"entities", "relationships"}) /\ Finalized("previous")
          THEN Go([Advance(Merged("entities", entities)
                     \o Merged("relationships",
                            MergeRelationships(Old("relationships"), New("relationships"),
                                               Column(entities, "title"))))
                   EXCEPT !.entityMap = EntityMap(Old("entities"), New("entities"))])
          ELSE Abort

update_text_units ==
    /\ At("update_text_units")
    /\ IF run.entityMap # None /\ Both({"text_units"})
       THEN Go(Advance(Merged("text_units", Old("text_units") \cup
                {[u EXCEPT !.entities = {Mapped(run.entityMap, e) : e \in @}] :
                    u \in New("text_units")})))
       ELSE Abort

update_covariates ==
    /\ At("update_covariates")
    /\ Go(Advance(IF Both({"covariates"})
                  THEN Merged("covariates", Concatenated("covariates"))
                  ELSE <<>>))

\* Numbers of the delta continue after the largest old one.
Rebase(old) == Max(Column(old, "number") \cup {0}) + 1
CommunityMap(old, new) ==
    [n \in Column(new, "number") \cup {-1} |-> IF n = -1 THEN -1 ELSE n + Rebase(old)]
Renumber(rows, map) ==
    {[row EXCEPT !.number = Mapped(map, @), !.parent = Mapped(map, @)] : row \in rows}
update_communities ==
    LET map == CommunityMap(Old("communities"), New("communities"))
    IN /\ At("update_communities")
       /\ IF Both({"communities"})
          THEN Go([Advance(Merged("communities",
                       Old("communities") \cup Renumber(New("communities"), map)))
                   EXCEPT !.communityMap = map])
          ELSE Abort

update_community_reports ==
    /\ At("update_community_reports")
    /\ IF run.communityMap # None /\ Both({"community_reports"})
       THEN Go(Advance(Merged("community_reports", Old("community_reports")
                \cup Renumber(New("community_reports"), run.communityMap))))
       ELSE Abort

\* The final provider takes the place of the delta one for this workflow.
EmbedDelta == "delta"
EmbedFinal == "final"
update_text_embeddings == At("update_text_embeddings") /\ run_text_embeddings(EmbedFinal)

update_clean_state ==
    /\ At("update_clean_state")
    /\ Go([Advance(<<>>) EXCEPT !.entityMap = None, !.communityMap = None])

Workflow ==
    \/ load_input_documents \/ create_base_text_units \/ create_final_documents
    \/ extract_graph \/ finalize_graph \/ extract_covariates \/ create_communities
    \/ create_final_text_units \/ create_community_reports \/ generate_text_embeddings
    \/ load_update_documents \/ update_final_documents \/ update_entities_relationships
    \/ update_text_units \/ update_covariates \/ update_communities
    \/ update_community_reports \/ update_text_embeddings \/ update_clean_state

Next == StartIndex \/ StartUpdate \/ Workflow \/ Write \/ Fail \/ Finish
Spec == Init /\ [][Next]_vars
-----------------------------------------------------------------------------
Steps == {Standard[i] : i \in DOMAIN Standard} \cup {Update[i] : i \in DOMAIN Update}
TypeOK ==
    /\ DOMAIN tables = Providers
    /\ \A p \in Providers : DOMAIN tables[p] \subseteq TableNames
    /\ DOMAIN vectors \subseteq DOMAIN Source
    /\ run.mode \in {"None", "Index", "Update"} /\ run.out \in {"final", "delta"}
    /\ run.queue \in Seq(Steps)
    /\ \A i \in DOMAIN run.pending :
           run.pending[i].kind = "table" => run.pending[i].at \in {run.out, "final"}
    /\ last.outcome \in {"None", "Ok", "Failed"}
    /\ torn \subseteq {"tables", "vectors"} /\ run.torn \subseteq {"tables", "vectors"}
    /\ runs \in 0..MaxRuns /\ failures \in 0..MaxFailures

Whole == run = Idle /\ "tables" \notin torn

\* Whatever runs succeeded, and failed before they touched it, ids in the index
\* name rows that are there: of documents in text units and back, of text units
\* in the graph and of entities and claims in them, of titles in relationships,
\* of communities in communities and reports.  An update that finds an entity or
\* a relationship known merges it into the old row and its id is gone, yet stays
\* in the new communities (both) and text units (relationships): their ids name
\* a row that is there or was merged into an older row of its title or pair.
Claimed == IF Has("final", "covariates") THEN Column(Final("covariates"), "id") ELSE {}
EntityStands(id) ==
    \E e \in Final("entities") : e.id = id \/ (e.id[1] < id[1] /\ e.title = id[2])
RelationshipStands(id) ==
    \E r \in Final("relationships") :
        r.id = id \/ (r.id[1] < id[1] /\ r.source = id[2] /\ r.target = id[3])
ReferencesResolve ==
    Whole /\ Has("final", "documents") =>
        LET units == Column(Final("text_units"), "id")
            numbers == Column(Final("communities"), "number") IN
        /\ \A d \in Final("documents") : d.units \subseteq units
        /\ \A u \in Final("text_units") :
               /\ u.entities \subseteq Column(Final("entities"), "id")
               /\ u.covariates \subseteq Claimed
               /\ \A id \in u.relationships : RelationshipStands(id)
        /\ \A e \in Final("entities") : e.id # None /\ e.units \subseteq units
        /\ \A r \in Final("relationships") :
               /\ {r.source, r.target} \subseteq Column(Final("entities"), "title")
               /\ r.units \subseteq units
        /\ Unique(Final("entities"), "title") /\ Unique(Final("communities"), "number")
        /\ \A c \in Final("communities") :
               /\ c.parent \in numbers \cup {-1} /\ c.units \subseteq units
               /\ \A id \in c.entities : EntityStands(id)
               /\ \A id \in c.relationships : RelationshipStands(id)
        /\ \A r \in Final("community_reports") : {r.number, r.parent} \subseteq numbers \cup {-1}

\* After a run that reports success the index holds every document it was given,
\* an update also every document from before, and what was extracted from them,
\* unless an earlier run broke off half way: a row for every title, with the text
\* unit unless the title was extracted under another type too, a row with the
\* text unit for every pair of titles the text unit has, and its claims.
OneType(title) ==
    \A m1, m2 \in UNION {Mentions[d] : d \in Docs} : m1[1] = title /\ m2[1] = title => m1 = m2
SuccessCoversInput ==
    Whole /\ last.outcome = "Ok" =>
        /\ last.docs \subseteq Column(Final("documents"), "id")
        /\ \A d \in last.docs \ Blank :
               /\ d \in Column(Final("text_units"), "id")
               /\ \A t \in TitlesIn(Mentions[d]) : \E e \in Final("entities") :
                      e.title = t /\ (OneType(t) => d \in e.units)
               /\ \A p \in FilterOrphans(Links[d], TitlesIn(Mentions[d])) :
                      \E r \in Final("relationships") :
                          r.source = p[1] /\ r.target = p[2] /\ d \in r.units
        /\ Claims => last.docs \ Blank \subseteq Column(Final("covariates"), "unit")

\* Then each vector index holds the rows of its table whose text is not blank and
\* nothing else; only a run that broke off after it reset an index may leave
\* anything else.
VectorsMatchTables ==
    Whole /\ "vectors" \notin torn =>
        \A f \in DOMAIN Source :
            Has("final", Source[f]) =>
                f \in DOMAIN vectors
                    /\ vectors[f] = Column(Final(Source[f]), "id") \ Skipped(f)

\* An update changes no final table before it has indexed all new documents.
FinalUntouchedUntilMerge ==
    [][run.mode = "Update" /\ (\E i \in DOMAIN run.queue : run.queue[i] = "update_final_documents")
         => tables'["final"] = tables["final"]]_vars

\* Violated: a full index starts from an empty table of text units.
IndexReplacesTextUnits ==
    Whole /\ last.outcome = "Ok" =>
        Column(Final("text_units"), "doc") \subseteq Column(Final("documents"), "id")
=============================================================================
