-------------------------- MODULE MCIndexPipeline --------------------------
(* Instance of IndexPipeline for TLC: three documents with text that share *)
(* titles two by two, one of them under another type and with a link to a  *)
(* title that none mentions, one of white space, and one without text.     *)
EXTENDS IndexPipeline
MCDocs == {"d1", "d2", "d3", "space", "blank"}
MCBlank == {"blank"}
MCSpaces == {"space"}
MCTitles == {"a", "b", "c", "z"}
MCEntityTypes == {"person", "place"}
MCMentions == [d \in MCDocs |->
    CASE d = "d1" -> {<<"a", "person">>, <<"b", "person">>}
      [] d = "d2" -> {<<"b", "person">>, <<"c", "place">>}
      [] d = "d3" -> {<<"a", "place">>, <<"c", "place">>}
      [] OTHER -> {}]
MCLinks == [d \in MCDocs |->
    CASE d = "d1" -> {<<"a", "b">>} [] d = "d2" -> {<<"b", "c">>}
      [] d = "d3" -> {<<"a", "c">>, <<"a", "z">>} [] OTHER -> {}]
\* One community of all nodes, and below it the source nodes and the rest.
MCClusters == [pairs \in SUBSET (UNION {MCLinks[d] : d \in MCDocs}) \ {{}} |->
    LET nodes == UNION {{p[1], p[2]} : p \in pairs}
        first == CHOOSE p \in pairs : TRUE
    IN IF Cardinality(nodes) < 3 THEN <<[parent |-> -1, titles |-> nodes]>>
       ELSE <<[parent |-> -1, titles |-> nodes],
              [parent |-> 0, titles |-> {first[1], first[2]}],
              [parent |-> 0, titles |-> nodes \ {first[1], first[2]}]>>]
MCFlaky == {0}
MCInputs == {{"d1"}, {"d1", "d2"}, {"d2", "d3", "blank", "space"}, {"d1", "d2", "d3"}, {"d1", "blank"}, {}}
MCInputsBlank == {{"d1"}, {"blank"}}
=============================================================================
