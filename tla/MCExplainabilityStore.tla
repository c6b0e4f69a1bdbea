----------------------- MODULE MCExplainabilityStore -----------------------
(* Instance of ExplainabilityStore, and of reading it in pages, for TLC. *)
EXTENDS StorePaging
MCRunIds == 1..2
MCRecords == {"a"}
MCKinds == {"Query", "Index"}
MCMethods == {"None", "Local"}
MCTimes == 1..2
=============================================================================
