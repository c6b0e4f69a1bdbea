--------------------------- MODULE MCSqliteStore ---------------------------
(* Instance of SqliteStore for TLC: one run, and the requests below. *)
EXTENDS SqliteStore, TLC
CONSTANTS c1, c2, c3, s1, s2
MCStores == {s1, s2}
MCCalls2 == {c1, c2}
MCCalls3 == {c1, c2, c3}
MCRunIds == {1}
MCRecords == {"a"}
MCKinds == {"Query"}
MCMethods == {"None"}
MCTimes == {1}
MCNewRun == [kind |-> "Query", method |-> "None", status |-> "Running", startedAt |-> 1,
             completedAt |-> NoTime, eventCount |-> 0]
MCEvent(n) == [run |-> 1, sequence |-> n, record |-> "a"]
MCWrites ==
    {[op |-> "create", id |-> 1, run |-> MCNewRun],
     [op |-> "append", batch |-> <<MCEvent(1)>>], [op |-> "append", batch |-> <<MCEvent(2)>>],
     [op |-> "complete", id |-> 1, status |-> "Completed", at |-> 1],
     [op |-> "delete", id |-> 1]}
MCReads == {[op |-> "load", id |-> 1], [op |-> "read", id |-> 1]}
MCInvalid == {[op |-> "complete", id |-> 1, status |-> "Pending", at |-> 1]}
MCAll == MCWrites \cup MCReads \cup MCInvalid
MCSymmetry == Permutations(MCStores) \cup Permutations(MCCalls2)
=============================================================================
