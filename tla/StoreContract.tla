--------------------------- MODULE StoreContract ---------------------------
(***************************************************************************)
(* The explainability persistence contract as operators over a store state *)
(* (crates/graphloom/src/explainability/store.rs).  `runs' maps a run id to *)
(* its metadata or NoRun, `events' to its envelopes; the operators say when *)
(* a call is accepted and what it then changes.  A rejected call changes    *)
(* nothing.                                                                 *)
(***************************************************************************)
EXTENDS Integers, Sequences, FiniteSets

CONSTANTS RunIds,        \* run identities; ordered like their strings
          Kinds,         \* run kinds: "Index", "Update", "Query", "PromptTune"
          Methods,       \* query methods, "None" when there is none
          Records,       \* opaque event payloads
          Times,         \* timestamps (a set of naturals)
          MaxSequence    \* u64::MAX, the last sequence there is

ASSUME ContractAssumption ==
    /\ RunIds \subseteq Nat
    /\ Times \subseteq Nat
    /\ MaxSequence \in Nat \ {0}

OpenStatuses == {"Pending", "Running"}
TerminalStatuses == {"Completed", "Failed", "Cancelled"}
Statuses == OpenStatuses \cup TerminalStatuses
NoTime == -1
NoRun == [status |-> "NoRun"]

Run == [kind : Kinds, method : Methods, status : Statuses, startedAt : Times,
        completedAt : Times \cup {NoTime}, eventCount : 0..MaxSequence]
Envelope == [run : RunIds, sequence : 1..MaxSequence, record : Records]

Exists(runs, id) == runs[id] # NoRun
-----------------------------------------------------------------------------
ValidNewRun(run) ==
    /\ run.eventCount = 0
    /\ run.completedAt = NoTime
    /\ run.status \notin TerminalStatuses
    /\ run.kind = "Query" \/ run.method = "None"

CanCreate(runs, id, run) == ValidNewRun(run) /\ ~Exists(runs, id)
AfterCreate(runs, id, run) == [runs EXCEPT ![id] = run]

\* A non-empty batch of one existing, open run whose sequences continue the
\* stored history without a gap.  checked_add refuses to pass MaxSequence.
\* Mutants: a terminal run accepts events; the last sequence is passed.
CanAppendLate(runs, batch) ==
    /\ batch # <<>>
    /\ \A i \in DOMAIN batch : batch[i].run = batch[1].run
    /\ LET run == runs[batch[1].run]
       IN  /\ run # NoRun
           /\ run.eventCount + Len(batch) <= MaxSequence
           /\ \A i \in DOMAIN batch : batch[i].sequence = run.eventCount + i
CanAppendWrapping(runs, batch) ==
    /\ batch # <<>>
    /\ \A i \in DOMAIN batch : batch[i].run = batch[1].run
    /\ LET run == runs[batch[1].run]
       IN  /\ run # NoRun
           /\ run.status \notin TerminalStatuses
           /\ \A i \in DOMAIN batch :
                  batch[i].sequence = ((run.eventCount + i - 1) % MaxSequence) + 1
CanAppend(runs, batch) ==
    /\ batch # <<>>
    /\ \A i \in DOMAIN batch : batch[i].run = batch[1].run
    /\ LET run == runs[batch[1].run]
       IN  /\ run # NoRun
           /\ run.status \notin TerminalStatuses
           /\ run.eventCount + Len(batch) <= MaxSequence
           /\ \A i \in DOMAIN batch : batch[i].sequence = run.eventCount + i
RunsAfterAppend(runs, batch) ==
    [runs EXCEPT ![batch[1].run].eventCount = @ + Len(batch)]
EventsAfterAppend(events, batch) == [events EXCEPT ![batch[1].run] = @ \o batch]

\* An exact retry of a completion is accepted too, and changes nothing.
CanComplete(runs, id, status, at) ==
    /\ status \in TerminalStatuses
    /\ Exists(runs, id)
    /\ at >= runs[id].startedAt
    /\ \/ runs[id].status \notin TerminalStatuses /\ runs[id].completedAt = NoTime
       \/ runs[id].status = status /\ runs[id].completedAt = at
AfterComplete(runs, id, status, at) ==
    [runs EXCEPT ![id].status = status, ![id].completedAt = at]

\* Mutant: a deleted run is only marked.
RunsMarkedDeleted(runs, id) == [runs EXCEPT ![id].status = "Deleted"]
RunsAfterDelete(runs, id) == [runs EXCEPT ![id] = NoRun]
\* Mutant: the events outlive their run.
EventsKept(events, id) == events
EventsAfterDelete(events, id) == [events EXCEPT ![id] = <<>>]
-----------------------------------------------------------------------------
\* History order is startedAt DESC, run id DESC.
Older(runs, a, b) ==
    \/ runs[a].startedAt < runs[b].startedAt
    \/ runs[a].startedAt = runs[b].startedAt /\ a < b

\* list_runs: the first `limit' runs of `matching' strictly older than the
\* cursor, newest first.  A cursor is a [startedAt, run] pair or NoCursor.
NoCursor == [startedAt |-> NoTime, run |-> NoTime]
\* Mutant: runs that started with the cursor's run are skipped.
OlderByTimeOnly(runs, id, cursor) == cursor = NoCursor \/ runs[id].startedAt < cursor.startedAt
OlderThanCursor(runs, id, cursor) ==
    \/ cursor = NoCursor
    \/ runs[id].startedAt < cursor.startedAt
    \/ runs[id].startedAt = cursor.startedAt /\ id < cursor.run
NewestFirst(runs, ids) ==
    CHOOSE page \in [1..Cardinality(ids) -> ids] :
        \A i, j \in DOMAIN page : i < j => Older(runs, page[j], page[i])
ListRuns(runs, matching, cursor, limit) ==
    LET found == {id \in matching : Exists(runs, id) /\ OlderThanCursor(runs, id, cursor)}
        all == NewestFirst(runs, found)
    IN  SubSeq(all, 1, IF Len(all) < limit THEN Len(all) ELSE limit)
CursorAfter(runs, page) ==
    [startedAt |-> runs[page[Len(page)]].startedAt, run |-> page[Len(page)]]

\* load_events: at most `limit' envelopes after a sequence, in stored order.
LoadEvents(events, id, after, limit) ==
    LET later == {i \in DOMAIN events[id] : events[id][i].sequence > after}
        size == IF Cardinality(later) < limit THEN Cardinality(later) ELSE limit
        place(n) == CHOOSE i \in later : Cardinality({j \in later : j <= i}) = n
    IN  [n \in 1..size |-> events[id][place(n)]]
=============================================================================
