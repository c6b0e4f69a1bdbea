------------------------ MODULE ExplainabilityStore ------------------------
(***************************************************************************)
(* The abstract store: what every implementation of the ExplainabilityStore *)
(* trait promises, as InMemoryExplainabilityStore implements it under one   *)
(* write lock (crates/graphloom/src/explainability/store.rs).  Every call   *)
(* is atomic; reads are state functions of StoreContract.                   *)
(***************************************************************************)
EXTENDS StoreContract

CONSTANT MaxBatch   \* longest batch a caller appends (bound of the model)

VARIABLES runs,     \* run id -> Run or NoRun
          events    \* run id -> sequence of envelopes
vars == <<runs, events>>

Init ==
    /\ runs = [id \in RunIds |-> NoRun]
    /\ events = [id \in RunIds |-> <<>>]

create_run(id, run) ==
    /\ CanCreate(runs, id, run)
    /\ runs' = AfterCreate(runs, id, run)
    /\ UNCHANGED events

append_events(batch) ==
    /\ CanAppend(runs, batch)
    /\ runs' = RunsAfterAppend(runs, batch)
    /\ events' = EventsAfterAppend(events, batch)

complete_run(id, status, at) ==
    /\ CanComplete(runs, id, status, at)
    /\ runs' = AfterComplete(runs, id, status, at)
    /\ UNCHANGED events

delete_run(id) ==
    /\ runs' = RunsAfterDelete(runs, id)
    /\ events' = EventsAfterDelete(events, id)

Batches == UNION {[1..n -> Envelope] : n \in 0..MaxBatch}

Next ==
    \/ \E id \in RunIds, run \in Run : create_run(id, run)
    \/ \E batch \in Batches : append_events(batch)
    \/ \E id \in RunIds, status \in Statuses, at \in Times : complete_run(id, status, at)
    \/ \E id \in RunIds : delete_run(id)

Spec == Init /\ [][Next]_vars
-----------------------------------------------------------------------------
\* Both maps hold well-formed runs and envelopes.
TypeOK ==
    /\ runs \in [RunIds -> Run \cup {NoRun}]
    /\ events \in [RunIds -> Seq(Envelope)]

\* event_count is the number of persisted envelopes, they are numbered
\* 1, 2, 3... without gap, belong to their run, and a missing run has none
\* left: append, delete and a later re-creation of the same id agree.
HistoryExact ==
    \A id \in RunIds :
        /\ Exists(runs, id) => runs[id].eventCount = Len(events[id])
        /\ ~Exists(runs, id) => events[id] = <<>>
        /\ \A i \in DOMAIN events[id] :
               events[id][i].run = id /\ events[id][i].sequence = i

\* A terminal run only ever changes by being deleted: no late event, no other
\* status or completion time, whatever order calls arrive in.
TerminalIsFrozen ==
    [][\A id \in RunIds :
          (Exists(runs, id) /\ runs[id].status \in TerminalStatuses)
            => \/ runs'[id] = runs[id] /\ events'[id] = events[id]
               \/ runs'[id] = NoRun]_vars
=============================================================================
