---------------------------- MODULE StorePaging ----------------------------
(***************************************************************************)
(* Reading the store page by page, as its clients do: the history by the    *)
(* cursor of the last run shown, for as long as the answer names a next one *)
(* (crates/graphloom-studio/src/api/runs.rs), and a run's events from the   *)
(* last sequence delivered (crates/graphloom-studio/src/explainability/     *)
(* sse.rs).                                                                 *)
(***************************************************************************)
EXTENDS ExplainabilityStore, SequencesExt

CONSTANT MaxPage   \* MAX_RUN_QUERY_LIMIT, MAX_EVENT_QUERY_LIMIT
ASSUME PagingAssumption == MaxPage \in Nat \ {0}

Existing == {id \in RunIds : Exists(runs, id)}

\* The next page of the history, for the runs a filter lets through.  Only a
\* full page has a next_cursor; without one there is nothing left to ask for.
NextRuns(read, query) ==
    LET page == ListRuns(runs, query.matching, read.cursor, query.limit)
        full == Len(page) = query.limit
    IN  IF ~read.more THEN read
        ELSE [listed |-> read.listed \o page, more |-> full,
              cursor |-> IF full THEN CursorAfter(runs, page) ELSE NoCursor]
RunsRead(matching, limit) ==
    FoldLeft(NextRuns, [listed |-> <<>>, more |-> TRUE, cursor |-> NoCursor],
             [n \in 1..Cardinality(Existing) |-> [matching |-> matching, limit |-> limit]]).listed

\* The next page of a run's events.
NextEvents(read, query) ==
    LET page == LoadEvents(events, query.run, read.after, query.limit)
    IN  IF page = <<>> THEN read
        ELSE [replayed |-> read.replayed \o page, after |-> page[Len(page)].sequence]
EventsRead(id, limit) ==
    FoldLeft(NextEvents, [replayed |-> <<>>, after |-> 0],
             [n \in 1..Len(events[id]) |-> [run |-> id, limit |-> limit]]).replayed
-----------------------------------------------------------------------------
\* The history pages of list_runs, followed by their cursors, enumerate every
\* matching run exactly once, newest first, for every page size and filter;
\* replaying a run in pages, each after the last sequence of the one before,
\* yields its whole history once.
PagingIsExact ==
    /\ \A limit \in 1..MaxPage, matching \in SUBSET RunIds :
           RunsRead(matching, limit) = NewestFirst(runs, matching \cap Existing)
    /\ \A id \in RunIds, limit \in 1..MaxPage : EventsRead(id, limit) = events[id]
=============================================================================
