----------------------------- MODULE StudioQuery -----------------------------
(***************************************************************************)
(* Studio's query API (crates/graphloom-studio/src/api/query.rs and         *)
(* query_result.rs) with the explainability session of the query it runs    *)
(* (crates/graphloom/src/query/explainability.rs): admission, the detached  *)
(* task of each query, its trace, the bounded result registry, the result   *)
(* endpoint, and a restart of the process over a store that survives it.    *)
(* Each query has a recorder of its own, taken at the level of ReliableLog. *)
(***************************************************************************)
EXTENDS Integers, Sequences, FiniteSets

CONSTANTS Queries,        \* one accepted or refused POST each; also its run id
          MaxConcurrent,  \* max_concurrent_queries
          Capacity,       \* max_retained_query_results
          MaxEvents,      \* events a query emits before its terminal one (bound)
          MaxRestarts,    \* restarts of the process (bound)
          Polled,         \* queries whose result is asked for (bound)
          Nobody          \* no result request under way

ASSUME StudioAssumption ==
    /\ MaxConcurrent \in Nat \ {0}
    /\ Capacity \in Nat \ {0}
    /\ MaxEvents \in Nat /\ MaxRestarts \in Nat
    /\ Nobody \notin Queries /\ IsFiniteSet(Queries) /\ Polled \subseteq Queries

VARIABLES
    permits,    \* query_permits: free permits
    pc,         \* query -> where execute_query is, "None" before the POST
    post,       \* query -> answer to the POST: "None", "Waiting", "Gone" or a code
    lost,       \* query -> delivery_failure_count # 0
    outcome,    \* query -> what became of it, "None" while it runs
    gate,       \* query -> its run in the recorder: "Absent", "Open", "Finished"
    history,    \* query -> kinds of the events its recorder accepted
    persisted,  \* query -> how many of them are in the store
    broken,     \* query -> the recorder's writer failed
    status,     \* query -> status of its run in the store, "NoRun" if none
    results,    \* QueryResultRegistryState.results: queries with a result
    order,      \* QueryResultRegistryState.insertion_order
    process,    \* number of the running process
    born,       \* query -> process that took its POST
    reading,    \* query whose result request saw "Completed", or Nobody
    answer,     \* query -> last answer of the result endpoint, 0 if none
    published   \* history variable: insertions into this process's registry

execution == <<permits, pc, post, lost, outcome>>
trace == <<gate, history, persisted, broken>>
registry == <<results, order, published>>
request == <<reading, answer>>
vars == <<permits, pc, post, lost, outcome, gate, history, persisted, broken, status,
          results, order, process, born, reading, answer, published>>

Terminal == {"RunCompleted", "RunFailed"}
Ended == {"Done", "Dead"}
Idle == {"None", "Refused"} \cup Ended
LastEvent(q) == history[q][Len(history[q])]

Init ==
    /\ permits = MaxConcurrent
    /\ pc = [q \in Queries |-> "None"]
    /\ post = [q \in Queries |-> "None"]
    /\ lost = [q \in Queries |-> FALSE]
    /\ outcome = [q \in Queries |-> "None"]
    /\ gate = [q \in Queries |-> "Absent"]
    /\ history = [q \in Queries |-> <<>>]
    /\ persisted = [q \in Queries |-> 0]
    /\ broken = [q \in Queries |-> FALSE]
    /\ status = [q \in Queries |-> "NoRun"]
    /\ results = {}
    /\ order = <<>>
    /\ process = 0
    /\ born = [q \in Queries |-> 0]
    /\ reading = Nobody
    /\ answer = [q \in Queries |-> 0]
    /\ published = <<>>
-----------------------------------------------------------------------------
Go(q, next) == pc' = [pc EXCEPT ![q] = next]
Answer(q, code) == post' = [post EXCEPT ![q] = IF @ = "Waiting" THEN code ELSE @]
\* The task's future is gone, and its OwnedSemaphorePermit with it.
\* Mutants: the permit leaks; it is given back by hand as well.
ExitKeepingPermit(q) == Go(q, "Done") /\ permits' = permits
ExitReleasingTwice(q) == Go(q, "Done") /\ permits' = permits + 2
Exit(q) == Go(q, "Done") /\ permits' = permits + 1

\* POST: a free permit is taken and the query spawned, or it is refused.
start_query(q) ==
    /\ pc[q] = "None" /\ permits > 0
    /\ permits' = permits - 1
    /\ Go(q, "Create")
    /\ post' = [post EXCEPT ![q] = "Waiting"]
    /\ born' = [born EXCEPT ![q] = process]
    /\ UNCHANGED <<lost, outcome, trace, status, registry, process, request>>

Refuse(q) ==
    /\ pc[q] = "None" /\ permits = 0
    /\ Go(q, "Refused")
    /\ post' = [post EXCEPT ![q] = "429"]
    /\ UNCHANGED <<permits, lost, outcome, trace, status, registry, process, born, request>>

\* The client drops the connection: the handler's future goes, the task stays.
Disconnect(q) ==
    /\ post[q] = "Waiting"
    /\ post' = [post EXCEPT ![q] = "Gone"]
    /\ UNCHANGED <<permits, pc, lost, outcome, trace, status, registry, process, born, request>>

\* create_run: the store knows the run before the recorder's gate is there,
\* and the handler is told after both.
CreateInStore(q) ==
    /\ pc[q] = "Create"
    /\ status' = [status EXCEPT ![q] = "Running"]
    /\ Go(q, "Register")
    /\ UNCHANGED <<permits, post, lost, outcome, trace, registry, process, born, request>>

CreateFails(q) ==
    /\ pc[q] = "Create"
    /\ Answer(q, "500")
    /\ Go(q, "Shutdown")
    /\ UNCHANGED <<permits, lost, outcome, trace, status, registry, process, born, request>>

Register(q) ==
    /\ pc[q] = "Register"
    /\ gate' = [gate EXCEPT ![q] = "Open"]
    /\ Answer(q, "202")
    /\ Go(q, "Run")
    /\ UNCHANGED <<permits, lost, outcome, history, persisted, broken, status, registry,
                   process, born, request>>
-----------------------------------------------------------------------------
\* The recorder accepts an event of an open run, even one its failing writer
\* will not live to persist; it rejects events once the writer has failed.
Accept(q, kind) ==
    /\ gate[q] = "Open"
    /\ history' = [history EXCEPT ![q] = Append(@, kind)]
    /\ UNCHANGED lost
Reject(q) ==
    /\ broken[q]
    /\ lost' = [lost EXCEPT ![q] = TRUE]
    /\ UNCHANGED history

Emit(q) ==
    /\ pc[q] = "Run"
    /\ (Len(history[q]) < MaxEvents /\ Accept(q, "Step")) \/ Reject(q)
    /\ UNCHANGED <<permits, pc, post, outcome, gate, persisted, broken, status, registry,
                   process, born, request>>

\* An event cannot be built: it is counted as lost.
SidecarFailure(q) ==
    /\ pc[q] = "Run" /\ ~lost[q]
    /\ lost' = [lost EXCEPT ![q] = TRUE]
    /\ UNCHANGED <<permits, pc, post, outcome, trace, status, registry, process, born, request>>

\* The search ends with an answer or an error (loading the engine included).
SearchEnds(q, result) ==
    /\ pc[q] = "Run"
    /\ outcome' = [outcome EXCEPT ![q] = result]
    /\ Go(q, "Terminal")
    /\ UNCHANGED <<permits, post, lost, trace, status, registry, process, born, request>>

Panic(q) ==
    /\ pc[q] = "Run"
    /\ outcome' = [outcome EXCEPT ![q] = "Panicked"]
    /\ Exit(q)
    /\ UNCHANGED <<post, lost, trace, status, registry, process, born, request>>

\* finish_success and finish_failure: one terminal event, chosen by what is
\* known to be lost by now.  Mutant: chosen by the outcome only.
TerminalKindOptimistic(q) == IF outcome[q] = "Ok" THEN "RunCompleted" ELSE "RunFailed"
TerminalKind(q) == IF outcome[q] = "Ok" /\ ~lost[q] THEN "RunCompleted" ELSE "RunFailed"
\* Then finish_run.  Mutant: finish_failure does not call it.
AfterTerminalIfOk(q) == IF outcome[q] = "Ok" THEN "Finish" ELSE "Convert"
AfterTerminal(q) == "Finish"
EmitTerminal(q) ==
    /\ pc[q] = "Terminal"
    /\ Accept(q, TerminalKind(q)) \/ Reject(q)
    /\ Go(q, AfterTerminal(q))
    /\ UNCHANGED <<permits, post, outcome, gate, persisted, broken, status, registry,
                   process, born, request>>

\* finish_run: the barrier behind everything accepted.  Its error is logged.
\* Mutant: it does not wait for the queue.
Anyway(q) == TRUE
Drained(q) == persisted[q] = Len(history[q])
Finish(q) ==
    /\ pc[q] = "Finish" /\ gate[q] = "Open" /\ ~broken[q] /\ Drained(q)
    /\ gate' = [gate EXCEPT ![q] = "Finished"]
    /\ Go(q, "Convert")
    /\ UNCHANGED <<permits, post, lost, outcome, history, persisted, broken, status, registry,
                   process, born, request>>

FinishFails(q) ==
    /\ pc[q] = "Finish" /\ broken[q]
    /\ Go(q, "Convert")
    /\ UNCHANGED <<permits, post, lost, outcome, trace, status, registry, process, born, request>>

\* The writer fails between finish_run's reservation and its send: nobody
\* answers (see StoreRecorder, FinishRunReturns).
FinishStrands(q) ==
    /\ pc[q] = "Finish" /\ persisted[q] < Len(history[q])
    /\ broken' = [broken EXCEPT ![q] = TRUE]
    /\ Go(q, "Stranded")
    /\ UNCHANGED <<permits, post, lost, outcome, gate, history, persisted, status, registry,
                   process, born, request>>

\* The recorder's writer, until its process dies.
Persist(q) ==
    /\ born[q] = process /\ ~broken[q]
    /\ persisted[q] < Len(history[q])
    /\ persisted' = [persisted EXCEPT ![q] = @ + 1]
    /\ UNCHANGED <<execution, gate, history, broken, status, registry, process, born, request>>

PersistFails(q) ==
    /\ born[q] = process /\ ~broken[q]
    /\ persisted[q] < Len(history[q])
    /\ broken' = [broken EXCEPT ![q] = TRUE]
    /\ UNCHANGED <<execution, gate, history, persisted, status, registry, process, born, request>>
-----------------------------------------------------------------------------
\* What the runner returned: an answer that converts, one that does not, an error.
Convert(q) ==
    /\ pc[q] = "Convert"
    /\ \/ outcome[q] = "Ok" /\ Go(q, "Publish") /\ UNCHANGED outcome
       \/ /\ outcome[q] = "Ok"
          /\ Go(q, "Shutdown")
          /\ outcome' = [outcome EXCEPT ![q] = "Unconvertible"]
       \/ outcome[q] = "Failed" /\ Go(q, "Complete") /\ UNCHANGED outcome
    /\ UNCHANGED <<permits, post, lost, trace, status, registry, process, born, request>>

\* A removed query leaves the line (retain); the others keep their order.
LineWithout(q) ==
    LET stay == {i \in DOMAIN order : order[i] # q}
    IN [n \in 1..Cardinality(stay) |->
           order[CHOOSE i \in stay : Cardinality({j \in stay : j <= i}) = n]]

\* insert: the query goes to the end of the line; the fewest from its front
\* that bring the results within the capacity are evicted.
LineWith(q) == Append(LineWithout(q), q)
Front(line, n) == {line[i] : i \in 1..n}
Evicted(line, kept) ==
    CHOOSE n \in 0..Len(line) :
        /\ n = Len(line) \/ Cardinality(kept \ Front(line, n)) <= Capacity
        /\ \A m \in 0..(n - 1) : Cardinality(kept \ Front(line, m)) > Capacity
Publish(q) ==
    /\ pc[q] = "Publish"
    /\ LET line == LineWith(q)
           kept == results \cup {q}
           n == Evicted(line, kept)
       IN  /\ results' = kept \ Front(line, n)
           /\ order' = SubSeq(line, n + 1, Len(line))
    /\ published' = Append(published, q)
    /\ Go(q, "Complete")
    /\ UNCHANGED <<permits, post, lost, outcome, trace, status, process, born, request>>

\* complete_run with the status of the outcome: refused for a run that is not
\* finished, and the store may fail it.
MayComplete(q) == gate[q] = "Finished"
Complete(q) ==
    /\ pc[q] = "Complete" /\ MayComplete(q)
    /\ status' = [status EXCEPT ![q] = IF outcome[q] = "Ok" THEN "Completed" ELSE "Failed"]
    /\ Go(q, "Shutdown")
    /\ UNCHANGED <<permits, post, lost, outcome, trace, registry, process, born, request>>

\* A failed completion takes the result back.  Mutant: it is kept.
AfterFailureKeeping(q) == "Shutdown"
AfterFailure(q) == IF outcome[q] = "Ok" THEN "Remove" ELSE "Shutdown"
CompleteFails(q) ==
    /\ pc[q] = "Complete"
    /\ outcome' = [outcome EXCEPT ![q] = IF MayComplete(q) THEN "StoreFailed" ELSE "NotFinalized"]
    /\ Go(q, AfterFailure(q))
    /\ UNCHANGED <<permits, post, lost, trace, status, registry, process, born, request>>

Remove(q) ==
    /\ pc[q] = "Remove"
    /\ results' = results \ {q}
    /\ order' = LineWithout(q)
    /\ Go(q, "Shutdown")
    /\ UNCHANGED <<permits, post, lost, outcome, trace, status, process, born, request, published>>

\* shutdown drains or finds the writer ended; the task returns.
\* Mutant: it waits for a failed writer to drain.
WriterDrained(q) == Drained(q)
WriterEnds(q) == broken[q] \/ Drained(q)
Shutdown(q) ==
    /\ pc[q] = "Shutdown"
    /\ WriterEnds(q)
    /\ Exit(q)
    /\ UNCHANGED <<post, lost, outcome, trace, status, registry, process, born, request>>
-----------------------------------------------------------------------------
\* GET result: the store's status first, the registry in a second step.
\* Mutant: the registry is asked without looking at the status.
AnyStatus(q) == TRUE
MayHaveResult(q) == status[q] = "Completed"
ReadStatus(q) ==
    /\ reading = Nobody
    /\ \/ MayHaveResult(q) /\ reading' = q /\ UNCHANGED answer
       \/ /\ ~MayHaveResult(q)
          /\ answer' = [answer EXCEPT ![q] =
                 CASE status[q] = "NoRun" -> 404
                   [] status[q] = "Running" -> 202
                   [] status[q] = "Failed" -> 409]
          /\ UNCHANGED reading
    /\ UNCHANGED <<execution, trace, status, registry, process, born>>

ReadRegistry ==
    /\ reading # Nobody
    /\ answer' = [answer EXCEPT ![reading] = IF reading \in results THEN 200 ELSE 410]
    /\ reading' = Nobody
    /\ UNCHANGED <<execution, trace, status, registry, process, born>>

\* The process stops and a new one opens the same store: tasks, permits,
\* queues and results are gone.
Restart ==
    /\ process < MaxRestarts
    /\ process' = process + 1
    /\ permits' = MaxConcurrent
    /\ pc' = [q \in Queries |-> IF pc[q] \in Idle THEN pc[q] ELSE "Dead"]
    /\ post' = [q \in Queries |-> IF post[q] = "Waiting" THEN "Gone" ELSE post[q]]
    /\ results' = {} /\ order' = <<>> /\ published' = <<>>
    /\ reading' = Nobody
    /\ UNCHANGED <<lost, outcome, trace, status, born, answer>>

Search(q) == Emit(q) \/ SidecarFailure(q) \/ \E result \in {"Ok", "Failed"} : SearchEnds(q, result)
Task(q) ==
    \/ CreateInStore(q) \/ CreateFails(q) \/ Register(q) \/ Search(q) \/ Panic(q)
    \/ EmitTerminal(q) \/ Finish(q) \/ FinishFails(q) \/ FinishStrands(q)
    \/ Convert(q) \/ Publish(q) \/ Complete(q) \/ CompleteFails(q) \/ Remove(q) \/ Shutdown(q)
Writer(q) == Persist(q) \/ PersistFails(q)

Next ==
    \/ \E q \in Queries : start_query(q) \/ Refuse(q) \/ Disconnect(q) \/ Task(q) \/ Writer(q)
    \/ \E q \in Polled : ReadStatus(q)
    \/ ReadRegistry
    \/ Restart

Spec == Init /\ [][Next]_vars
Fairness == \A q \in Queries : WF_vars(Task(q)) /\ WF_vars(Writer(q))
FairSpec == Spec /\ Fairness
-----------------------------------------------------------------------------
TypeOK ==
    /\ permits \in 0..MaxConcurrent
    /\ pc \in [Queries -> {"None", "Refused", "Create", "Register", "Run", "Terminal", "Finish",
                           "Stranded", "Convert", "Publish", "Complete", "Remove", "Shutdown",
                           "Done", "Dead"}]
    /\ post \in [Queries -> {"None", "Waiting", "Gone", "202", "429", "500"}]
    /\ lost \in [Queries -> BOOLEAN] /\ broken \in [Queries -> BOOLEAN]
    /\ outcome \in [Queries -> {"None", "Ok", "Failed", "Panicked", "Unconvertible",
                                "StoreFailed", "NotFinalized"}]
    /\ gate \in [Queries -> {"Absent", "Open", "Finished"}]
    /\ history \in [Queries -> Seq({"Step"} \cup Terminal)]
    /\ persisted \in [Queries -> Nat]
    /\ status \in [Queries -> {"NoRun", "Running", "Completed", "Failed"}]
    /\ results \subseteq Queries
    /\ order \in Seq(Queries) /\ published \in Seq(Queries)
    /\ process \in 0..MaxRestarts /\ born \in [Queries -> 0..MaxRestarts]
    /\ reading \in Queries \cup {Nobody}
    /\ answer \in [Queries -> {0, 200, 202, 404, 409, 410}]

\* Every permit (query_permits) is free or held by a task that has not
\* returned, whichever way tasks end: refused by the store, panicked, failed or
\* completed.
Holders == {q \in Queries : pc[q] \notin Idle}
PermitsConserved == permits + Cardinality(Holders) = MaxConcurrent

\* A run with a terminal status is finished, its whole trace is stored and
\* ends with a terminal event, run_failed if the query failed; a stored
\* run_completed is the last event of a trace that lost nothing: whatever was
\* rejected or could not be built before turns it to run_failed.
TraceMatchesStatus ==
    \A q \in Queries :
        /\ status[q] \in {"Completed", "Failed"} =>
               /\ gate[q] = "Finished"
               /\ history[q] # <<>> /\ persisted[q] = Len(history[q])
               /\ LastEvent(q) \in Terminal
               /\ status[q] = "Failed" => LastEvent(q) = "RunFailed"
        /\ (persisted[q] > 0 /\ history[q][persisted[q]] = "RunCompleted") =>
               ~lost[q] /\ persisted[q] = Len(history[q]) /\ outcome[q] # "Failed"

\* Once Completed is visible the answer has been published in the process that
\* ran the query, and is only gone when as many answers came after it as the
\* registry holds; what the registry holds belongs to a run that is Completed or
\* whose completion is under way, so a failed completion takes it back.  The
\* registry's two structures hold the same queries, each once, never more than
\* the capacity: insertion, eviction and removal keep them in step.
PublishedAfter(q) ==
    {published[j] : j \in {k \in DOMAIN published : \E i \in 1..(k - 1) : published[i] = q}}
ResultsMatchRuns ==
    /\ \A q \in Queries : (status[q] = "Completed" /\ born[q] = process) =>
           /\ \E i \in DOMAIN published : published[i] = q
           /\ q \in results \/ Cardinality(PublishedAfter(q)) >= Capacity
    /\ \A q \in results : status[q] = "Completed" \/ pc[q] \in {"Complete", "Remove"}
    /\ Front(order, Len(order)) = results
    /\ Cardinality(results) = Len(order)
    /\ Cardinality(results) <= Capacity

\* A run whose task has returned is still Running only if its answer did not
\* convert, the query panicked, or a store call failed; a POST that was refused
\* or failed leaves no run behind.
RunningForACause ==
    \A q \in Queries :
        /\ (pc[q] = "Done" /\ status[q] = "Running") =>
               \/ outcome[q] \in {"Panicked", "Unconvertible", "StoreFailed"}
               \/ outcome[q] = "NotFinalized" /\ broken[q]
        /\ post[q] \in {"429", "500"} => status[q] = "NoRun"

\* The result endpoint's answers about a query only move on: not there, not
\* ready, then either failed for good or ready and later gone.  A client told
\* 202 is never told that there is no such run.
Later(old) ==
    CASE old = 0 -> {0, 404, 202, 409, 200, 410}
      [] old = 404 -> {404, 202, 409, 200, 410}
      [] old = 202 -> {202, 409, 200, 410}
      [] old = 200 -> {200, 410}
      [] old \in {409, 410} -> {old}
AnswersMoveOn ==
    [][\A q \in Queries :
          /\ answer'[q] \in Later(answer[q])
          /\ (answer'[q] = 404 /\ post[q] = "202") => answer[q] = 404]_vars

\* A spawned query ends and gives its permit back, unless finish_run was left
\* without an answer or the process died; the wait behind the recorder's queue
\* and every error path included.
TaskEnds ==
    \A q \in Queries : pc[q] = "Create" ~> pc[q] \in {"Done", "Stranded", "Dead"}

\* What this module takes for a recorder is one that ReliableLog allows.
Log == INSTANCE ReliableLog WITH
    Runs <- Queries,
    state <- [q \in Queries |->
                 IF status[q] \in {"Completed", "Failed"} THEN "Completed" ELSE gate[q]],
    accepted <- [q \in Queries |-> Len(history[q])]
UsesReliableLog == Log!Spec
=============================================================================
