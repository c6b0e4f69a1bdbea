-------------------------- MODULE StudioQueryProofs --------------------------
(***************************************************************************)
(* The query host keeps its permits, its traces agree with the statuses of *)
(* its runs, its registry holds the answers of Completed runs within its   *)
(* capacity, what it tells a client only moves on, and it asks of a        *)
(* recorder only what ReliableLog allows, for any number of queries,       *)
(* permits, results, events, restarts and clients.                         *)
(***************************************************************************)
EXTENDS StudioQuery, FiniteSetTheorems, TLAPS

Places == {"None", "Refused", "Create", "Register", "Run", "Terminal", "Finish", "Stranded",
           "Convert", "Publish", "Complete", "Remove", "Shutdown", "Done", "Dead"}
\* TypeOK but for what the registry's line holds.
Types ==
    /\ permits \in Int
    /\ pc \in [Queries -> Places]
    /\ post \in [Queries -> {"None", "Waiting", "Gone", "202", "429", "500"}]
    /\ lost \in [Queries -> BOOLEAN] /\ broken \in [Queries -> BOOLEAN]
    /\ outcome \in [Queries -> {"None", "Ok", "Failed", "Panicked", "Unconvertible",
                                "StoreFailed", "NotFinalized"}]
    /\ gate \in [Queries -> {"Absent", "Open", "Finished"}]
    /\ history \in [Queries -> Seq({"Step"} \cup Terminal)]
    /\ persisted \in [Queries -> Nat]
    /\ status \in [Queries -> {"NoRun", "Running", "Completed", "Failed"}]
    /\ results \subseteq Queries
    /\ reading \in Queries \cup {Nobody}
    /\ answer \in [Queries -> {0, 200, 202, 404, 409, 410}]

\* How far the run of a query is in the store and in its recorder.
RunHolds(q) ==
    /\ pc[q] \in {"None", "Refused", "Create"} => status[q] = "NoRun"
    /\ pc[q] \in {"None", "Refused", "Create", "Register"} => gate[q] = "Absent"
    /\ pc[q] \in {"Register", "Run", "Terminal", "Finish", "Stranded", "Convert",
                  "Publish", "Complete"} => status[q] = "Running"
    /\ gate[q] # "Absent" => status[q] # "NoRun"
    /\ status[q] \in {"Completed", "Failed"} => gate[q] = "Finished"
    /\ pc[q] \in {"Convert", "Publish", "Complete"} => gate[q] = "Finished" \/ broken[q]
    /\ post[q] \in {"429", "500"} =>
           status[q] = "NoRun" /\ pc[q] \in {"Refused", "Shutdown"} \cup Ended
    /\ post[q] = "202" => status[q] # "NoRun"

\* What the events of a query are, and what its outcome can be, at each place.
TraceHolds(q) ==
    /\ persisted[q] <= Len(history[q])
    /\ gate[q] = "Absent" => history[q] = <<>>
    /\ pc[q] \in {"Run", "Terminal"} => \A i \in DOMAIN history[q] : history[q][i] = "Step"
    /\ pc[q] = "Finish" /\ ~broken[q] => history[q] # <<>> /\ LastEvent(q) \in Terminal
    /\ gate[q] = "Finished" =>
           /\ persisted[q] = Len(history[q]) /\ history[q] # <<>> /\ LastEvent(q) \in Terminal
           /\ pc[q] \in {"Convert", "Publish", "Complete", "Remove", "Shutdown"} \cup Ended
    /\ \A i \in DOMAIN history[q] : history[q][i] = "RunCompleted" =>
           i = Len(history[q]) /\ ~lost[q] /\ outcome[q] # "Failed"
    /\ status[q] = "Failed" => LastEvent(q) = "RunFailed"
OutcomeHolds(q) ==
    /\ pc[q] \in {"Terminal", "Finish", "Convert", "Complete"} => outcome[q] \in {"Ok", "Failed"}
    /\ pc[q] = "Publish" => outcome[q] = "Ok"
    /\ pc[q] \in {"Remove", "Shutdown", "Done"} /\ status[q] = "Running" =>
           \/ outcome[q] \in {"Panicked", "Unconvertible", "StoreFailed"}
           \/ outcome[q] = "NotFinalized" /\ broken[q]
QueryInv(q) == RunHolds(q) /\ TraceHolds(q) /\ OutcomeHolds(q)

\* What the result endpoint has said of a query is still so.
AnswerHolds(q) ==
    /\ answer[q] = 202 => status[q] # "NoRun"
    /\ answer[q] = 409 => status[q] = "Failed"
    /\ answer[q] = 200 => status[q] = "Completed"
    /\ answer[q] = 410 => status[q] = "Completed" /\ q \notin results
    /\ reading = q => status[q] = "Completed"

Inv == /\ Types /\ PermitsConserved
       /\ \A q \in Queries : QueryInv(q) /\ AnswerHolds(q)
-----------------------------------------------------------------------------
\* A step of one query leaves the others where they are.
Same(p) ==
    /\ pc'[p] = pc[p] /\ post'[p] = post[p] /\ lost'[p] = lost[p] /\ outcome'[p] = outcome[p]
    /\ gate'[p] = gate[p] /\ history'[p] = history[p] /\ persisted'[p] = persisted[p]
    /\ broken'[p] = broken[p] /\ status'[p] = status[p]

LEMMA SameKeeps ==
  ASSUME NEW p, QueryInv(p), Same(p)
  PROVE  QueryInv(p)'
  BY DEF QueryInv, RunHolds, TraceHolds, OutcomeHolds, Same, LastEvent

\* Nothing a query does takes back what was said of it, as long as its status
\* moves on and no answer that is gone returns.
StatusMoves(p) ==
    \/ status'[p] = status[p]
    \/ status[p] = "NoRun" /\ status'[p] = "Running"
    \/ status[p] = "Running" /\ status'[p] \in {"Completed", "Failed"}
LEMMA AnswersKept ==
  ASSUME Inv, UNCHANGED answer, reading' \in {reading, Nobody}, Nobody \notin Queries,
         \A p \in Queries : /\ StatusMoves(p)
                            /\ p \in results' => p \in results \/ status[p] = "Running"
  PROVE  \A p \in Queries : AnswerHolds(p)'
  BY DEF Inv, AnswerHolds, StatusMoves

\* Appending an event.
LEMMA Appended ==
  ASSUME Types, NEW q \in Queries, NEW kind \in {"Step"} \cup Terminal,
         history' = [history EXCEPT ![q] = Append(@, kind)]
  PROVE  /\ history' \in [Queries -> Seq({"Step"} \cup Terminal)]
         /\ \A p \in Queries \ {q} : history'[p] = history[p]
         /\ history'[q] # <<>> /\ Len(history'[q]) = Len(history[q]) + 1
         /\ DOMAIN history'[q] = 1..(Len(history[q]) + 1)
         /\ \A i \in DOMAIN history[q] : history'[q][i] = history[q][i]
         /\ history'[q][Len(history[q]) + 1] = kind
         /\ DOMAIN history[q] = 1..Len(history[q]) /\ Len(history[q]) \in Nat
  <1>1. history[q] \in Seq({"Step"} \cup Terminal)
    BY DEF Types
  <1>2. history'[q] = Append(history[q], kind)
    BY DEF Types
  <1>3. history' \in [Queries -> Seq({"Step"} \cup Terminal)]
    BY <1>1 DEF Types
  <1> QED
    BY <1>1, <1>2, <1>3

-----------------------------------------------------------------------------
\* The permits: who holds one changes with pc only.
LEMMA HoldersFinite == IsFiniteSet(Holders) /\ Cardinality(Holders) \in Nat
  <1>1. Holders \in SUBSET Queries /\ IsFiniteSet(Queries)
    BY StudioAssumption DEF StudioAssumption, Holders
  <1> QED
    BY <1>1, FS_Subset, FS_CardinalityType

LEMMA HoldersStay ==
  ASSUME Types, PermitsConserved, UNCHANGED permits,
         \A q \in Queries : pc'[q] \in Idle <=> pc[q] \in Idle
  PROVE  PermitsConserved'
  <1>1. Holders' = Holders
    BY DEF Holders
  <1> QED
    BY <1>1 DEF PermitsConserved

LEMMA HolderEnters ==
  ASSUME Types, PermitsConserved, NEW q \in Queries, pc[q] \in Idle, NEW there \in Places \ Idle,
         pc' = [pc EXCEPT ![q] = there], permits' = permits - 1
  PROVE  PermitsConserved'
  <1>1. Holders' = Holders \cup {q} /\ q \notin Holders
    BY DEF Holders, Types
  <1>2. Cardinality(Holders') = Cardinality(Holders) + 1
    BY <1>1, HoldersFinite, FS_AddElement
  <1> QED
    BY <1>2, HoldersFinite DEF PermitsConserved, Types

LEMMA HolderLeaves ==
  ASSUME Types, PermitsConserved, NEW q \in Queries, pc[q] \notin Idle, Exit(q)
  PROVE  PermitsConserved'
  <1>1. Holders' = Holders \ {q} /\ q \in Holders
    BY DEF Holders, Types, Exit, Go, Idle, Ended
  <1>2. Cardinality(Holders') = Cardinality(Holders) - 1
    BY <1>1, HoldersFinite, FS_RemoveElement
  <1> QED
    BY <1>2, HoldersFinite DEF PermitsConserved, Types, Exit
-----------------------------------------------------------------------------
\* A step of the task, the client or the writer of one query.
LEMMA QueryStep ==
  ASSUME Inv, NEW q \in Queries, Types', PermitsConserved', QueryInv(q)', StatusMoves(q),
         \A p \in Queries \ {q} : Same(p), UNCHANGED request,
         \A p \in results' : p \in results \/ status[p] = "Running"
  PROVE  Inv'
  <1>1. \A p \in Queries : QueryInv(p)'
    BY SameKeeps DEF Inv
  <1>2. \A p \in Queries : StatusMoves(p)
    BY DEF Same, StatusMoves
  <1>3. \A p \in Queries : AnswerHolds(p)'
    BY <1>2, AnswersKept, StudioAssumption DEF StudioAssumption, request
  <1> QED
    BY <1>1, <1>3 DEF Inv

\* Steps that change only where a query is, how its POST was answered, what was
\* lost, its outcome, whether its writer failed and its status: all but those
\* that touch the trace, the permits or the registry.
LEMMA TaskInv ==
  ASSUME Inv, NEW q \in Queries,
         \/ Disconnect(q) \/ CreateInStore(q) \/ CreateFails(q) \/ Register(q)
         \/ SidecarFailure(q) \/ (\E result \in {"Ok", "Failed"} : SearchEnds(q, result))
         \/ Finish(q) \/ FinishFails(q) \/ FinishStrands(q) \/ PersistFails(q)
         \/ Convert(q) \/ Complete(q) \/ CompleteFails(q)
  PROVE  Inv'
  <1> USE DEF execution, trace, registry, request, Go, Answer
  <1>0. Types /\ PermitsConserved /\ QueryInv(q)
    BY DEF Inv
  <1> SUFFICES /\ Types' /\ QueryInv(q)' /\ StatusMoves(q) /\ UNCHANGED <<permits, results, request>>
               /\ pc'[q] \in Idle <=> pc[q] \in Idle
               /\ \A p \in Queries \ {q} : Same(p)
    <2> SUFFICES ASSUME /\ Types' /\ QueryInv(q)' /\ StatusMoves(q)
                        /\ UNCHANGED <<permits, results, request>>
                        /\ pc'[q] \in Idle <=> pc[q] \in Idle
                        /\ \A p \in Queries \ {q} : Same(p)
                 PROVE  Inv'
      OBVIOUS
    <2>1. \A p \in Queries : pc'[p] \in Idle <=> pc[p] \in Idle
      BY DEF Same
    <2>2. PermitsConserved'
      BY <1>0, <2>1, HoldersStay
    <2> QED
      BY <2>2, QueryStep
  <1> USE DEF Types, QueryInv, RunHolds, TraceHolds, OutcomeHolds, LastEvent, Terminal, Ended,
              Idle, Places, Same, StatusMoves
  <1>1. CASE Disconnect(q)
    BY <1>0, <1>1 DEF Disconnect
  <1>2. CASE CreateInStore(q)
    BY <1>0, <1>2 DEF CreateInStore
  <1>3. CASE CreateFails(q)
    BY <1>0, <1>3 DEF CreateFails
  <1>4. CASE Register(q)
    BY <1>0, <1>4 DEF Register
  <1>5. CASE SidecarFailure(q)
    BY <1>0, <1>5 DEF SidecarFailure
  <1>6. ASSUME NEW result \in {"Ok", "Failed"}, SearchEnds(q, result)
        PROVE  /\ Types' /\ QueryInv(q)' /\ StatusMoves(q) /\ UNCHANGED <<permits, results, request>>
               /\ pc'[q] \in Idle <=> pc[q] \in Idle
               /\ \A p \in Queries \ {q} : Same(p)
    BY <1>0, <1>6 DEF SearchEnds
  <1>7. CASE Finish(q)
    BY <1>0, <1>7 DEF Finish, Drained
  <1>8. CASE FinishFails(q)
    BY <1>0, <1>8 DEF FinishFails
  <1>9. CASE FinishStrands(q)
    BY <1>0, <1>9 DEF FinishStrands
  <1>10. CASE PersistFails(q)
    BY <1>0, <1>10 DEF PersistFails
  <1>11. CASE Convert(q)
    <2>1. PICK there \in {"Publish", "Shutdown", "Complete"},
               result \in {"Ok", "Failed", "Unconvertible"} :
              /\ pc' = [pc EXCEPT ![q] = there] /\ outcome' = [outcome EXCEPT ![q] = result]
              /\ \/ outcome[q] = "Ok" /\ there = "Publish" /\ result = "Ok"
                 \/ outcome[q] = "Ok" /\ there = "Shutdown" /\ result = "Unconvertible"
                 \/ outcome[q] = "Failed" /\ there = "Complete" /\ result = "Failed"
      <3>1. outcome' = outcome => outcome' = [outcome EXCEPT ![q] = outcome[q]]
        BY <1>0
      <3> QED
        BY <1>11, <3>1 DEF Convert
    <2>2. /\ pc[q] = "Convert"
          /\ UNCHANGED <<permits, post, lost, gate, history, persisted, broken, status, results,
                         reading, answer>>
      BY <1>11 DEF Convert
    <2> QED
      BY <1>0, <2>1, <2>2
  <1>12. CASE Complete(q)
    <2>1. history[q] \in Seq({"Step"} \cup Terminal) /\ gate[q] = "Finished"
          /\ history[q] # <<>> /\ LastEvent(q) \in Terminal
      BY <1>0, <1>12 DEF Complete, MayComplete
    <2>2. Len(history[q]) \in DOMAIN history[q]
      BY <2>1
    <2>3. outcome[q] = "Ok" \/ LastEvent(q) = "RunFailed"
      BY <1>0, <1>12, <2>1, <2>2 DEF Complete
    <2> QED
      BY <1>0, <1>12, <2>1, <2>3 DEF Complete, MayComplete
  <1>13. CASE CompleteFails(q)
    BY <1>0, <1>13 DEF CompleteFails, MayComplete, AfterFailure
  <1> QED
    BY <1>1, <1>2, <1>3, <1>4, <1>5, <1>6, <1>7, <1>8, <1>9, <1>10, <1>11, <1>12, <1>13

\* The recorder's writer stores the next record.
LEMMA PersistInv ==
  ASSUME Inv, NEW q \in Queries, Persist(q)
  PROVE  Inv'
  <1> USE DEF Inv, Persist, execution, registry, request
  <1>1. Types' /\ \A p \in Queries \ {q} : Same(p)
    BY DEF Types, Same
  <1>2. QueryInv(q)'
    <2>1. history[q] \in Seq({"Step"} \cup Terminal) /\ persisted[q] \in Nat
          /\ persisted'[q] = persisted[q] + 1 /\ QueryInv(q)
      BY DEF Types
    <2> QED
      BY <2>1 DEF QueryInv, RunHolds, TraceHolds, OutcomeHolds, LastEvent
  <1>3. PermitsConserved'
    BY HoldersStay
  <1> QED
    BY <1>1, <1>2, <1>3, QueryStep DEF StatusMoves

\* An event before the terminal one, and the terminal one: accepted, or lost.
LEMMA EmitInv ==
  ASSUME Inv, NEW q \in Queries, Emit(q)
  PROVE  Inv'
  <1> USE DEF Inv, registry, request
  <1>1. PermitsConserved'
    BY HoldersStay DEF Emit
  <1>2. CASE Reject(q)
    <2>1. Types' /\ StatusMoves(q) /\ \A p \in Queries \ {q} : Same(p)
      BY <1>2 DEF Emit, Reject, Types, Same, StatusMoves
    <2>2. QueryInv(q) /\ history[q] \in Seq({"Step"} \cup Terminal)
      BY DEF Types
    <2>3. QueryInv(q)'
      BY <1>2, <2>2 DEF Emit, Reject, Types, Terminal, QueryInv, RunHolds, TraceHolds,
                        OutcomeHolds, LastEvent
    <2> QED
      BY <1>1, <2>1, <2>3, QueryStep DEF Emit
  <1>3. CASE Accept(q, "Step")
    <2> DEFINE n == Len(history[q])
    <2>1. /\ history' \in [Queries -> Seq({"Step"} \cup Terminal)]
          /\ \A p \in Queries \ {q} : history'[p] = history[p]
          /\ history'[q] # <<>> /\ Len(history'[q]) = n + 1
          /\ DOMAIN history'[q] = 1..(n + 1) /\ DOMAIN history[q] = 1..n /\ n \in Nat
          /\ \A i \in DOMAIN history[q] : history'[q][i] = history[q][i]
          /\ history'[q][n + 1] = "Step"
      BY <1>3, Appended DEF Accept
    <2>2. \A i \in DOMAIN history'[q] : history'[q][i] = "Step"
      BY <2>1 DEF Emit, QueryInv, TraceHolds
    <2>3. Types' /\ \A p \in Queries \ {q} : Same(p)
      BY <1>3, <2>1 DEF Emit, Accept, Types, Same
    <2>4. QueryInv(q)'
      BY <1>3, <2>1, <2>2
      DEF Emit, Accept, Types, QueryInv, RunHolds, TraceHolds, OutcomeHolds, LastEvent
    <2> QED
      BY <1>1, <2>3, <2>4, QueryStep DEF Emit, StatusMoves
  <1> QED
    BY <1>2, <1>3 DEF Emit

LEMMA EmitTerminalInv ==
  ASSUME Inv, NEW q \in Queries, EmitTerminal(q)
  PROVE  Inv'
  <1> USE DEF Inv, registry, request
  <1>1. PermitsConserved'
    BY HoldersStay DEF EmitTerminal, Go, AfterTerminal, Types, Idle, Ended
  <1>2. CASE Reject(q)
    <2>1. Types' /\ StatusMoves(q) /\ \A p \in Queries \ {q} : Same(p)
      BY <1>2 DEF EmitTerminal, Go, AfterTerminal, Reject, Types, Places, Same, StatusMoves
    <2>2. QueryInv(q) /\ history[q] \in Seq({"Step"} \cup Terminal)
      BY DEF Types
    <2>3. QueryInv(q)'
      BY <1>2, <2>2 DEF EmitTerminal, Go, AfterTerminal, Reject, Types, Terminal, QueryInv,
                        RunHolds, TraceHolds, OutcomeHolds, LastEvent
    <2> QED
      BY <1>1, <2>1, <2>3, QueryStep DEF EmitTerminal
  <1>3. CASE Accept(q, TerminalKind(q))
    <2> DEFINE n == Len(history[q])
    <2>0. TerminalKind(q) \in Terminal
      BY DEF TerminalKind, Terminal
    <2>1. /\ history' \in [Queries -> Seq({"Step"} \cup Terminal)]
          /\ \A p \in Queries \ {q} : history'[p] = history[p]
          /\ history'[q] # <<>> /\ Len(history'[q]) = n + 1
          /\ DOMAIN history'[q] = 1..(n + 1) /\ DOMAIN history[q] = 1..n /\ n \in Nat
          /\ \A i \in DOMAIN history[q] : history'[q][i] = history[q][i]
          /\ history'[q][n + 1] = TerminalKind(q)
      BY <1>3, <2>0, Appended DEF Accept
    <2>2. \A i \in DOMAIN history'[q] : history'[q][i] = "RunCompleted" =>
              i = n + 1 /\ ~lost[q] /\ outcome[q] = "Ok"
      BY <2>1 DEF EmitTerminal, QueryInv, TraceHolds, TerminalKind
    <2>3. Types' /\ \A p \in Queries \ {q} : Same(p)
      BY <1>3, <2>1 DEF EmitTerminal, Go, AfterTerminal, Accept, Types, Places, Same
    <2>4. QueryInv(q)'
      BY <1>3, <2>0, <2>1, <2>2
      DEF EmitTerminal, Go, AfterTerminal, Accept, Types, QueryInv, RunHolds, TraceHolds,
          OutcomeHolds, LastEvent
    <2> QED
      BY <1>1, <2>3, <2>4, QueryStep DEF EmitTerminal, StatusMoves
  <1> QED
    BY <1>2, <1>3 DEF EmitTerminal

\* Admission, and the ways out that give a permit back.
LEMMA AdmissionInv ==
  ASSUME Inv, NEW q \in Queries, start_query(q) \/ Refuse(q) \/ Panic(q) \/ Shutdown(q)
  PROVE  Inv'
  <1> USE DEF execution, trace, registry, request, Go
  <1>0. Types /\ PermitsConserved /\ QueryInv(q)
    BY DEF Inv
  <1>1. /\ Types' /\ StatusMoves(q) /\ UNCHANGED <<results, request>>
        /\ \A p \in Queries \ {q} : Same(p)
    <2> USE DEF Types, Places, Same, StatusMoves
    <2>1. CASE start_query(q)
      BY <1>0, <2>1 DEF start_query
    <2>2. CASE Refuse(q)
      BY <1>0, <2>2 DEF Refuse
    <2>3. CASE Panic(q)
      BY <1>0, <2>3 DEF Panic, Exit
    <2>4. CASE Shutdown(q)
      BY <1>0, <2>4 DEF Shutdown, Exit
    <2> QED
      BY <2>1, <2>2, <2>3, <2>4
  <1>2. QueryInv(q)'
    <2> USE DEF Types, QueryInv, RunHolds, TraceHolds, OutcomeHolds, LastEvent, Ended
    <2>1. CASE start_query(q)
      BY <1>0, <2>1 DEF start_query
    <2>2. CASE Refuse(q)
      BY <1>0, <2>2 DEF Refuse
    <2>3. CASE Panic(q)
      BY <1>0, <2>3 DEF Panic, Exit
    <2>4. CASE Shutdown(q)
      BY <1>0, <2>4 DEF Shutdown, Exit
    <2> QED
      BY <2>1, <2>2, <2>3, <2>4
  <1>3. PermitsConserved'
    <2>1. CASE start_query(q)
      BY <1>0, <2>1, HolderEnters DEF start_query, Idle, Ended, Places
    <2>2. CASE Refuse(q)
      BY <1>0, <2>2, HoldersStay DEF Refuse, Idle, Ended, Types
    <2>3. CASE Panic(q)
      BY <1>0, <2>3, HolderLeaves DEF Panic, Idle, Ended
    <2>4. CASE Shutdown(q)
      BY <1>0, <2>4, HolderLeaves DEF Shutdown, Idle, Ended
    <2> QED
      BY <2>1, <2>2, <2>3, <2>4
  <1> QED
    BY <1>1, <1>2, <1>3, QueryStep

\* The registry: inserting evicts others, and a failed completion removes.
LEMMA RegistryInv ==
  ASSUME Inv, NEW q \in Queries, Publish(q) \/ Remove(q)
  PROVE  Inv'
  <1> USE DEF trace, request, Go
  <1>0. Types /\ PermitsConserved /\ QueryInv(q)
    BY DEF Inv
  <1>1. results' \subseteq results \cup {q} /\ (q \in results' => q \in results \/ status[q] = "Running")
    BY <1>0 DEF Publish, Remove, QueryInv, RunHolds
  <1>2. Types' /\ StatusMoves(q) /\ \A p \in Queries \ {q} : Same(p)
    <2>1. CASE Publish(q)
      BY <1>0, <1>1, <2>1 DEF Publish, Types, Places, StatusMoves, Same
    <2>2. CASE Remove(q)
      BY <1>0, <1>1, <2>2 DEF Remove, Types, Places, StatusMoves, Same
    <2> QED
      BY <2>1, <2>2
  <1>3. QueryInv(q)'
    <2>1. CASE Publish(q)
      BY <1>0, <2>1 DEF Publish, Types, QueryInv, RunHolds, TraceHolds, OutcomeHolds, LastEvent,
                        Ended
    <2>2. CASE Remove(q)
      BY <1>0, <2>2 DEF Remove, Types, QueryInv, RunHolds, TraceHolds, OutcomeHolds, LastEvent,
                        Ended
    <2> QED
      BY <2>1, <2>2
  <1>4. PermitsConserved'
    BY <1>0, HoldersStay DEF Publish, Remove, Types, Idle, Ended
  <1> QED
    BY <1>1, <1>2, <1>3, <1>4, QueryStep DEF Publish, Remove

\* The result endpoint.
LEMMA ResultInv ==
  ASSUME Inv, (\E q \in Polled : ReadStatus(q)) \/ ReadRegistry
  PROVE  Inv'
  <1> USE StudioAssumption DEF StudioAssumption, execution, trace, registry
  <1>0. Types /\ PermitsConserved /\ \A q \in Queries : QueryInv(q) /\ AnswerHolds(q)
    BY DEF Inv
  <1>1. PermitsConserved' /\ \A q \in Queries : QueryInv(q)'
    <2>1. UNCHANGED <<permits, pc, post, lost, outcome, gate, history, persisted, broken, status>>
      BY DEF ReadStatus, ReadRegistry
    <2> QED
      BY <1>0, <2>1 DEF PermitsConserved, Holders, QueryInv, RunHolds, TraceHolds, OutcomeHolds,
                        LastEvent
  <1>2. ASSUME NEW q \in Polled, ReadStatus(q)
        PROVE  Types' /\ \A p \in Queries : AnswerHolds(p)'
    <2>1. CASE MayHaveResult(q)
      BY <1>0, <1>2, <2>1 DEF ReadStatus, MayHaveResult, Types, AnswerHolds
    <2>2. CASE ~MayHaveResult(q)
      <3>1. status[q] \in {"NoRun", "Running", "Failed"}
        BY <1>0, <2>2 DEF MayHaveResult, Types
      <3>2. answer' = [answer EXCEPT ![q] = IF status[q] = "NoRun" THEN 404
                                            ELSE IF status[q] = "Running" THEN 202 ELSE 409]
        BY <1>2, <2>2, <3>1 DEF ReadStatus
      <3> QED
        BY <1>0, <1>2, <2>2, <3>1, <3>2 DEF ReadStatus, Types, AnswerHolds
    <2> QED
      BY <2>1, <2>2
  <1>3. ASSUME ReadRegistry
        PROVE  Types' /\ \A p \in Queries : AnswerHolds(p)'
    BY <1>0, <1>3 DEF ReadRegistry, Types, AnswerHolds
  <1> QED
    BY <1>1, <1>2, <1>3 DEF Inv

\* The process is replaced: its tasks are dead, its results and permits new.
LEMMA RestartInv ==
  ASSUME Inv, Restart
  PROVE  Inv'
  <1>0. Types /\ \A q \in Queries : QueryInv(q) /\ AnswerHolds(q)
    BY DEF Inv
  <1>1. Types'
    BY <1>0, StudioAssumption DEF Restart, Types, Places, trace, StudioAssumption
  <1>2. PermitsConserved'
    <2>1. Holders' = {}
      BY DEF Restart, Holders, Idle, Ended
    <2> QED
      BY <2>1, FS_EmptySet, StudioAssumption DEF Restart, PermitsConserved, StudioAssumption
  <1>3. ASSUME NEW q \in Queries PROVE QueryInv(q)'
    <2>1. /\ pc'[q] = (IF pc[q] \in Idle THEN pc[q] ELSE "Dead") /\ QueryInv(q)
          /\ post'[q] = (IF post[q] = "Waiting" THEN "Gone" ELSE post[q])
          /\ UNCHANGED <<lost, outcome, gate, history, persisted, broken, status>>
      BY <1>0 DEF Restart, trace
    <2> QED
      BY <2>1 DEF QueryInv, RunHolds, TraceHolds, OutcomeHolds, LastEvent, Idle, Ended
  <1>4. \A q \in Queries : AnswerHolds(q)'
    BY <1>0, StudioAssumption DEF Restart, AnswerHolds, StudioAssumption
  <1> QED
    BY <1>1, <1>2, <1>3, <1>4 DEF Inv

LEMMA InitInv == Init => Inv
  <1> SUFFICES ASSUME Init PROVE Inv
    OBVIOUS
  <1>1. Types
    BY StudioAssumption DEF Init, Types, Places, StudioAssumption
  <1>2. PermitsConserved
    <2>1. Holders = {}
      BY DEF Init, Holders, Idle
    <2> QED
      BY <2>1, FS_EmptySet, StudioAssumption DEF Init, PermitsConserved, StudioAssumption
  <1>3. \A q \in Queries : QueryInv(q) /\ AnswerHolds(q)
    BY StudioAssumption
    DEF Init, QueryInv, RunHolds, TraceHolds, OutcomeHolds, AnswerHolds, Ended, StudioAssumption
  <1> QED
    BY <1>1, <1>2, <1>3 DEF Inv

LEMMA StutterInv == Inv /\ UNCHANGED vars => Inv'
  BY DEF Inv, vars, Types, PermitsConserved, Holders, QueryInv, RunHolds, TraceHolds,
         OutcomeHolds, AnswerHolds, LastEvent

LEMMA NextInv == Inv /\ [Next]_vars => Inv'
  <1> SUFFICES ASSUME Inv, [Next]_vars PROVE Inv'
    OBVIOUS
  <1>1. ASSUME NEW q \in Queries, Task(q) PROVE Inv'
    BY <1>1, TaskInv, EmitInv, EmitTerminalInv, AdmissionInv, RegistryInv DEF Task, Search
  <1>2. ASSUME NEW q \in Queries, Writer(q) PROVE Inv'
    BY <1>2, PersistInv, TaskInv DEF Writer
  <1>3. ASSUME NEW q \in Queries, start_query(q) \/ Refuse(q) \/ Disconnect(q) PROVE Inv'
    BY <1>3, AdmissionInv, TaskInv
  <1>4. CASE (\E q \in Polled : ReadStatus(q)) \/ ReadRegistry
    BY <1>4, ResultInv
  <1> QED
    BY <1>1, <1>2, <1>3, <1>4, RestartInv, StutterInv DEF Next
-----------------------------------------------------------------------------
LEMMA InvHolds == Spec => []Inv
  BY InitInv, NextInv, PTL DEF Spec

\* Every permit is free or held by a task that has not returned, for any number
\* of permits, queries and restarts (query.rs: the OwnedSemaphorePermit moved
\* into the task of execute_query).
THEOREM PermitsAreConserved == Spec => []PermitsConserved
  <1>1. Inv => PermitsConserved
    BY DEF Inv
  <1> QED
    BY <1>1, InvHolds, PTL

\* A terminal status stands for a whole stored trace that ends as the status
\* says, and a stored run_completed for a query that lost nothing.
THEOREM TraceIsWhole == Spec => []TraceMatchesStatus
  <1>1. Inv => TraceMatchesStatus
    <2> SUFFICES ASSUME Inv, NEW q \in Queries
                 PROVE  /\ status[q] \in {"Completed", "Failed"} =>
                               /\ gate[q] = "Finished"
                               /\ history[q] # <<>> /\ persisted[q] = Len(history[q])
                               /\ LastEvent(q) \in Terminal
                               /\ status[q] = "Failed" => LastEvent(q) = "RunFailed"
                        /\ (persisted[q] > 0 /\ history[q][persisted[q]] = "RunCompleted") =>
                               ~lost[q] /\ persisted[q] = Len(history[q]) /\ outcome[q] # "Failed"
      BY DEF TraceMatchesStatus
    <2>1. QueryInv(q) /\ history[q] \in Seq({"Step"} \cup Terminal) /\ persisted[q] \in Nat
      BY DEF Inv, Types
    <2>2. persisted[q] > 0 => persisted[q] \in DOMAIN history[q]
      BY <2>1 DEF QueryInv, TraceHolds
    <2> QED
      BY <2>1, <2>2 DEF QueryInv, RunHolds, TraceHolds
  <1> QED
    BY <1>1, InvHolds, PTL

\* A run is left Running for one of three causes, and a refused POST leaves none.
THEOREM RunsEndOrFail == Spec => []RunningForACause
  <1>1. Inv => RunningForACause
    BY DEF Inv, RunningForACause, QueryInv, RunHolds, OutcomeHolds
  <1> QED
    BY <1>1, InvHolds, PTL

\* What the result endpoint says of a query only moves on, across evictions and
\* restarts, and never back to "no such run" after the POST was accepted.
THEOREM AnswersOnlyMoveOn == Spec => AnswersMoveOn
  <1> DEFINE Moves(q) == /\ answer'[q] \in Later(answer[q])
                         /\ (answer'[q] = 404 /\ post[q] = "202") => answer[q] = 404
  <1>1. Inv /\ Inv' /\ [Next]_vars => [\A q \in Queries : Moves(q)]_vars
    <2> SUFFICES ASSUME Inv, Inv', Next, NEW q \in Queries PROVE Moves(q)
      OBVIOUS
    <2>1. /\ answer[q] \in {0, 200, 202, 404, 409, 410} /\ answer'[q] \in {0, 200, 202, 404, 409, 410}
          /\ AnswerHolds(q) /\ AnswerHolds(q)' /\ QueryInv(q)
      BY DEF Inv, Types
    <2>2. CASE answer'[q] = answer[q]
      BY <2>1, <2>2 DEF Later
    <2>3. CASE answer'[q] # answer[q]
      <3>1. UNCHANGED <<status, results, post>>
            /\ ((\E p \in Polled : ReadStatus(p)) \/ ReadRegistry)
        <4>1. ASSUME NEW w \in Queries,
                     start_query(w) \/ Refuse(w) \/ Disconnect(w) \/ Task(w) \/ Writer(w)
              PROVE  answer' = answer
          <5>1. CASE start_query(w) \/ Refuse(w) \/ Disconnect(w)
            BY <5>1 DEF start_query, Refuse, Disconnect, request
          <5>2. CASE CreateInStore(w) \/ CreateFails(w) \/ Register(w) \/ Panic(w) \/ EmitTerminal(w)
            BY <5>2 DEF CreateInStore, CreateFails, Register, Panic, EmitTerminal, request
          <5>3. CASE Search(w)
            BY <5>3 DEF Search, Emit, SidecarFailure, SearchEnds, request
          <5>4. CASE Finish(w) \/ FinishFails(w) \/ FinishStrands(w) \/ Convert(w) \/ Publish(w)
            BY <5>4 DEF Finish, FinishFails, FinishStrands, Convert, Publish, request
          <5>5. CASE Complete(w) \/ CompleteFails(w) \/ Remove(w) \/ Shutdown(w)
            BY <5>5 DEF Complete, CompleteFails, Remove, Shutdown, request
          <5>6. CASE Writer(w)
            BY <5>6 DEF Writer, Persist, PersistFails, request
          <5> QED
            BY <4>1, <5>1, <5>2, <5>3, <5>4, <5>5, <5>6 DEF Task
        <4>2. Restart => answer' = answer
          BY DEF Restart
        <4>3. ReadRegistry => UNCHANGED <<status, results, post>>
          BY DEF ReadRegistry, execution, registry
        <4>4. \A p \in Polled : ReadStatus(p) => UNCHANGED <<status, results, post>>
          BY DEF ReadStatus, execution, registry
        <4> QED
          BY <2>3, <4>1, <4>2, <4>3, <4>4 DEF Next
      <3>2. /\ answer \in [Queries -> {0, 200, 202, 404, 409, 410}] /\ Polled \subseteq Queries
            /\ status[q] \in {"NoRun", "Running", "Completed", "Failed"}
            /\ reading \in Queries \cup {Nobody} /\ results \subseteq Queries
        BY StudioAssumption DEF Inv, Types
      <3>3. ASSUME NEW p \in Polled, ReadStatus(p)
            PROVE  /\ answer'[q] # 0
                   /\ answer'[q] = 404 => status[q] = "NoRun"
                   /\ answer'[q] = 202 => status[q] = "Running"
                   /\ answer'[q] # 200
        <4>1. /\ ~MayHaveResult(p)
              /\ answer' = [answer EXCEPT ![p] = CASE status[p] = "NoRun" -> 404
                                                  [] status[p] = "Running" -> 202
                                                  [] status[p] = "Failed" -> 409]
          BY <2>3, <3>3 DEF ReadStatus
        <4>2. p = q
          BY <2>3, <3>2, <4>1
        <4> DEFINE code == CASE status[q] = "NoRun" -> 404
                             [] status[q] = "Running" -> 202
                             [] status[q] = "Failed" -> 409
        <4>3. answer'[q] = code
          <5>1. answer' = [answer EXCEPT ![q] = code]
            BY <4>1, <4>2
          <5> HIDE DEF code
          <5> QED
            BY <3>2, <5>1
        <4>4. status[q] # "Completed"
          BY <4>1, <4>2 DEF MayHaveResult
        <4>5. \/ status[q] = "NoRun" /\ code = 404
              \/ status[q] = "Running" /\ code = 202
              \/ status[q] = "Failed" /\ code = 409
          BY <3>2, <4>4
        <4> HIDE DEF code
        <4> QED
          BY <4>3, <4>5
      <3>4. ASSUME ReadRegistry
            PROVE  /\ answer'[q] # 0 /\ answer'[q] # 404 /\ answer'[q] # 202
                   /\ answer'[q] = 200 => q \in results
        <4>1. /\ reading \in Queries
              /\ answer' = [answer EXCEPT ![reading] = IF reading \in results THEN 200 ELSE 410]
          BY <3>2, <3>4 DEF ReadRegistry
        <4>2. reading = q
          BY <2>3, <3>2, <4>1
        <4> QED
          BY <3>2, <4>1, <4>2
      <3> QED
        BY <2>1, <2>3, <3>1, <3>3, <3>4 DEF Later, AnswerHolds, QueryInv, RunHolds
    <2> QED
      BY <2>2, <2>3
  <1> QED
    BY <1>1, InvHolds, PTL DEF Spec, AnswersMoveOn
-----------------------------------------------------------------------------
\* The registry.  Its line holds the queries that have a result, each once, in
\* the order they were published in, and no more than the capacity.
LineHolds ==
    /\ order \in Seq(Queries) /\ published \in Seq(Queries)
    /\ \A i, j \in 1..Len(order) : order[i] = order[j] => i = j
    /\ Front(order, Len(order)) = results
    /\ Cardinality(results) <= Capacity
    /\ \A i, j \in 1..Len(order) : i < j => order[j] \in PublishedAfter(order[i])

\* A query is published at most once, on its way from a good outcome to its
\* completion; it keeps its result or has as many younger ones behind it as the
\* registry holds, until a failed completion takes it back.
IsPublished(q) == \E i \in DOMAIN published : published[i] = q
Kept(q) == IsPublished(q) /\ (q \in results \/ Cardinality(PublishedAfter(q)) >= Capacity)
ResultHolds(q) ==
    /\ pc[q] = "Remove" => status[q] = "Running"
    /\ q \in results => IsPublished(q) /\ (status[q] = "Completed" \/ pc[q] \in {"Complete", "Remove"})
    /\ IsPublished(q) => pc[q] \in {"Complete", "Remove", "Shutdown", "Done"}
    /\ pc[q] = "Complete" /\ IsPublished(q) => outcome[q] = "Ok"
    /\ pc[q] = "Complete" /\ outcome[q] = "Ok" => Kept(q)
    /\ status[q] = "Completed" /\ born[q] = process => Kept(q)
RegistryHolds ==
    /\ permits >= 0 /\ process \in 0..MaxRestarts /\ born \in [Queries -> 0..process]
    /\ LineHolds
    /\ \A q \in Queries : ResultHolds(q)

\* A line of different queries is as long as there are queries in it.
LEMMA LineLength ==
  ASSUME NEW S, NEW s \in Seq(S), \A i, j \in 1..Len(s) : s[i] = s[j] => i = j
  PROVE  IsFiniteSet(Front(s, Len(s))) /\ Cardinality(Front(s, Len(s))) = Len(s)
  <1> DEFINE n == Len(s)
             I == 1..n
             F == Front(s, n)
  <1>1. n \in Nat /\ IsFiniteSet(I) /\ Cardinality(I) = n
    BY FS_Interval
  <1>2. s \in [I -> F] /\ \A x \in F : \E i \in I : s[i] = x
    BY DEF Front
  <1>3. \A i, j \in I : s[i] = s[j] => i = j
    OBVIOUS
  <1> HIDE DEF n, I, F
  <1>4. s \in Surjection(I, F)
    BY <1>2 DEF Surjection
  <1>5. IsFiniteSet(F) /\ Cardinality(F) <= Cardinality(I)
    BY <1>1, <1>4, FS_Surjection
  <1>6. ~(Cardinality(F) < Cardinality(I))
    <2> SUFFICES ASSUME Cardinality(F) < Cardinality(I) PROVE FALSE
      OBVIOUS
    <2>1. \E i, j \in I : i # j /\ s[i] = s[j]
      BY <1>1, <1>2, <1>5, FS_PigeonHole
    <2> QED
      BY <1>3, <2>1
  <1>7. Cardinality(F) \in Nat
    BY <1>5, FS_CardinalityType
  <1> QED
    BY <1>1, <1>5, <1>6, <1>7 DEF n, F

\* Who is not in the line does not leave it.
LEMMA LineUnchanged ==
  ASSUME LineHolds, NEW q, q \notin results
  PROVE  LineWithout(q) = order
  <1> DEFINE n == Len(order)
             stay == {i \in DOMAIN order : order[i] # q}
  <1>1. n \in Nat /\ DOMAIN order = 1..n /\ order = [i \in 1..n |-> order[i]]
    BY DEF LineHolds
  <1>2. stay = 1..n
    BY <1>1 DEF LineHolds, Front
  <1>3. LineWithout(q) = [k \in 1..Cardinality(stay) |->
            order[CHOOSE i \in stay : Cardinality({j \in stay : j <= i}) = k]]
    BY DEF LineWithout
  <1> HIDE DEF n, stay
  <1>4. Cardinality(stay) = n
    BY <1>1, <1>2, FS_Interval
  <1>5. ASSUME NEW i \in 1..n PROVE Cardinality({j \in stay : j <= i}) = i
    <2>1. {j \in stay : j <= i} = 1..i
      BY <1>1, <1>2
    <2>2. Cardinality(1..i) = i
      <3>1. i \in Int /\ ~(1 > i) /\ i - 1 + 1 = i
        BY <1>1
      <3> QED
        BY <3>1, FS_Interval
    <2> QED
      BY <2>1, <2>2
  <1>6. ASSUME NEW k \in 1..n
        PROVE  (CHOOSE i \in stay : Cardinality({j \in stay : j <= i}) = k) = k
    BY <1>2, <1>5
  <1> QED
    BY <1>1, <1>3, <1>4, <1>6

\* Who is at place m leaves it to those behind.
LEMMA LineMovesUp ==
  ASSUME LineHolds, NEW m \in 1..Len(order)
  PROVE  LineWithout(order[m]) =
             [k \in 1..(Len(order) - 1) |-> order[IF k < m THEN k ELSE k + 1]]
  <1> DEFINE n == Len(order)
             stay == {i \in DOMAIN order : order[i] # order[m]}
  <1>1. n \in Nat /\ m \in 1..n /\ DOMAIN order = 1..n
        /\ \A i, j \in 1..n : order[i] = order[j] => i = j
    BY DEF LineHolds
  <1>2. stay = (1..n) \ {m}
    BY <1>1
  <1>3. LineWithout(order[m]) = [k \in 1..Cardinality(stay) |->
            order[CHOOSE i \in stay : Cardinality({j \in stay : j <= i}) = k]]
    BY DEF LineWithout
  <1> HIDE DEF n, stay
  <1>4. Cardinality(stay) = n - 1
    <2>1. IsFiniteSet(1..n) /\ Cardinality(1..n) = n
      BY <1>1, FS_Interval
    <2> QED
      BY <1>1, <1>2, <2>1, FS_RemoveElement
  <1>5. ASSUME NEW i \in stay
        PROVE  Cardinality({j \in stay : j <= i}) = IF i < m THEN i ELSE i - 1
    <2>1. i \in 1..n /\ i # m
      BY <1>2
    <2>2. IsFiniteSet(1..i) /\ Cardinality(1..i) = i
      BY <1>1, <2>1, FS_Interval
    <2>3. CASE i < m
      <3>1. {j \in stay : j <= i} = 1..i
        BY <1>1, <1>2, <2>1, <2>3
      <3> QED
        BY <2>2, <2>3, <3>1
    <2>4. CASE m < i
      <3>1. {j \in stay : j <= i} = (1..i) \ {m} /\ m \in 1..i
        BY <1>1, <1>2, <2>1, <2>4
      <3>2. Cardinality((1..i) \ {m}) = i - 1
        BY <2>2, <3>1, FS_RemoveElement
      <3>3. Cardinality({j \in stay : j <= i}) = i - 1
        BY <3>1, <3>2
      <3>4. ~(i < m)
        BY <1>1, <2>1, <2>4
      <3> QED
        BY <3>3, <3>4
    <2> QED
      BY <1>1, <2>1, <2>3, <2>4
  <1>6. ASSUME NEW k \in 1..(n - 1)
        PROVE  (CHOOSE i \in stay : Cardinality({j \in stay : j <= i}) = k)
                   = IF k < m THEN k ELSE k + 1
    <2> DEFINE at == IF k < m THEN k ELSE k + 1
               rank(i) == IF i < m THEN i ELSE i - 1
    <2>1. at \in stay /\ rank(at) = k /\ \A i \in stay : rank(i) = k => i = at
      BY <1>1, <1>2
    <2>2. \A i \in stay : Cardinality({j \in stay : j <= i}) = rank(i)
      BY <1>5
    <2> HIDE DEF at, rank
    <2>3. at \in stay /\ \A i \in stay : Cardinality({j \in stay : j <= i}) = k <=> i = at
      BY <2>1, <2>2
    <2>4. (CHOOSE i \in stay : Cardinality({j \in stay : j <= i}) = k) = at
      BY <2>3
    <2> QED
      BY <2>4 DEF at
  <1> DEFINE choice(k) == CHOOSE i \in stay : Cardinality({j \in stay : j <= i}) = k
             place(k) == IF k < m THEN k ELSE k + 1
  <1>7. \A k \in 1..(n - 1) : choice(k) = place(k)
    BY <1>6
  <1>8. LineWithout(order[m]) = [k \in 1..(n - 1) |-> order[choice(k)]]
    BY <1>3, <1>4
  <1> HIDE DEF choice, place
  <1>9. LineWithout(order[m]) = [k \in 1..(n - 1) |-> order[place(k)]]
    BY <1>7, <1>8
  <1> QED
    BY <1>9 DEF n, place

\* A failed completion takes the query out of the line.
LEMMA RemoveLine ==
  ASSUME Types, LineHolds, NEW q \in Queries, Remove(q)
  PROVE  LineHolds'
  <1>1. results' = results \ {q} /\ order' = LineWithout(q) /\ UNCHANGED published
    BY DEF Remove
  <1>2. CASE q \notin results
    <2>1. UNCHANGED <<order, results, published>>
      BY <1>1, <1>2, LineUnchanged
    <2> QED
      BY <2>1 DEF LineHolds, Front, PublishedAfter
  <1>3. CASE q \in results
    <2> DEFINE n == Len(order)
    <2>1. PICK m \in 1..n : order[m] = q
      BY <1>3 DEF LineHolds, Front
    <2> DEFINE pos(k) == IF k < m THEN k ELSE k + 1
    <2>2. n \in Nat /\ m \in 1..n /\ order' = [k \in 1..(n - 1) |-> order[pos(k)]]
      <3>1. LineWithout(order[m]) = [k \in 1..(n - 1) |-> order[pos(k)]]
        BY LineMovesUp
      <3> QED
        BY <1>1, <2>1, <3>1 DEF LineHolds
    <2>3. /\ \A i \in 1..n : order[i] \in Queries
          /\ \A i, j \in 1..n : order[i] = order[j] => i = j
          /\ \A i, j \in 1..n : i < j => order[j] \in PublishedAfter(order[i])
          /\ results = {order[i] : i \in 1..n}
      BY DEF LineHolds, Front
    <2> HIDE DEF n
    <2>4. /\ \A k \in 1..(n - 1) : pos(k) \in 1..n /\ pos(k) # m
          /\ \A k, l \in 1..(n - 1) : (pos(k) = pos(l) => k = l) /\ (k < l => pos(k) < pos(l))
          /\ \A i \in 1..n : i # m => \E k \in 1..(n - 1) : pos(k) = i
      <3>1. ASSUME NEW i \in 1..n, i # m PROVE \E k \in 1..(n - 1) : pos(k) = i
        <4>1. CASE i < m
          <5>1. i \in 1..(n - 1) /\ pos(i) = i
            BY <2>2, <4>1
          <5> QED
            BY <5>1
        <4>2. CASE i > m
          <5>1. i - 1 \in 1..(n - 1) /\ pos(i - 1) = i
            BY <2>2, <4>2
          <5> QED
            BY <5>1
        <4> QED
          BY <2>2, <3>1, <4>1, <4>2
      <3> QED
        BY <2>2, <3>1
    <2> HIDE DEF pos
    <2>5. /\ order' \in [1..(n - 1) -> Queries] /\ n - 1 \in Nat
          /\ \A k \in 1..(n - 1) : order'[k] = order[pos(k)]
      BY <2>2, <2>3, <2>4
    <2>6. order' \in Seq(Queries) /\ Len(order') = n - 1
      BY <2>5
    <2>7. \A i, j \in 1..(n - 1) : order'[i] = order'[j] => i = j
      BY <2>3, <2>4, <2>5
    <2>8. {order'[k] : k \in 1..(n - 1)} = results \ {q}
      <3>1. \A k \in 1..(n - 1) : order'[k] \in results \ {q}
        BY <2>1, <2>2, <2>3, <2>4, <2>5
      <3>2. ASSUME NEW x \in results \ {q} PROVE \E k \in 1..(n - 1) : order'[k] = x
        <4>1. PICK i \in 1..n : order[i] = x /\ i # m
          BY <2>1, <2>3, <3>2
        <4> QED
          BY <2>4, <2>5, <4>1
      <3> QED
        BY <3>1, <3>2
    <2>9. ASSUME NEW i \in 1..(n - 1), NEW j \in 1..(n - 1), i < j
          PROVE  order'[j] \in PublishedAfter(order[i])'
      <3>1. order[pos(j)] \in PublishedAfter(order[pos(i)])
        BY <2>3, <2>4, <2>9
      <3>2. order'[j] = order[pos(j)] /\ order'[i] = order[pos(i)]
        BY <2>5
      <3> QED
        BY <1>1, <3>1, <3>2 DEF PublishedAfter
    <2>10. Cardinality(results') <= Capacity
      <3>1. IsFiniteSet(results) /\ results' \in SUBSET results
        BY <1>1, StudioAssumption, FS_Subset DEF Types, StudioAssumption
      <3>2. Cardinality(results') <= Cardinality(results) /\ Cardinality(results') \in Nat
            /\ Cardinality(results) \in Nat
        BY <3>1, FS_Subset, FS_CardinalityType
      <3> QED
        BY <3>2, StudioAssumption DEF LineHolds, StudioAssumption
    <2> QED
      BY <1>1, <2>6, <2>7, <2>8, <2>9, <2>10 DEF LineHolds, Front
  <1> QED
    BY <1>2, <1>3

\* One result more than the capacity evicts one query, the first in the line.
LEMMA EvictedIs ==
  ASSUME NEW line, NEW kept, Len(line) \in Nat, IsFiniteSet(kept),
         Cardinality(kept) <= Capacity + 1, line[1] \in kept, Len(line) = Cardinality(kept)
  PROVE  Evicted(line, kept) = IF Cardinality(kept) <= Capacity THEN 0 ELSE 1
  <1>1. /\ Cardinality(kept) \in Nat /\ Capacity \in Nat \ {0}
        /\ Cardinality(kept \ {line[1]}) = Cardinality(kept) - 1
    BY FS_CardinalityType, FS_RemoveElement, StudioAssumption DEF StudioAssumption
  <1> DEFINE left(n) == Cardinality(kept \ Front(line, n))
             Enough(n) == /\ n = Len(line) \/ left(n) <= Capacity
                          /\ \A m \in 0..(n - 1) : left(m) > Capacity
             size == Cardinality(kept)
             n == IF size <= Capacity THEN 0 ELSE 1
  <1>2. left(0) = size /\ left(1) = size - 1
    <2>1. kept \ Front(line, 0) = kept /\ kept \ Front(line, 1) = kept \ {line[1]}
      BY DEF Front
    <2> QED
      BY <1>1, <2>1
  <1>3. /\ Evicted(line, kept) = CHOOSE m \in 0..Len(line) : Enough(m)
        /\ size \in Nat \ {0} /\ size <= Capacity + 1 /\ Len(line) = size
        /\ Capacity \in Nat \ {0}
    <2>1. size # 0
      BY FS_EmptySet
    <2> QED
      BY <1>1, <2>1 DEF Evicted
  <1> HIDE DEF left, size
  <1>4. n \in 0..Len(line) /\ Enough(n)
    BY <1>2, <1>3
  <1>5. ASSUME NEW m \in 0..Len(line), Enough(m) PROVE m = n
    <2>1. m > 0 => size > Capacity
      <3>1. m > 0 => 0 \in 0..(m - 1)
        OBVIOUS
      <3> QED
        BY <1>2, <1>5, <3>1
    <2>2. ~(m > 1)
      <3>1. m > 1 => 1 \in 0..(m - 1)
        OBVIOUS
      <3> QED
        BY <1>2, <1>3, <1>5, <3>1
    <2>3. m = 0 => size <= Capacity
      BY <1>2, <1>3, <1>5
    <2> QED
      BY <1>3, <2>1, <2>2, <2>3
  <1> HIDE DEF Enough, n
  <1>6. Evicted(line, kept) = n
    BY <1>3, <1>4, <1>5
  <1> QED
    BY <1>6 DEF n, size

\* What an insertion does to the line, and for those it evicts.
LEMMA PublishLine ==
  ASSUME Types, LineHolds, NEW q \in Queries, Publish(q), q \notin results,
         \A p \in results : IsPublished(p)
  PROVE  /\ LineHolds' /\ q \in results' /\ results' \subseteq results \cup {q}
         /\ \A p \in results \ results' : Cardinality(PublishedAfter(p)') >= Capacity
         /\ \A p : PublishedAfter(p) \subseteq PublishedAfter(p)'
         /\ \A p : IsPublished(p)' <=> IsPublished(p) \/ p = q
         /\ \A p : IsFiniteSet(PublishedAfter(p)')
  <1> DEFINE n == Len(order)
             line == LineWith(q)
             kept == results \cup {q}
             k == Evicted(line, kept)
             After(p) == {published'[j] : j \in {m \in DOMAIN published' :
                                               \E i \in 1..(m - 1) : published'[i] = p}}
  <1>0. \A p : PublishedAfter(p)' = After(p)
    BY DEF PublishedAfter
  <1>1. /\ published' = Append(published, q) /\ published \in Seq(Queries)
        /\ results' = kept \ Front(line, k) /\ order' = SubSeq(line, k + 1, Len(line))
    BY DEF Publish, LineHolds
  <1>2. /\ Len(published) \in Nat /\ published' \in Seq(Queries)
        /\ DOMAIN published = 1..Len(published) /\ DOMAIN published' = 1..(Len(published) + 1)
        /\ \A i \in 1..Len(published) : published'[i] = published[i]
        /\ published'[Len(published) + 1] = q
    BY <1>1
  <1>3. \A p : IsPublished(p)' <=> IsPublished(p) \/ p = q
    BY <1>2 DEF IsPublished
  <1>4. \A p : PublishedAfter(p) \subseteq After(p)
    BY <1>2 DEF PublishedAfter
  <1>5. \A p : IsPublished(p) => q \in After(p)
    <2> SUFFICES ASSUME NEW p, NEW i \in 1..Len(published), published[i] = p
                 PROVE  q \in After(p)
      BY <1>2 DEF IsPublished
    <2>1. /\ Len(published) + 1 \in DOMAIN published'
          /\ i \in 1..((Len(published) + 1) - 1) /\ published'[i] = p
      BY <1>2
    <2> QED
      BY <1>2, <2>1 DEF PublishedAfter
  <1>6. \A p : IsFiniteSet(After(p))
    <2> SUFFICES ASSUME NEW p PROVE IsFiniteSet(After(p))
      OBVIOUS
    <2>1. After(p) \in SUBSET Queries
      BY <1>2 DEF PublishedAfter
    <2> QED
      BY <2>1, FS_Subset, StudioAssumption DEF StudioAssumption
  <1>7. /\ n \in Nat /\ line \in Seq(Queries) /\ Len(line) = n + 1 /\ line[n + 1] = q
        /\ \A i \in 1..n : line[i] = order[i] /\ line[i] \in results
    <2>1. line = Append(order, q) /\ order \in Seq(Queries)
      BY LineUnchanged DEF LineWith, LineHolds
    <2>2. \A i \in 1..n : order[i] \in results
      BY DEF LineHolds, Front
    <2> HIDE DEF line
    <2> QED
      BY <2>1, <2>2
  <1>8. Front(line, n + 1) = kept
    <2>1. results = {order[i] : i \in 1..n}
      BY DEF LineHolds, Front
    <2>2. \A i \in 1..(n + 1) : i \in 1..n \/ i = n + 1
      BY <1>7
    <2>3. 1..n \subseteq 1..(n + 1) /\ n + 1 \in 1..(n + 1)
      BY <1>7
    <2> HIDE DEF line, n
    <2> QED
      BY <1>7, <2>1, <2>2, <2>3 DEF Front
  <1>9. \A i, j \in 1..(n + 1) : line[i] = line[j] => i = j
    <2>1. \A i \in 1..(n + 1) : i \in 1..n \/ i = n + 1
      BY <1>7
    <2>2. \A i, j \in 1..n : order[i] = order[j] => i = j
      BY DEF LineHolds
    <2> HIDE DEF line, n
    <2> QED
      BY <1>7, <2>1, <2>2
  <1>10. ASSUME NEW i \in 1..(n + 1), NEW j \in 1..(n + 1), i < j
         PROVE  line[j] \in After(line[i])
    <2>1. i \in 1..n /\ line[i] = order[i] /\ order[i] \in results
      BY <1>7, <1>10
    <2>2. CASE j = n + 1
      <3>1. line[j] = q /\ IsPublished(order[i])
        BY <1>7, <2>1, <2>2
      <3> HIDE DEF line
      <3> QED
        BY <1>5, <2>1, <3>1
    <2>3. CASE j # n + 1
      <3>1. j \in 1..n /\ line[j] = order[j]
        BY <1>7, <2>3
      <3>2. order[j] \in PublishedAfter(order[i])
        BY <1>10, <2>1, <3>1 DEF LineHolds
      <3> HIDE DEF line
      <3> QED
        BY <1>4, <2>1, <3>1, <3>2
    <2> QED
      BY <2>2, <2>3
  <1>11. IsFiniteSet(kept) /\ Cardinality(kept) = n + 1 /\ Cardinality(results) = n
    <2> HIDE DEF line, kept
    <2>1. IsFiniteSet(Front(line, n + 1)) /\ Cardinality(Front(line, n + 1)) = n + 1
      BY <1>7, <1>9, LineLength
    <2>2. Cardinality(results) = n
      BY LineLength DEF LineHolds
    <2> QED
      BY <1>8, <2>1, <2>2
  <1>12. n <= Capacity /\ Capacity \in Nat \ {0}
    BY <1>11, StudioAssumption DEF LineHolds, StudioAssumption
  <1> HIDE DEF line, kept, After
  <1>13. k = IF n + 1 <= Capacity THEN 0 ELSE 1
    <2>1. line[1] \in kept
      <3>1. 1 \in 1..(n + 1)
        BY <1>7
      <3> QED
        BY <1>8, <3>1 DEF Front
    <2>2. Len(line) \in Nat /\ Cardinality(kept) <= Capacity + 1 /\ Len(line) = Cardinality(kept)
      BY <1>7, <1>11, <1>12
    <2> QED
      BY <1>11, <2>1, <2>2, EvictedIs
  <1> HIDE DEF k
  <1>14. CASE n + 1 <= Capacity
    <2>1. results' = kept /\ order' = line
      <3>1. k = 0 /\ Front(line, k) = {}
        BY <1>13, <1>14 DEF Front
      <3>2. SubSeq(line, 0 + 1, Len(line)) = line
        BY <1>7
      <3> QED
        BY <1>1, <3>1, <3>2
    <2>2. LineHolds'
      BY <1>0, <1>2, <1>7, <1>8, <1>9, <1>10, <1>11, <1>14, <2>1 DEF LineHolds
    <2> QED
      BY <1>0, <1>3, <1>4, <1>6, <2>1, <2>2 DEF kept
  <1>15. CASE n = Capacity
    <2> DEFINE rest == [i \in 1..n |-> line[i + 1]]
    <2>1. results' = kept \ {line[1]} /\ order' = rest
      <3>1. k = 1 /\ Front(line, k) = {line[1]}
        BY <1>12, <1>13, <1>15 DEF Front
      <3>2. SubSeq(line, 1 + 1, Len(line)) = rest
        BY <1>7
      <3> QED
        BY <1>1, <3>1, <3>2
    <2>2. /\ n \in Nat \ {0} /\ 1 \in 1..(n + 1)
          /\ \A i \in 1..n : i + 1 \in 1..(n + 1) /\ i + 1 # 1
          /\ \A i \in 1..(n + 1) : i # 1 => i - 1 \in 1..n /\ (i - 1) + 1 = i
      BY <1>7, <1>12, <1>15
    <2>3. rest \in [1..n -> Queries] /\ \A i \in 1..n : rest[i] = line[i + 1]
      BY <1>7, <2>2
    <2> HIDE DEF rest
    <2>4. rest \in Seq(Queries) /\ Len(rest) = n
      BY <2>2, <2>3
    <2>5. \A i, j \in 1..n : rest[i] = rest[j] => i = j
      <3>1. \A i, j \in 1..n : i + 1 = j + 1 => i = j
        OBVIOUS
      <3> QED
        BY <1>9, <2>2, <2>3, <3>1
    <2>6. Front(rest, n) = kept \ {line[1]}
      <3>1. \A i \in 1..n : rest[i] \in kept \ {line[1]}
        BY <1>8, <1>9, <2>2, <2>3 DEF Front
      <3>2. ASSUME NEW x \in kept \ {line[1]} PROVE \E i \in 1..n : rest[i] = x
        <4>1. PICK j \in 1..(n + 1) : line[j] = x /\ j # 1
          BY <1>8, <3>2 DEF Front
        <4>2. rest[j - 1] = x
          BY <2>2, <2>3, <4>1
        <4> QED
          BY <2>2, <4>1, <4>2
      <3> QED
        BY <3>1, <3>2 DEF Front
    <2>7. ASSUME NEW i \in 1..n, NEW j \in 1..n, i < j PROVE rest[j] \in After(rest[i])
      <3>1. i + 1 < j + 1
        BY <2>7
      <3>2. line[j + 1] \in After(line[i + 1])
        BY <1>10, <2>2, <3>1
      <3> QED
        BY <2>3, <3>2
    <2>8. Cardinality(results') = Capacity
      BY <1>15, <2>1, <2>4, <2>5, <2>6, LineLength
    <2>9. LineHolds'
      BY <1>0, <1>2, <1>12, <2>1, <2>4, <2>5, <2>6, <2>7, <2>8 DEF LineHolds
    <2>10. q \in results'
      <3>1. q # line[1]
        BY <1>7, <1>9, <2>2
      <3> QED
        BY <2>1, <3>1 DEF kept
    <2>11. Cardinality(After(line[1])) >= Capacity
      <3>1. \A i \in 1..n : rest[i] \in After(line[1])
        <4>1. \A i \in 1..n : 1 < i + 1
          OBVIOUS
        <4> QED
          BY <1>10, <2>2, <2>3, <4>1
      <3>2. results' \in SUBSET After(line[1])
        BY <2>1, <2>6, <3>1 DEF Front
      <3>3. IsFiniteSet(After(line[1]))
        BY <1>6
      <3>4. Cardinality(results') <= Cardinality(After(line[1]))
        BY <3>2, <3>3, FS_Subset
      <3>5. Cardinality(After(line[1])) \in Nat
        BY <3>3, FS_CardinalityType
      <3> QED
        BY <1>12, <2>8, <3>4, <3>5
    <2>12. \A p \in results \ results' : p = line[1]
      BY <2>1 DEF kept
    <2> QED
      BY <1>0, <1>3, <1>4, <1>6, <2>1, <2>9, <2>10, <2>11, <2>12 DEF kept
  <1> QED
    BY <1>7, <1>12, <1>14, <1>15

\* Steps that leave the registry alone.
LEMMA RegistryKept ==
  ASSUME RegistryHolds, UNCHANGED <<results, order, published>>
  PROVE  /\ LineHolds'
         /\ \A p : (IsPublished(p)' <=> IsPublished(p)) /\ (Kept(p)' <=> Kept(p))
  BY DEF RegistryHolds, LineHolds, Front, PublishedAfter, IsPublished, Kept

LEMMA ResultKept ==
  ASSUME NEW p, ResultHolds(p), UNCHANGED process,
         pc'[p] = pc[p], status'[p] = status[p], outcome'[p] = outcome[p], born'[p] = born[p],
         p \in results' => p \in results, IsPublished(p)' <=> IsPublished(p), Kept(p) => Kept(p)'
  PROVE  ResultHolds(p)'
  BY DEF ResultHolds

\* A step of one query's task outside the registry, of its client or its writer:
\* what it changes of the query.
Elsewhere(q) ==
    \A p \in Queries \ {q} :
        /\ pc'[p] = pc[p] /\ status'[p] = status[p] /\ outcome'[p] = outcome[p]
        /\ born'[p] = born[p]
Stays(q) ==
    /\ pc'[q] = pc[q] /\ status'[q] = status[q] /\ outcome'[q] = outcome[q]
    /\ born'[q] = born[q]
Passes(q) ==
    /\ pc[q] \notin {"Publish", "Complete", "Remove"}
    /\ pc'[q] \notin {"Complete", "Remove"}
    /\ IsPublished(q) => pc'[q] \in {"Shutdown", "Done"}
    /\ status'[q] = status[q] \/ (~IsPublished(q) /\ status'[q] = "Running")
    /\ \/ born'[q] = born[q]
       \/ status'[q] # "Completed" /\ born'[q] = process
Concludes(q) ==
    /\ born'[q] = born[q]
    /\ \/ pc[q] = "Convert" /\ outcome'[q] = "Failed" /\ pc'[q] = "Complete"
          /\ status'[q] = status[q]
       \/ pc[q] = "Complete" /\ outcome[q] = "Ok" /\ pc'[q] = "Shutdown"
          /\ outcome'[q] = "Ok" /\ status'[q] = "Completed"
       \/ pc[q] = "Complete" /\ outcome[q] # "Ok" /\ pc'[q] = "Shutdown"
          /\ status'[q] \in {"Running", "Failed"}
       \/ pc[q] = "Complete" /\ outcome[q] = "Ok" /\ pc'[q] = "Remove" /\ status'[q] = "Running"

LEMMA TaskFrame ==
  ASSUME NEW q \in Queries, Inv, RegistryHolds,
         \/ CreateInStore(q) \/ CreateFails(q) \/ Register(q) \/ Search(q) \/ Panic(q)
         \/ EmitTerminal(q) \/ Finish(q) \/ FinishFails(q) \/ FinishStrands(q)
         \/ Convert(q) \/ Complete(q) \/ CompleteFails(q) \/ Shutdown(q)
         \/ start_query(q) \/ Refuse(q) \/ Disconnect(q) \/ Writer(q)
  PROVE  /\ UNCHANGED <<results, order, published, process>> /\ Elsewhere(q)
         /\ permits' >= 0 /\ born' \in [Queries -> 0..process]
  <1> USE DEF execution, trace, registry, request, Go, Answer
  <1>1. /\ DOMAIN pc = Queries /\ DOMAIN status = Queries /\ DOMAIN outcome = Queries
        /\ born \in [Queries -> 0..process] /\ process \in 0..process
        /\ permits \in Int /\ permits >= 0
    BY DEF Inv, Types, RegistryHolds
  <1>2. UNCHANGED <<results, order, published, process>>
    BY DEF CreateInStore, CreateFails, Register, Search, Emit, SidecarFailure, SearchEnds, Panic, Exit,
           EmitTerminal, Finish, FinishFails, FinishStrands, Convert, Complete, CompleteFails,
           Shutdown, start_query, Refuse, Disconnect, Writer, Persist, PersistFails
  <1>3. \/ UNCHANGED <<status, outcome, born>> /\ \E there : pc' = [pc EXCEPT ![q] = there]
        \/ UNCHANGED <<pc, status, outcome, born>>
        \/ UNCHANGED <<outcome, born>> /\ (\E there : pc' = [pc EXCEPT ![q] = there])
            /\ \E there : status' = [status EXCEPT ![q] = there]
        \/ UNCHANGED <<status, born>> /\ (\E there : pc' = [pc EXCEPT ![q] = there])
            /\ \E there : outcome' = [outcome EXCEPT ![q] = there]
        \/ UNCHANGED <<status, outcome>> /\ (\E there : pc' = [pc EXCEPT ![q] = there])
            /\ born' = [born EXCEPT ![q] = process]
    BY DEF CreateInStore, CreateFails, Register, Search, Emit, SidecarFailure, SearchEnds, Panic, Exit,
           EmitTerminal, Finish, FinishFails, FinishStrands, Convert, Complete, CompleteFails,
           Shutdown, start_query, Refuse, Disconnect, Writer, Persist, PersistFails
  <1>4. Elsewhere(q) /\ born' \in [Queries -> 0..process]
    BY <1>1, <1>3 DEF Elsewhere
  <1>5. permits' \in {permits, permits + 1} \/ (permits > 0 /\ permits' = permits - 1)
    BY DEF CreateInStore, CreateFails, Register, Search, Emit, SidecarFailure, SearchEnds, Panic, Exit,
           EmitTerminal, Finish, FinishFails, FinishStrands, Convert, Complete, CompleteFails,
           Shutdown, start_query, Refuse, Disconnect, Writer, Persist, PersistFails
  <1> QED
    BY <1>1, <1>2, <1>4, <1>5

LEMMA TaskMoves ==
  ASSUME NEW q \in Queries, Inv, RegistryHolds,
         \/ CreateInStore(q) \/ CreateFails(q) \/ Register(q) \/ Search(q) \/ Panic(q)
         \/ EmitTerminal(q) \/ Finish(q) \/ FinishFails(q) \/ FinishStrands(q)
         \/ Convert(q) \/ Complete(q) \/ CompleteFails(q) \/ Shutdown(q)
         \/ start_query(q) \/ Refuse(q) \/ Disconnect(q) \/ Writer(q)
  PROVE  Stays(q) \/ Passes(q) \/ Concludes(q)
  <1> USE DEF trace, registry, request, Go, Answer
  <1>1. /\ DOMAIN pc = Queries /\ DOMAIN status = Queries /\ DOMAIN outcome = Queries
        /\ DOMAIN born = Queries
        /\ outcome[q] \in {"Ok", "Failed"} \/ pc[q] # "Complete"
    BY DEF Inv, Types, RegistryHolds, QueryInv, OutcomeHolds
  <1>2. IsPublished(q) => pc[q] \in {"Complete", "Remove", "Shutdown", "Done"}
    BY DEF RegistryHolds, ResultHolds
  <1>3. CASE CreateInStore(q)
    BY <1>1, <1>2, <1>3 DEF CreateInStore, Passes
  <1>4. CASE CreateFails(q)
    BY <1>1, <1>2, <1>4 DEF CreateFails, Passes
  <1>5. CASE Register(q)
    BY <1>1, <1>2, <1>5 DEF Register, Passes
  <1>6. CASE Emit(q) \/ SidecarFailure(q) \/ Disconnect(q) \/ Writer(q)
    BY <1>6 DEF Emit, SidecarFailure, Disconnect, Writer, Persist, PersistFails, execution, Stays
  <1>7. CASE \E result \in {"Ok", "Failed"} : SearchEnds(q, result)
    BY <1>1, <1>2, <1>7 DEF SearchEnds, Passes
  <1>8. CASE Panic(q)
    BY <1>1, <1>2, <1>8 DEF Panic, Exit, Passes
  <1>9. CASE EmitTerminal(q)
    BY <1>1, <1>2, <1>9 DEF EmitTerminal, AfterTerminal, Passes
  <1>10. CASE Finish(q)
    BY <1>1, <1>2, <1>10 DEF Finish, Passes
  <1>11. CASE FinishFails(q) \/ FinishStrands(q)
    BY <1>1, <1>2, <1>11 DEF FinishFails, FinishStrands, Passes
  <1>12. CASE Convert(q)
    <2>1. /\ pc[q] = "Convert" /\ UNCHANGED <<status, born>>
          /\ \/ pc'[q] \in {"Publish", "Shutdown"}
             \/ pc'[q] = "Complete" /\ outcome'[q] = "Failed"
      BY <1>1, <1>12 DEF Convert
    <2> QED
      BY <1>1, <1>2, <2>1 DEF Passes, Concludes
  <1>13. CASE Complete(q)
    BY <1>1, <1>13 DEF Complete, Concludes
  <1>14. CASE CompleteFails(q)
    <2>1. status[q] = "Running"
      BY <1>14 DEF CompleteFails, Inv, QueryInv, RunHolds
    <2> QED
      BY <1>1, <1>14, <2>1 DEF CompleteFails, AfterFailure, Concludes
  <1>15. CASE Shutdown(q)
    BY <1>1, <1>2, <1>15 DEF Shutdown, Exit, Passes
  <1>16. CASE start_query(q)
    <2>1. status[q] = "NoRun"
      BY <1>16 DEF start_query, Inv, QueryInv, RunHolds
    <2> QED
      BY <1>1, <1>2, <1>16, <2>1 DEF start_query, Passes
  <1>17. CASE Refuse(q)
    BY <1>1, <1>2, <1>17 DEF Refuse, Passes
  <1> QED
    BY <1>3, <1>4, <1>5, <1>6, <1>7, <1>8, <1>9, <1>10, <1>11, <1>12, <1>13, <1>14, <1>15,
       <1>16, <1>17 DEF Search

LEMMA TaskResult ==
  ASSUME Inv, RegistryHolds, NEW q \in Queries,
         \/ CreateInStore(q) \/ CreateFails(q) \/ Register(q) \/ Search(q) \/ Panic(q)
         \/ EmitTerminal(q) \/ Finish(q) \/ FinishFails(q) \/ FinishStrands(q)
         \/ Convert(q) \/ Complete(q) \/ CompleteFails(q) \/ Shutdown(q)
         \/ start_query(q) \/ Refuse(q) \/ Disconnect(q) \/ Writer(q)
  PROVE  RegistryHolds'
  <1>1. Types /\ QueryInv(q) /\ ResultHolds(q)
    BY DEF Inv, RegistryHolds
  <1>2. /\ UNCHANGED <<results, order, published, process>> /\ Elsewhere(q)
        /\ permits' >= 0 /\ born' \in [Queries -> 0..process]
        /\ Stays(q) \/ Passes(q) \/ Concludes(q)
    BY TaskFrame, TaskMoves
  <1>3. /\ LineHolds'
        /\ \A p : (IsPublished(p)' <=> IsPublished(p)) /\ (Kept(p)' <=> Kept(p))
    BY <1>2, RegistryKept
  <1>5. \A p \in Queries \ {q} : ResultHolds(p)'
    BY <1>2, <1>3, ResultKept DEF RegistryHolds, Elsewhere
  <1>6. ResultHolds(q)'
    <2>1. (IsPublished(q)' <=> IsPublished(q)) /\ (Kept(q)' <=> Kept(q))
      BY <1>3
    <2>2. CASE Stays(q)
      BY <1>1, <1>2, <2>1, <2>2, ResultKept DEF Stays
    <2>3. CASE Passes(q)
      BY <1>1, <1>2, <2>1, <2>3 DEF Passes, ResultHolds
    <2>4. CASE Concludes(q)
      BY <1>1, <1>2, <2>1, <2>4 DEF Concludes, ResultHolds
    <2> QED
      BY <1>2, <2>2, <2>3, <2>4
  <1> QED
    BY <1>2, <1>3, <1>5, <1>6 DEF RegistryHolds

\* The answer goes in: the query is the youngest, and whoever it evicts has as
\* many younger ones as the registry holds.
LEMMA PublishResult ==
  ASSUME Inv, RegistryHolds, NEW q \in Queries, Publish(q)
  PROVE  RegistryHolds'
  <1>1. /\ pc[q] = "Publish" /\ pc' = [pc EXCEPT ![q] = "Complete"]
        /\ UNCHANGED <<permits, outcome, status, process, born>>
    BY DEF Publish, Go, trace
  <1>2. Types /\ QueryInv(q) /\ LineHolds /\ \A p \in Queries : ResultHolds(p)
    BY DEF Inv, RegistryHolds
  <1>3. ~IsPublished(q) /\ q \notin results
    BY <1>1, <1>2 DEF ResultHolds
  <1>4. \A p \in results : IsPublished(p)
    BY <1>2 DEF ResultHolds, Types
  <1>5. /\ LineHolds' /\ q \in results' /\ results' \subseteq results \cup {q}
        /\ \A p \in results \ results' : Cardinality(PublishedAfter(p)') >= Capacity
        /\ \A p : PublishedAfter(p) \subseteq PublishedAfter(p)'
        /\ \A p : IsPublished(p)' <=> IsPublished(p) \/ p = q
        /\ \A p : IsFiniteSet(PublishedAfter(p)')
    BY <1>2, <1>3, <1>4, PublishLine
  <1>6. ASSUME NEW p, Kept(p) PROVE Kept(p)'
    <2> DEFINE old == Cardinality(PublishedAfter(p))
               new == Cardinality(PublishedAfter(p)')
    <2>1. IsPublished(p)' /\ (p \in results \/ old >= Capacity)
      BY <1>5, <1>6 DEF Kept
    <2>2. PublishedAfter(p) \in SUBSET PublishedAfter(p)'
      BY <1>5
    <2>3. IsFiniteSet(PublishedAfter(p)') /\ IsFiniteSet(PublishedAfter(p)) /\ old <= new
      BY <1>5, <2>2, FS_Subset
    <2>4. old \in Nat /\ new \in Nat /\ Capacity \in Nat
      BY <2>3, FS_CardinalityType, StudioAssumption DEF StudioAssumption
    <2>5. old >= Capacity => new >= Capacity
      BY <2>3, <2>4
    <2>6. p \in results' \/ new >= Capacity
      BY <1>5, <2>1, <2>5
    <2> QED
      BY <2>1, <2>6 DEF Kept
  <1>7. ASSUME NEW p \in Queries \ {q} PROVE ResultHolds(p)'
    <2>1. pc'[p] = pc[p] /\ ResultHolds(p)
      BY <1>1, <1>2 DEF Types
    <2>2. (p \in results' => p \in results) /\ (IsPublished(p)' <=> IsPublished(p))
      BY <1>5
    <2>3. Kept(p) => Kept(p)'
      BY <1>6
    <2> QED
      BY <1>1, <2>1, <2>2, <2>3, ResultKept
  <1>8. ResultHolds(q)'
    <2>1. pc'[q] = "Complete" /\ outcome'[q] = "Ok" /\ status'[q] = "Running"
      BY <1>1, <1>2 DEF Types, QueryInv, OutcomeHolds, RunHolds
    <2>2. IsPublished(q)' /\ Kept(q)'
      BY <1>5 DEF Kept
    <2> QED
      BY <2>1, <2>2 DEF ResultHolds
  <1> QED
    BY <1>1, <1>5, <1>7, <1>8 DEF RegistryHolds

\* The answer of a failed completion comes out; the others' stay.
LEMMA RemoveResult ==
  ASSUME Inv, RegistryHolds, NEW q \in Queries, Remove(q)
  PROVE  RegistryHolds'
  <1>1. /\ pc[q] = "Remove" /\ pc' = [pc EXCEPT ![q] = "Shutdown"] /\ results' = results \ {q}
        /\ UNCHANGED <<permits, outcome, status, process, born, published>>
    BY DEF Remove, Go, trace
  <1>2. Types /\ LineHolds /\ \A p \in Queries : ResultHolds(p)
    BY DEF Inv, RegistryHolds
  <1>3. LineHolds'
    BY <1>2, RemoveLine
  <1>4. \A p : IsPublished(p)' <=> IsPublished(p)
    BY <1>1 DEF IsPublished
  <1>5. ASSUME NEW p \in Queries \ {q} PROVE ResultHolds(p)'
    <2>1. pc'[p] = pc[p] /\ ResultHolds(p) /\ (p \in results' <=> p \in results)
      BY <1>1, <1>2 DEF Types
    <2>2. Kept(p)' <=> Kept(p)
      BY <1>1, <2>1 DEF Kept, IsPublished, PublishedAfter
    <2> QED
      BY <1>1, <1>4, <2>1, <2>2, ResultKept
  <1>6. ResultHolds(q)'
    <2>1. pc'[q] = "Shutdown" /\ status'[q] = "Running" /\ q \notin results'
      BY <1>1, <1>2 DEF Types, ResultHolds
    <2> QED
      BY <2>1 DEF ResultHolds
  <1> QED
    BY <1>1, <1>3, <1>5, <1>6 DEF RegistryHolds

\* A result request changes neither the registry nor a query.
LEMMA RequestResult ==
  ASSUME RegistryHolds, (\E q \in Polled : ReadStatus(q)) \/ ReadRegistry \/ UNCHANGED vars
  PROVE  RegistryHolds'
  <1>1. UNCHANGED <<permits, pc, outcome, status, process, born, results, order, published>>
    BY DEF ReadStatus, ReadRegistry, vars, execution, registry
  <1>2. /\ LineHolds'
        /\ \A p : (IsPublished(p)' <=> IsPublished(p)) /\ (Kept(p)' <=> Kept(p))
    BY <1>1, RegistryKept
  <1>3. \A p \in Queries : ResultHolds(p)'
    BY <1>1, <1>2, ResultKept DEF RegistryHolds
  <1> QED
    BY <1>1, <1>2, <1>3 DEF RegistryHolds

\* A new process starts with an empty registry, and owes nothing for the
\* queries of those before it.
LEMMA EmptyLine ==
  ASSUME order = <<>>, published = <<>>, results = {}
  PROVE  LineHolds /\ \A q : ~IsPublished(q)
  <1>1. Cardinality(results) <= Capacity
    BY FS_EmptySet, StudioAssumption DEF StudioAssumption
  <1> QED
    BY <1>1 DEF LineHolds, IsPublished, Front

LEMMA RestartRegistry ==
  ASSUME Inv, RegistryHolds, Restart
  PROVE  RegistryHolds'
  <1>1. /\ process \in 0..MaxRestarts /\ process < MaxRestarts /\ process' = process + 1
        /\ permits' = MaxConcurrent /\ UNCHANGED <<status, born>>
        /\ born \in [Queries -> 0..process] /\ MaxConcurrent \in Nat /\ MaxRestarts \in Nat
    BY StudioAssumption DEF Restart, RegistryHolds, StudioAssumption
  <1>2. process' \in 0..MaxRestarts /\ permits' >= 0
    BY <1>1
  <1>3. born' \in [Queries -> 0..process'] /\ \A q \in Queries : born'[q] # process'
    BY <1>1
  <1>4. LineHolds' /\ (\A q : ~IsPublished(q)') /\ results' = {}
    <2>1. results' = {} /\ order' = <<>> /\ published' = <<>>
      BY DEF Restart
    <2>2. Cardinality({}) <= Capacity
      BY FS_EmptySet, StudioAssumption DEF StudioAssumption
    <2> QED
      BY <2>1, <2>2 DEF LineHolds, IsPublished, Front
  <1>5. \A q \in Queries : pc'[q] \in {"None", "Refused", "Done", "Dead"}
    BY DEF Restart, Idle, Ended
  <1>6. \A q \in Queries : ResultHolds(q)'
    BY <1>3, <1>4, <1>5 DEF ResultHolds
  <1> QED
    BY <1>2, <1>3, <1>4, <1>6 DEF RegistryHolds

LEMMA InitRegistry == Init => RegistryHolds
  <1> SUFFICES ASSUME Init PROVE RegistryHolds
    OBVIOUS
  <1>1. permits >= 0 /\ process \in 0..MaxRestarts /\ born \in [Queries -> 0..process]
    BY StudioAssumption DEF Init, StudioAssumption
  <1>2. LineHolds /\ \A q : ~IsPublished(q)
    BY EmptyLine DEF Init
  <1>3. \A q \in Queries : ResultHolds(q)
    BY <1>2 DEF Init, ResultHolds
  <1> QED
    BY <1>1, <1>2, <1>3 DEF RegistryHolds

LEMMA NextRegistry == Inv /\ RegistryHolds /\ [Next]_vars => RegistryHolds'
  <1> SUFFICES ASSUME Inv, RegistryHolds, [Next]_vars PROVE RegistryHolds'
    OBVIOUS
  <1>1. ASSUME NEW q \in Queries, Task(q) PROVE RegistryHolds'
    BY <1>1, TaskResult, PublishResult, RemoveResult DEF Task
  <1>2. ASSUME NEW q \in Queries, start_query(q) \/ Refuse(q) \/ Disconnect(q) \/ Writer(q)
        PROVE  RegistryHolds'
    BY <1>2, TaskResult
  <1> QED
    BY <1>1, <1>2, RequestResult, RestartRegistry DEF Next

LEMMA RegistryAlways == Spec => [](Inv /\ RegistryHolds)
  BY InvHolds, InitRegistry, NextRegistry, PTL DEF Spec

\* While its process lives, a Completed query has its answer or lost it to as
\* many younger ones as the registry holds, no answer is kept for a query that
\* did not complete, and the two halves of the registry stay in step within the
\* capacity (query_result.rs: insert, its eviction loop, remove; query.rs: the
\* answer is inserted before complete_run and removed when it fails).
THEOREM ResultsAreRuns == Spec => []ResultsMatchRuns
  <1>1. Inv /\ RegistryHolds => ResultsMatchRuns
    <2> SUFFICES ASSUME Inv, RegistryHolds PROVE ResultsMatchRuns
      OBVIOUS
    <2>1. LineHolds /\ (\A q \in Queries : ResultHolds(q)) /\ results \subseteq Queries
      BY DEF Inv, Types, RegistryHolds
    <2>2. Front(order, Len(order)) = results /\ Cardinality(results) <= Capacity
      BY <2>1 DEF LineHolds
    <2>3. Cardinality(results) = Len(order)
      <3>1. Cardinality(Front(order, Len(order))) = Len(order)
        BY <2>1, LineLength DEF LineHolds
      <3> QED
        BY <2>2, <3>1
    <2>4. \A q \in results : status[q] = "Completed" \/ pc[q] \in {"Complete", "Remove"}
      BY <2>1 DEF ResultHolds
    <2>5. \A q \in Queries : (status[q] = "Completed" /\ born[q] = process) =>
              /\ \E i \in DOMAIN published : published[i] = q
              /\ q \in results \/ Cardinality(PublishedAfter(q)) >= Capacity
      BY <2>1 DEF ResultHolds, Kept, IsPublished
    <2> QED
      BY <2>2, <2>3, <2>4, <2>5 DEF ResultsMatchRuns
  <1> QED
    BY <1>1, RegistryAlways, PTL

\* Every variable keeps its type; the free permits never go below none, nor
\* above the limit the semaphore was built with (query.rs: query_permits).
THEOREM TypeCorrect == Spec => []TypeOK
  <1>1. Inv /\ RegistryHolds => TypeOK
    <2> SUFFICES ASSUME Inv, RegistryHolds PROVE TypeOK
      OBVIOUS
    <2>1. permits \in 0..MaxConcurrent
      <3>1. permits \in Int /\ permits >= 0 /\ permits + Cardinality(Holders) = MaxConcurrent
        BY DEF Inv, Types, PermitsConserved, RegistryHolds
      <3>2. Cardinality(Holders) \in Nat /\ MaxConcurrent \in Nat
        BY HoldersFinite, StudioAssumption DEF StudioAssumption
      <3> QED
        BY <3>1, <3>2
    <2>2. /\ process \in 0..MaxRestarts /\ born \in [Queries -> 0..MaxRestarts]
          /\ order \in Seq(Queries) /\ published \in Seq(Queries)
      <3>1. /\ process \in 0..MaxRestarts /\ born \in [Queries -> 0..process]
            /\ order \in Seq(Queries) /\ published \in Seq(Queries) /\ MaxRestarts \in Nat
        BY StudioAssumption DEF RegistryHolds, LineHolds, StudioAssumption
      <3>2. 0..process \subseteq 0..MaxRestarts
        BY <3>1
      <3> QED
        BY <3>1, <3>2
    <2>3. Types
      BY DEF Inv
    <2> QED
      BY <2>1, <2>2, <2>3 DEF Types, TypeOK, Places
  <1> QED
    BY <1>1, RegistryAlways, PTL
-----------------------------------------------------------------------------
\* What ReliableLog sees of a query: the state of its run, and its record.
LogState(q) == IF status[q] \in {"Completed", "Failed"} THEN "Completed" ELSE gate[q]
Opens(q) ==
    /\ LogState(q) = "Absent"
    /\ gate' = [gate EXCEPT ![q] = "Open"] /\ UNCHANGED <<history, persisted, status>>
Accepts(q) ==
    /\ LogState(q) = "Open"
    /\ \E kind \in {"Step"} \cup Terminal : history' = [history EXCEPT ![q] = Append(@, kind)]
    /\ UNCHANGED <<gate, persisted, status>>
Stores(q) ==
    /\ LogState(q) = "Open" /\ persisted[q] < Len(history[q])
    /\ persisted' = [persisted EXCEPT ![q] = @ + 1] /\ UNCHANGED <<gate, history, status>>
Settles(q) ==
    /\ LogState(q) = "Open" /\ persisted[q] = Len(history[q])
    /\ gate' = [gate EXCEPT ![q] = "Finished"] /\ UNCHANGED <<history, persisted, status>>
Completes(q) ==
    /\ LogState(q) = "Finished"
    /\ \E s \in {"Completed", "Failed"} : status' = [status EXCEPT ![q] = s]
    /\ UNCHANGED <<gate, history, persisted>>
Unseen ==
    /\ UNCHANGED <<gate, history, persisted>>
    /\ \A q \in Queries : LogState(q)' = LogState(q)
Visible ==
    \/ Unseen
    \/ \E q \in Queries : Opens(q) \/ Accepts(q) \/ Stores(q) \/ Settles(q) \/ Completes(q)

LEMMA VisibleStep ==
  ASSUME Inv, [Next]_vars
  PROVE  Visible
  <1> USE DEF execution, trace, registry, request
  <1>0. Types /\ \A q \in Queries : QueryInv(q)
    BY DEF Inv
  <1>1. ASSUME UNCHANGED <<gate, history, persisted, status>> PROVE Visible
    BY <1>1 DEF Visible, Unseen, LogState
  <1>2. ASSUME NEW q \in Queries, Task(q) PROVE Visible
    <2>0. Types /\ QueryInv(q)
      BY <1>0
    <2>1. CASE CreateInStore(q)
      <3>1. \A p \in Queries : LogState(p)' = LogState(p)
        BY <2>0, <2>1 DEF CreateInStore, Types, QueryInv, RunHolds, LogState
      <3> QED
        BY <2>1, <3>1 DEF CreateInStore, Visible, Unseen
    <2>2. CASE Register(q)
      <3>1. Opens(q)
        BY <2>0, <2>2 DEF Register, Opens, LogState, QueryInv, RunHolds
      <3> QED
        BY <3>1 DEF Visible
    <2>3. ASSUME NEW kind \in {"Step"} \cup Terminal, Accept(q, kind), pc[q] \in {"Run", "Terminal"},
                 UNCHANGED <<gate, persisted, status>>
          PROVE  Visible
      <3>1. Accepts(q)
        BY <2>0, <2>3 DEF Accept, Accepts, LogState, QueryInv, RunHolds
      <3> QED
        BY <3>1 DEF Visible
    <2>4. CASE Emit(q)
      <3>1. CASE Reject(q)
        BY <1>1, <2>4, <3>1 DEF Emit, Reject
      <3>2. CASE Accept(q, "Step")
        BY <2>3, <2>4, <3>2 DEF Emit
      <3> QED
        BY <2>4, <3>1, <3>2 DEF Emit
    <2>5. CASE EmitTerminal(q)
      <3>1. CASE Reject(q)
        BY <1>1, <2>5, <3>1 DEF EmitTerminal, Reject
      <3>2. CASE Accept(q, TerminalKind(q))
        BY <2>3, <2>5, <3>2 DEF EmitTerminal, TerminalKind, Terminal
      <3> QED
        BY <2>5, <3>1, <3>2 DEF EmitTerminal
    <2>6. CASE Finish(q)
      <3>1. Settles(q)
        BY <2>0, <2>6 DEF Finish, Drained, Settles, LogState, QueryInv, RunHolds
      <3> QED
        BY <3>1 DEF Visible
    <2>7. CASE Complete(q)
      <3>1. Completes(q)
        BY <2>0, <2>7 DEF Complete, MayComplete, Completes, LogState, QueryInv, RunHolds
      <3> QED
        BY <3>1 DEF Visible
    <2>8. CASE \/ CreateFails(q) \/ SidecarFailure(q) \/ Panic(q) \/ FinishFails(q)
               \/ FinishStrands(q) \/ Convert(q) \/ Publish(q) \/ CompleteFails(q)
               \/ Remove(q) \/ Shutdown(q) \/ \E result \in {"Ok", "Failed"} : SearchEnds(q, result)
      BY <1>1, <2>8 DEF CreateFails, SidecarFailure, SearchEnds, Panic, FinishFails,
         FinishStrands, Convert, Publish, CompleteFails, Remove, Shutdown
    <2> QED
      BY <1>2, <2>1, <2>2, <2>4, <2>5, <2>6, <2>7, <2>8 DEF Task, Search
  <1>3. ASSUME NEW q \in Queries, Persist(q) PROVE Visible
    <2>1. LogState(q) = "Open"
      BY <1>0, <1>3 DEF Persist, Types, QueryInv, RunHolds, TraceHolds, LogState
    <2> QED
      BY <1>3, <2>1 DEF Persist, Stores, Visible
  <1>4. ASSUME NEW q \in Queries, PersistFails(q) PROVE Visible
    BY <1>1, <1>4 DEF PersistFails
  <1>5. CASE \/ \E q \in Queries : start_query(q) \/ Refuse(q) \/ Disconnect(q)
             \/ \E q \in Polled : ReadStatus(q)
             \/ ReadRegistry \/ Restart \/ UNCHANGED vars
    BY <1>1, <1>5 DEF start_query, Refuse, Disconnect, ReadStatus, ReadRegistry, Restart, vars
  <1> QED
    BY <1>2, <1>3, <1>4, <1>5 DEF Next, Writer

LEMMA LogStep ==
  ASSUME Types, Visible
  PROVE  [Log!Next]_(Log!vars)
  <1> DEFINE state == [q \in Queries |-> LogState(q)]
             accepted == [q \in Queries |-> Len(history[q])]
  <1>1. CASE Unseen
    <2>1. state' = state /\ accepted' = accepted /\ persisted' = persisted
      BY <1>1 DEF Unseen
    <2> QED
      BY <2>1 DEF Log!vars, LogState
  <1>2. ASSUME NEW q \in Queries, Opens(q) PROVE [Log!Next]_(Log!vars)
    <2>0. LogState(q) = "Absent" /\ \A p \in Queries : LogState(p)' = IF p = q THEN "Open" ELSE LogState(p)
      BY <1>2 DEF Opens, LogState, Types
    <2>1. state[q] = "Absent" /\ state' = [state EXCEPT ![q] = "Open"]
          /\ accepted' = accepted /\ persisted' = persisted
      BY <1>2, <2>0 DEF Opens
    <2>2. Log!Create(q)
      BY <2>1 DEF Log!Create, LogState
    <2> QED
      BY <2>2 DEF Log!Next
  <1>3. ASSUME NEW q \in Queries, Accepts(q) PROVE [Log!Next]_(Log!vars)
    <2>1. state[q] = "Open" /\ state' = state /\ persisted' = persisted
      BY <1>3 DEF Accepts, LogState
    <2>2. PICK kind \in {"Step"} \cup Terminal : history' = [history EXCEPT ![q] = Append(@, kind)]
      BY <1>3 DEF Accepts
    <2>3. \A p \in Queries : Len(history'[p]) = IF p = q THEN Len(history[p]) + 1 ELSE Len(history[p])
      BY <2>2, Appended
    <2>4. accepted' = [accepted EXCEPT ![q] = @ + 1]
      BY <2>3
    <2>5. Log!Accept(q)
      BY <2>1, <2>4 DEF Log!Accept, LogState
    <2> QED
      BY <2>5 DEF Log!Next
  <1>4. ASSUME NEW q \in Queries, Stores(q) PROVE [Log!Next]_(Log!vars)
    <2>1. state[q] = "Open" /\ state' = state /\ accepted' = accepted
          /\ persisted[q] < accepted[q] /\ persisted' = [persisted EXCEPT ![q] = @ + 1]
      BY <1>4 DEF Stores, LogState
    <2>2. Log!Persist(q)
      BY <2>1 DEF Log!Persist, LogState
    <2> QED
      BY <2>2 DEF Log!Next
  <1>5. ASSUME NEW q \in Queries, Settles(q) PROVE [Log!Next]_(Log!vars)
    <2>0. LogState(q) = "Open" /\ \A p \in Queries : LogState(p)' = IF p = q THEN "Finished" ELSE LogState(p)
      BY <1>5 DEF Settles, LogState, Types
    <2>1. state[q] = "Open" /\ state' = [state EXCEPT ![q] = "Finished"]
          /\ persisted[q] = accepted[q] /\ accepted' = accepted /\ persisted' = persisted
      BY <1>5, <2>0 DEF Settles
    <2>2. Log!Finish(q)
      BY <2>1 DEF Log!Finish, LogState
    <2> QED
      BY <2>2 DEF Log!Next
  <1>6. ASSUME NEW q \in Queries, Completes(q) PROVE [Log!Next]_(Log!vars)
    <2>0. LogState(q) = "Finished" /\ \A p \in Queries : LogState(p)' = IF p = q THEN "Completed" ELSE LogState(p)
      BY <1>6 DEF Completes, LogState, Types
    <2>1. state[q] = "Finished" /\ state' = [state EXCEPT ![q] = "Completed"]
          /\ accepted' = accepted /\ persisted' = persisted
      BY <1>6, <2>0 DEF Completes
    <2>2. Log!Complete(q)
      BY <2>1 DEF Log!Complete, LogState
    <2> QED
      BY <2>2 DEF Log!Next
  <1> QED
    BY <1>1, <1>2, <1>3, <1>4, <1>5, <1>6 DEF Visible

\* Whatever the tasks, the writers, the clients and a restart do, the host asks
\* of each query's recorder only what the abstract reliable log allows.
THEOREM HostUsesReliableLog == Spec => UsesReliableLog
  <1>1. Init => Log!Init
    BY DEF Init, Log!Init
  <1>2. Inv /\ [Next]_vars => [Log!Next]_(Log!vars)
    BY VisibleStep, LogStep DEF Inv
  <1> QED
    BY <1>1, <1>2, InvHolds, PTL DEF Spec, UsesReliableLog, Log!Spec
=============================================================================
