---------------------------- MODULE SqliteStore ----------------------------
(***************************************************************************)
(* The SQLite store (crates/graphloom/src/explainability/sqlite.rs): several *)
(* instances, each a process with one connection to one database file.      *)
(* Opening is serialized by a sidecar lock; a call takes the instance's     *)
(* operation gate, then runs as a blocking closure that nobody can cancel,  *)
(* under the connection mutex and, when it writes, BEGIN IMMEDIATE.         *)
(***************************************************************************)
EXTENDS StoreContract

CONSTANTS Stores,       \* instances of SqliteExplainabilityStore on the file
          Calls,        \* calls in flight: one slot each
          Asked,        \* requests the callers make (bound of the model)
          MaxBatch,     \* longest batch a caller appends (bound of the model)
          SqliteMax,    \* i64::MAX, the largest integer SQLite stores
          Nobody

\* An empty batch is answered before anything happens and left out.
Requests ==
    [op : {"create"}, id : RunIds, run : Run]
      \cup [op : {"append"}, batch : UNION {[1..n -> Envelope] : n \in 1..MaxBatch}]
      \cup [op : {"complete"}, id : RunIds, status : Statuses, at : Times]
      \cup [op : {"delete", "read", "load"}, id : RunIds]
Writes == {"create", "append", "complete", "delete"}

ASSUME SqliteAssumption ==
    /\ SqliteMax \in 0..MaxSequence /\ MaxBatch \in Nat
    /\ Asked \subseteq Requests
    /\ Nobody \notin Stores \cup Calls /\ Stores \cap Calls = {}

VARIABLES
    runs, events,   \* the committed rows of the two tables
    wal,            \* the file's journal mode is WAL
    schema,         \* the tables are there
    writer,         \* who holds SQLite's write lock: a store that opens or a call
    openLock,       \* who holds <database>.lock
    conn,           \* store -> how far its open is, or why it failed
    gate,           \* store -> call holding operation_gate
    mutex,          \* store -> call whose closure holds the connection
    poisoned,       \* store -> a closure panicked under the mutex
    call            \* call -> its store, operation, progress and answer
file == <<runs, events, wal, schema>>
instance == <<gate, mutex, poisoned>>
vars == <<runs, events, wal, schema, writer, openLock, conn, gate, mutex, poisoned, call>>

InClosure == {"Connected", "InTransaction", "Checked", "Found"}
Phases == {"Idle", "Gate", "Queued", "Closed", "Answered"} \cup InClosure
Outcomes == {"None", "Ok", "Refused", "Internal"}
NoCall == [phase |-> "Idle", store |-> Nobody, request |-> Nobody, waiting |-> FALSE,
           outcome |-> "None", gone |-> FALSE]

Init ==
    /\ runs = [id \in RunIds |-> NoRun]
    /\ events = [id \in RunIds |-> <<>>]
    /\ wal = FALSE /\ schema = FALSE
    /\ writer = Nobody /\ openLock = Nobody
    /\ conn = [s \in Stores |-> "Closed"]
    /\ gate = [s \in Stores |-> Nobody]
    /\ mutex = [s \in Stores |-> Nobody]
    /\ poisoned = [s \in Stores |-> FALSE]
    /\ call = [c \in Calls |-> NoCall]

Request(c) == call[c].request
StoreOf(c) == call[c].store
SetPhase(c, phase) == call' = [call EXCEPT ![c].phase = phase]
-----------------------------------------------------------------------------
(* open: sidecar lock, PRAGMAs, schema, each with its way to fail.          *)
SetConn(s, state) == conn' = [conn EXCEPT ![s] = state]

open(s) ==
    /\ conn[s] \in {"Closed", "Busy"}
    /\ SetConn(s, "Locking")
    /\ UNCHANGED <<file, writer, openLock, instance, call>>

\* Mutant: the sidecar lock keeps nobody out.
LockIgnored == TRUE
LockFree == openLock = Nobody
AcquireOpenLock(s) ==
    /\ conn[s] = "Locking" /\ LockFree
    /\ openLock' = s
    /\ SetConn(s, "Configuring")
    /\ UNCHANGED <<file, writer, instance, call>>
\* The deadline passes while another open holds the lock.
OpenLockTimeout(s) ==
    /\ conn[s] = "Locking" /\ ~LockFree
    /\ SetConn(s, "Closed")
    /\ UNCHANGED <<file, writer, openLock, instance, call>>

\* PRAGMA journal_mode = WAL needs the file for itself to change the mode and
\* does not wait for it: it fails at once.
StartConfigure(s) ==
    /\ conn[s] = "Configuring"
    /\ \/ wal /\ SetConn(s, "Initializing") /\ UNCHANGED <<writer, openLock>>
       \/ ~wal /\ writer = Nobody /\ writer' = s
          /\ SetConn(s, "Switching") /\ UNCHANGED openLock
       \/ ~wal /\ writer # Nobody /\ openLock' = Nobody
          /\ SetConn(s, "Busy") /\ UNCHANGED writer
    /\ UNCHANGED <<file, instance, call>>
SwitchJournal(s) ==
    /\ conn[s] = "Switching"
    /\ wal' = TRUE /\ writer' = Nobody
    /\ SetConn(s, "Initializing")
    /\ UNCHANGED <<runs, events, schema, openLock, instance, call>>

\* initialize_schema in one BEGIN IMMEDIATE transaction, which waits for the
\* write lock until busy_timeout.
BeginSchema(s) ==
    /\ conn[s] = "Initializing"
    /\ \/ writer = Nobody /\ writer' = s /\ SetConn(s, "Creating") /\ UNCHANGED openLock
       \/ writer # Nobody /\ openLock' = Nobody
          /\ SetConn(s, "Closed") /\ UNCHANGED writer
    /\ UNCHANGED <<file, instance, call>>
CommitSchema(s) ==
    /\ conn[s] = "Creating"
    /\ schema' = TRUE /\ writer' = Nobody /\ openLock' = Nobody
    /\ SetConn(s, "Open")
    /\ UNCHANGED <<runs, events, wal, instance, call>>

Open(s) ==
    \/ AcquireOpenLock(s) \/ OpenLockTimeout(s) \/ StartConfigure(s)
    \/ SwitchJournal(s) \/ BeginSchema(s) \/ CommitSchema(s)
-----------------------------------------------------------------------------
(* The caller's side.  Arguments no database could accept are refused       *)
(* before the gate.                                                          *)
ValidArguments(r) ==
    CASE r.op = "create" -> ValidNewRun(r.run)
      [] r.op = "append" -> \A i \in DOMAIN r.batch : r.batch[i].run = r.batch[1].run
      [] r.op = "complete" -> r.status \in TerminalStatuses
      [] OTHER -> TRUE
Start(c, s, r) ==
    /\ call[c].phase \in {"Idle", "Answered"} /\ conn[s] = "Open"
    /\ call' = [call EXCEPT ![c] =
           IF ValidArguments(r)
           THEN [NoCall EXCEPT !.phase = "Gate", !.store = s, !.request = r, !.waiting = TRUE]
           ELSE [NoCall EXCEPT !.phase = "Answered"]]
    /\ UNCHANGED <<file, writer, openLock, conn, instance>>

\* The gate is taken and the closure handed to a blocking thread.
EnterGate(c) ==
    /\ call[c].phase = "Gate" /\ gate[StoreOf(c)] = Nobody
    /\ gate' = [gate EXCEPT ![StoreOf(c)] = c]
    /\ SetPhase(c, "Queued")
    /\ UNCHANGED <<file, writer, openLock, conn, mutex, poisoned>>

\* Mutant: a cancelled caller keeps the gate.
KeepGate(c) == UNCHANGED gate
LeaveGate(c) ==
    gate' = [s \in Stores |-> IF gate[s] = c THEN Nobody ELSE gate[s]]

Answer(c) ==
    /\ call[c].phase = "Closed" /\ call[c].waiting
    /\ LeaveGate(c)
    /\ call' = [call EXCEPT ![c] = [NoCall EXCEPT !.phase = "Answered", !.gone = call[c].gone]]
    /\ UNCHANGED <<file, writer, openLock, conn, mutex, poisoned>>

\* The caller drops the future: the gate is free at once, the closure goes on.
Cancel(c) ==
    /\ call[c].waiting
    /\ LeaveGate(c)
    /\ call' = [call EXCEPT ![c] =
           IF @.phase \in {"Gate", "Closed"} THEN NoCall ELSE [@ EXCEPT !.waiting = FALSE]]
    /\ UNCHANGED <<file, writer, openLock, conn, mutex, poisoned>>
-----------------------------------------------------------------------------
(* The closure of with_connection on its blocking thread.                   *)
\* It ends: an open transaction rolls back, the mutex is free, and whoever
\* still waits has an answer coming.
\* Mutant: a failed call leaves its transaction open.
RollbackForgotten(c) == UNCHANGED writer
Rollback(c) == writer' = IF writer = c THEN Nobody ELSE writer
Settle(c, outcome, gone) ==
    call' = [call EXCEPT ![c] =
        IF @.waiting THEN [@ EXCEPT !.phase = "Closed", !.outcome = outcome, !.gone = gone]
        ELSE NoCall]
End(c, outcome, gone) ==
    /\ mutex' = [mutex EXCEPT ![StoreOf(c)] = Nobody]
    /\ Rollback(c)
    /\ Settle(c, outcome, gone)
Close(c, outcome) == End(c, outcome, FALSE)

Connect(c) ==
    /\ call[c].phase = "Queued" /\ mutex[StoreOf(c)] = Nobody
    /\ \/ /\ poisoned[StoreOf(c)]
          /\ Settle(c, "Internal", FALSE) /\ UNCHANGED mutex
       \/ /\ ~poisoned[StoreOf(c)]
          /\ mutex' = [mutex EXCEPT ![StoreOf(c)] = c]
          /\ SetPhase(c, "Connected")
    /\ UNCHANGED <<file, writer, openLock, conn, gate, poisoned>>

\* Integers are converted before the transaction.
Prepares(r) ==
    r.op = "append" => \A i \in DOMAIN r.batch : r.batch[i].sequence <= SqliteMax
\* BEGIN IMMEDIATE takes the write lock, or fails when busy_timeout passes.
\* Mutant: a deferred BEGIN, which takes no lock.
WriteLockIgnored == TRUE
WriteLockFree == writer = Nobody
Begin(c) ==
    /\ call[c].phase = "Connected" /\ Request(c).op \in Writes
    /\ \/ /\ Prepares(Request(c)) /\ WriteLockFree
          /\ writer' = c
          /\ SetPhase(c, "InTransaction")
          /\ UNCHANGED mutex
       \/ /\ ~Prepares(Request(c)) \/ ~WriteLockFree
          /\ Close(c, "Internal")
    /\ UNCHANGED <<file, openLock, conn, gate, poisoned>>

\* The rows are read and compared with the request; a refusal rolls back, as
\* does the exact retry of a completion, which has nothing to write.
Retried(r) == r.op = "complete" /\ runs[r.id].status \in TerminalStatuses
Accepts(r) ==
    CASE r.op = "create" -> CanCreate(runs, r.id, r.run)
      [] r.op = "append" -> CanAppend(runs, r.batch)
      [] r.op = "complete" -> CanComplete(runs, r.id, r.status, r.at)
      [] r.op = "delete" -> TRUE
Check(c) ==
    LET r == Request(c) IN
    /\ call[c].phase = "InTransaction"
    /\ \/ ~Accepts(r) /\ Close(c, "Refused")
       \/ Accepts(r) /\ Retried(r) /\ Close(c, "Ok")
       \/ Accepts(r) /\ ~Retried(r) /\ SetPhase(c, "Checked") /\ UNCHANGED <<mutex, writer>>
    /\ UNCHANGED <<file, openLock, conn, gate, poisoned>>

Commit(c) ==
    LET r == Request(c) IN
    /\ call[c].phase = "Checked"
    /\ CASE r.op = "create" -> runs' = AfterCreate(runs, r.id, r.run) /\ UNCHANGED events
         [] r.op = "append" ->
              /\ runs' = [runs EXCEPT ![r.batch[1].run].eventCount =
                              r.batch[Len(r.batch)].sequence]
              /\ events' = EventsAfterAppend(events, r.batch)
         [] r.op = "complete" ->
              runs' = AfterComplete(runs, r.id, r.status, r.at) /\ UNCHANGED events
         [] r.op = "delete" ->
              runs' = RunsAfterDelete(runs, r.id) /\ events' = EventsAfterDelete(events, r.id)
    /\ Close(c, "Ok")
    /\ UNCHANGED <<wal, schema, openLock, conn, gate, poisoned>>

\* A statement or the commit fails: the dropped transaction rolls back.
StatementFails(c) ==
    /\ call[c].phase \in InClosure
    /\ Close(c, "Internal")
    /\ UNCHANGED <<file, openLock, conn, gate, poisoned>>
\* A closure panics: the transaction rolls back and the mutex is poisoned, so
\* this instance answers every later call with ConnectionUnavailable.
Panic(c) ==
    /\ call[c].phase \in InClosure
    /\ poisoned' = [poisoned EXCEPT ![StoreOf(c)] = TRUE]
    /\ Close(c, "Internal")
    /\ UNCHANGED <<file, openLock, conn, gate>>

\* get_run and list_runs are one SELECT.
Select(c) ==
    /\ call[c].phase = "Connected" /\ Request(c).op = "read"
    /\ Close(c, "Ok")
    /\ UNCHANGED <<file, openLock, conn, gate, poisoned>>
\* load_events is two, outside any transaction: another instance may commit
\* in between.  The page is LoadEvents of the second moment; `gone' remembers
\* that the run was no longer there then.
FindRun(c) ==
    /\ call[c].phase = "Connected" /\ Request(c).op = "load"
    /\ IF Exists(runs, Request(c).id) THEN SetPhase(c, "Found") /\ UNCHANGED <<mutex, writer>>
       ELSE Close(c, "Refused")
    /\ UNCHANGED <<file, openLock, conn, gate, poisoned>>
SelectEvents(c) ==
    /\ call[c].phase = "Found"
    /\ End(c, "Ok", ~Exists(runs, Request(c).id))
    /\ UNCHANGED <<file, openLock, conn, gate, poisoned>>

Closure(c) ==
    \/ Connect(c) \/ Begin(c) \/ Check(c) \/ Commit(c)
    \/ Select(c) \/ FindRun(c) \/ SelectEvents(c)
-----------------------------------------------------------------------------
\* The process of a store dies: its locks and its transaction are gone, its
\* callers never hear an answer.
Crash(s) ==
    /\ conn[s] # "Closed"
    /\ SetConn(s, "Closed")
    /\ openLock' = IF openLock = s THEN Nobody ELSE openLock
    /\ writer' = IF writer = s \/ (writer \in Calls /\ StoreOf(writer) = s)
                 THEN Nobody ELSE writer
    /\ gate' = [gate EXCEPT ![s] = Nobody]
    /\ mutex' = [mutex EXCEPT ![s] = Nobody]
    /\ poisoned' = [poisoned EXCEPT ![s] = FALSE]
    /\ call' = [c \in Calls |-> IF StoreOf(c) = s THEN NoCall ELSE call[c]]
    /\ UNCHANGED file

Next ==
    \/ \E s \in Stores : open(s) \/ Open(s) \/ Crash(s)
    \/ \E c \in Calls :
          \/ \E s \in Stores, r \in Asked : Start(c, s, r)
          \/ EnterGate(c) \/ Answer(c) \/ Cancel(c)
          \/ Closure(c) \/ StatementFails(c) \/ Panic(c)

\* Blocking threads run until their closure ends, an awaiting caller is polled,
\* and neither the OS mutex nor the queue of the operation gate starves anybody.
Progress(c) == EnterGate(c) \/ Closure(c) \/ Answer(c)
Fairness == \A c \in Calls : SF_vars(Progress(c))

Spec == Init /\ [][Next]_vars
LiveSpec == Spec /\ Fairness
-----------------------------------------------------------------------------
TypeOK ==
    /\ runs \in [RunIds -> Run \cup {NoRun}]
    /\ events \in [RunIds -> Seq(Envelope)]
    /\ wal \in BOOLEAN /\ schema \in BOOLEAN
    /\ writer \in Stores \cup Calls \cup {Nobody}
    /\ openLock \in Stores \cup {Nobody}
    /\ conn \in [Stores -> {"Closed", "Locking", "Configuring", "Switching",
                            "Initializing", "Creating", "Open", "Busy"}]
    /\ gate \in [Stores -> Calls \cup {Nobody}]
    /\ mutex \in [Stores -> Calls \cup {Nobody}]
    /\ poisoned \in [Stores -> BOOLEAN]
    /\ call \in [Calls -> [phase : Phases, store : Stores \cup {Nobody},
                           request : Asked \cup {Nobody}, waiting : BOOLEAN,
                           outcome : Outcomes, gone : BOOLEAN]]

\* Whoever holds the write lock, a connection mutex, an operation gate or the
\* sidecar lock is at a place where it gives it back: refusals, errors,
\* panics, cancelled callers and dead processes leave no lock behind.
LocksHaveOwners ==
    /\ writer \in Stores => conn[writer] \in {"Switching", "Creating"}
    /\ writer \in Calls => /\ call[writer].phase \in {"InTransaction", "Checked"}
                           /\ Request(writer).op \in Writes
    /\ openLock \in Stores => conn[openLock] \in
           {"Configuring", "Switching", "Initializing", "Creating"}
    /\ \A s \in Stores :
           /\ mutex[s] \in Calls => /\ call[mutex[s]].phase \in InClosure
                                    /\ StoreOf(mutex[s]) = s
           /\ gate[s] \in Calls => /\ call[gate[s]].waiting /\ StoreOf(gate[s]) = s
                                   /\ call[gate[s]].phase # "Gate"

\* An open never fails because another open is switching the journal mode.
OpenNeverBusy == \A s \in Stores : conn[s] # "Busy"

\* Every call ends for its caller: it is answered, cancelled, or its process
\* dies; contention becomes an error and never a wait for ever.
EveryCallEnds == \A c \in Calls : call[c].waiting ~> ~call[c].waiting

\* Committed rows change as the in-memory store's do, one contract operation
\* at a time, whichever instances write and whatever fails or is cancelled.
Contract == INSTANCE ExplainabilityStore
ImplementsStore == Contract!Spec

\* Violated: a load_events that answers Ok read its page while the run existed.
LoadFindsRun == \A c \in Calls : call[c].phase = "Answered" => ~call[c].gone
=============================================================================
