-------------------------- MODULE SqliteStoreProofs --------------------------
(***************************************************************************)
(* The SQLite store implements the in-memory store's contract, and leaves   *)
(* no lock behind, for any number of instances, calls, runs and events.     *)
(***************************************************************************)
EXTENDS SqliteStore, TLAPS

\* What an opening instance holds, and what it may rely on.
OpenHolds(s) ==
    /\ conn[s] \in {"Configuring", "Switching", "Initializing", "Creating"} => openLock = s
    /\ conn[s] \in {"Switching", "Creating"} => writer = s
    /\ conn[s] \in {"Initializing", "Creating", "Open"} => wal
    /\ conn[s] # "Busy"

\* What a call holds: its instance is open, its closure has the mutex, its
\* transaction the write lock, and what it was checked against still holds.
CallHolds(c) ==
    /\ call[c].phase \in {"Gate", "Queued"} \cup InClosure =>
           StoreOf(c) \in Stores /\ Request(c) \in Asked /\ conn[StoreOf(c)] = "Open"
    /\ call[c].phase = "Gate" => call[c].waiting
    /\ call[c].phase \in {"Idle", "Answered"} => ~call[c].waiting
    /\ call[c].phase \in InClosure => mutex[StoreOf(c)] = c
    /\ call[c].phase \in {"InTransaction", "Checked"} =>
           writer = c /\ Request(c).op \in Writes
CheckHolds(c) ==
    call[c].phase = "Checked" => Accepts(Request(c)) /\ ~Retried(Request(c))

LockInv ==
    /\ LocksHaveOwners
    /\ \A s \in Stores : OpenHolds(s)
    /\ \A c \in Calls : CallHolds(c)
Inv == TypeOK /\ LockInv /\ \A c \in Calls : CheckHolds(c)
-----------------------------------------------------------------------------
\* The arguments a request of each kind carries.
LEMMA RequestShapes ==
  ASSUME NEW r \in Asked
  PROVE  /\ r.op = "create" => r.id \in RunIds /\ r.run \in Run
         /\ r.op = "append" => \E n \in 1..MaxBatch : r.batch \in [1..n -> Envelope]
         /\ r.op = "complete" => r.id \in RunIds /\ r.status \in Statuses /\ r.at \in Times
         /\ r.op = "delete" => r.id \in RunIds
  <1>1. r \in Requests
    BY SqliteAssumption DEF SqliteAssumption
  <1> QED
    BY <1>1 DEF Requests

LEMMA RunShapes ==
  ASSUME NEW run \in Run
  PROVE  /\ run # NoRun
         /\ \A n \in 0..MaxSequence : [run EXCEPT !.eventCount = n] \in Run
         /\ \A status \in Statuses, at \in Times :
                [run EXCEPT !.status = status, !.completedAt = at] \in Run
  <1>1. DOMAIN run # DOMAIN NoRun
    <2>1. "kind" \in DOMAIN run
      BY DEF Run
    <2>2. "kind" \notin DOMAIN NoRun
      BY DEF NoRun
    <2> QED
      BY <2>1, <2>2
  <1> QED
    BY <1>1 DEF Run

\* A request that was checked changes the rows as the contract's operation
\* does; writing the last sequence is the same as adding the batch's length.
LEMMA CommitRows ==
  ASSUME Inv, NEW c \in Calls, Commit(c)
  PROVE  LET r == Request(c) IN
         \/ r.op = "create" /\ CanCreate(runs, r.id, r.run)
              /\ runs' = AfterCreate(runs, r.id, r.run) /\ UNCHANGED events
         \/ r.op = "append" /\ CanAppend(runs, r.batch)
              /\ runs' = RunsAfterAppend(runs, r.batch)
              /\ events' = EventsAfterAppend(events, r.batch)
         \/ r.op = "complete" /\ CanComplete(runs, r.id, r.status, r.at)
              /\ runs' = AfterComplete(runs, r.id, r.status, r.at) /\ UNCHANGED events
         \/ r.op = "delete"
              /\ runs' = RunsAfterDelete(runs, r.id) /\ events' = EventsAfterDelete(events, r.id)
  <1> DEFINE r == Request(c)
  <1>1. r \in Asked /\ r.op \in Writes /\ Accepts(r)
    BY DEF Inv, LockInv, CallHolds, CheckHolds, Commit, InClosure
  <1>2. CASE r.op = "create"
    BY <1>1, <1>2 DEF Commit, Accepts
  <1>3. CASE r.op = "append"
    <2>1. PICK n \in 1..MaxBatch : r.batch \in [1..n -> Envelope]
      BY <1>1, <1>3, RequestShapes
    <2>2. n \in Nat \ {0}
      BY <2>1, SqliteAssumption DEF SqliteAssumption
    <2>3. Len(r.batch) = n /\ n \in DOMAIN r.batch
      BY <2>1, <2>2
    <2>4. CanAppend(runs, r.batch)
      BY <1>1, <1>3 DEF Accepts
    <2>5. r.batch[Len(r.batch)].sequence = runs[r.batch[1].run].eventCount + Len(r.batch)
      BY <2>3, <2>4 DEF CanAppend
    <2>6. runs' = RunsAfterAppend(runs, r.batch)
      BY <1>3, <2>5 DEF Commit, RunsAfterAppend
    <2> QED
      BY <1>3, <2>4, <2>6 DEF Commit
  <1>4. CASE r.op = "complete"
    BY <1>1, <1>4 DEF Commit, Accepts
  <1>5. CASE r.op = "delete"
    BY <1>5 DEF Commit
  <1> QED
    BY <1>1, <1>2, <1>3, <1>4, <1>5 DEF Writes

LEMMA CommitTypes ==
  ASSUME Inv, NEW c \in Calls, Commit(c)
  PROVE  runs' \in [RunIds -> Run \cup {NoRun}] /\ events' \in [RunIds -> Seq(Envelope)]
  <1> DEFINE r == Request(c)
  <1>1. /\ r \in Asked
        /\ runs \in [RunIds -> Run \cup {NoRun}] /\ events \in [RunIds -> Seq(Envelope)]
    BY DEF Inv, TypeOK, LockInv, CallHolds, Commit, InClosure
  <1>2. CASE r.op = "create" /\ runs' = AfterCreate(runs, r.id, r.run) /\ UNCHANGED events
    BY <1>1, <1>2, RequestShapes DEF AfterCreate
  <1>3. CASE r.op = "append" /\ CanAppend(runs, r.batch)
               /\ runs' = RunsAfterAppend(runs, r.batch)
               /\ events' = EventsAfterAppend(events, r.batch)
    <2> DEFINE id == r.batch[1].run
               run == [runs[id] EXCEPT !.eventCount = @ + Len(r.batch)]
    <2>1. PICK n \in 1..MaxBatch : r.batch \in [1..n -> Envelope]
      BY <1>1, <1>3, RequestShapes
    <2>2. n \in Nat \ {0}
      BY <2>1, SqliteAssumption DEF SqliteAssumption
    <2>3. r.batch \in Seq(Envelope) /\ Len(r.batch) = n /\ r.batch[1] \in Envelope
      BY <2>1, <2>2
    <2>4. id \in RunIds /\ runs[id] \in Run
      BY <1>1, <1>3, <2>3 DEF CanAppend, Envelope
    <2>5. runs[id].eventCount \in 0..MaxSequence /\ runs[id].eventCount + n <= MaxSequence
      BY <1>3, <2>3, <2>4 DEF CanAppend, Run
    <2>6. runs[id].eventCount + Len(r.batch) \in 0..MaxSequence
      BY <2>2, <2>3, <2>5, ContractAssumption DEF ContractAssumption
    <2>7. run \in Run
      BY <2>4, <2>6, RunShapes
    <2>8. runs' = [runs EXCEPT ![id] = run]
      BY <1>3 DEF RunsAfterAppend
    <2>9. events[id] \o r.batch \in Seq(Envelope)
      BY <1>1, <2>3, <2>4
    <2>10. events' = [events EXCEPT ![id] = events[id] \o r.batch]
      BY <1>3 DEF EventsAfterAppend
    <2> QED
      BY <1>1, <2>4, <2>7, <2>8, <2>9, <2>10
  <1>4. CASE r.op = "complete" /\ CanComplete(runs, r.id, r.status, r.at)
               /\ runs' = AfterComplete(runs, r.id, r.status, r.at) /\ UNCHANGED events
    <2> DEFINE run == [runs[r.id] EXCEPT !.status = r.status, !.completedAt = r.at]
    <2>1. r.id \in RunIds /\ r.status \in Statuses /\ r.at \in Times
      BY <1>1, <1>4, RequestShapes
    <2>2. runs[r.id] \in Run
      BY <1>1, <1>4, <2>1 DEF CanComplete, Exists
    <2>3. run \in Run
      BY <2>1, <2>2, RunShapes
    <2>4. runs' = [runs EXCEPT ![r.id] = run]
      BY <1>4 DEF AfterComplete
    <2> QED
      BY <1>1, <1>4, <2>1, <2>3, <2>4
  <1>5. CASE r.op = "delete"
               /\ runs' = RunsAfterDelete(runs, r.id) /\ events' = EventsAfterDelete(events, r.id)
    BY <1>1, <1>5, RequestShapes DEF RunsAfterDelete, EventsAfterDelete
  <1> QED
    BY <1>2, <1>3, <1>4, <1>5, CommitRows
-----------------------------------------------------------------------------
LEMMA InitInv == Init => Inv
  <1> SUFFICES ASSUME Init PROVE Inv
    OBVIOUS
  <1> USE SqliteAssumption DEF SqliteAssumption, Init
  <1>1. NoCall \in [phase : Phases, store : Stores \cup {Nobody}, request : Asked \cup {Nobody},
                    waiting : BOOLEAN, outcome : Outcomes, gone : BOOLEAN]
    BY DEF NoCall, Phases, Outcomes
  <1>2. TypeOK
    <2>1. call \in [Calls -> [phase : Phases, store : Stores \cup {Nobody},
                              request : Asked \cup {Nobody}, waiting : BOOLEAN,
                              outcome : Outcomes, gone : BOOLEAN]]
      BY <1>1
    <2>2. runs \in [RunIds -> Run \cup {NoRun}] /\ events \in [RunIds -> Seq(Envelope)]
      OBVIOUS
    <2> QED
      BY <2>1, <2>2 DEF TypeOK
  <1>3. LockInv
    BY DEF NoCall, LockInv, LocksHaveOwners, OpenHolds, CallHolds, InClosure
  <1>4. \A c \in Calls : CheckHolds(c)
    BY DEF NoCall, CheckHolds
  <1> QED
    BY <1>2, <1>3, <1>4 DEF Inv

\* Opening moves one instance; only one at a time passes the sidecar lock.
LEMMA OpenInv ==
  ASSUME Inv, NEW s \in Stores, open(s) \/ Open(s)
  PROVE  Inv'
  <1> USE SqliteAssumption DEF SqliteAssumption, SetConn, file, instance
  <1>1. UNCHANGED <<runs, events, gate, mutex, poisoned, call>>
    BY DEF open, Open, AcquireOpenLock, OpenLockTimeout, StartConfigure, SwitchJournal,
           BeginSchema, CommitSchema
  <1>2. TypeOK'
    BY DEF Inv, TypeOK, open, Open, AcquireOpenLock, OpenLockTimeout, StartConfigure,
           SwitchJournal, BeginSchema, CommitSchema
  <1>3. \A c \in Calls : CheckHolds(c)'
    BY <1>1 DEF Inv, CheckHolds, Request, Accepts, Retried
  <1>4. LockInv'
    <2> USE DEF Inv, TypeOK, LockInv, LocksHaveOwners, OpenHolds, CallHolds, Request, StoreOf
    <2>1. CASE open(s)
      BY <1>1, <2>1 DEF open
    <2>2. CASE AcquireOpenLock(s)
      BY <1>1, <2>2 DEF AcquireOpenLock, LockFree
    <2>3. CASE OpenLockTimeout(s)
      BY <1>1, <2>3 DEF OpenLockTimeout
    <2>4. CASE StartConfigure(s)
      BY <1>1, <2>4 DEF StartConfigure, InClosure
    <2>5. CASE SwitchJournal(s)
      BY <1>1, <2>5 DEF SwitchJournal
    <2>6. CASE BeginSchema(s)
      BY <1>1, <2>6 DEF BeginSchema
    <2>7. CASE CommitSchema(s)
      BY <1>1, <2>7 DEF CommitSchema
    <2> QED
      BY <2>1, <2>2, <2>3, <2>4, <2>5, <2>6, <2>7 DEF Open
  <1> QED
    BY <1>2, <1>3, <1>4 DEF Inv
-----------------------------------------------------------------------------
\* The record of a call in its variable.
CallRecord == [phase : Phases, store : Stores \cup {Nobody}, request : Asked \cup {Nobody},
               waiting : BOOLEAN, outcome : Outcomes, gone : BOOLEAN]

LEMMA NoCallTyped == NoCall \in CallRecord
  BY DEF CallRecord, NoCall, Phases, Outcomes

\* What a call was checked against holds while the rows stay as they are.
LEMMA CheckKept ==
  ASSUME Inv, NEW d \in Calls, runs' = runs,
         call'[d].phase = "Checked" =>
             call[d].phase = "Checked" /\ call'[d].request = call[d].request
  PROVE  CheckHolds(d)'
  <1>1. SUFFICES ASSUME call'[d].phase = "Checked"
                 PROVE  Accepts(Request(d))' /\ ~Retried(Request(d))'
    BY DEF CheckHolds
  <1>2. call[d].phase = "Checked" /\ call[d].request = call'[d].request
    BY <1>1
  <1>3. Accepts(call[d].request) /\ ~Retried(call[d].request)
    BY <1>1, <1>2 DEF Inv, CheckHolds, Request
  <1>4. ~Retried(Request(d))'
    BY <1>2, <1>3 DEF Retried, Request
  <1>5. Accepts(Request(d))'
    BY <1>2, <1>3 DEF Accepts, Request
  <1> QED
    BY <1>4, <1>5

LEMMA StartInv ==
  ASSUME Inv, NEW c \in Calls, NEW s \in Stores, NEW r \in Asked, Start(c, s, r)
  PROVE  Inv'
  <1> DEFINE new == IF ValidArguments(r)
                      THEN [NoCall EXCEPT !.phase = "Gate", !.store = s, !.request = r,
                                          !.waiting = TRUE]
                      ELSE [NoCall EXCEPT !.phase = "Answered"]
  <1>1. /\ call' = [call EXCEPT ![c] = new]
        /\ UNCHANGED <<runs, events, wal, schema, writer, openLock, conn, gate, mutex, poisoned>>
        /\ call[c].phase \in {"Idle", "Answered"} /\ conn[s] = "Open"
    BY DEF Start, file, instance
  <1>2. new \in CallRecord
    BY DEF CallRecord, NoCall, Phases, Outcomes
  <1>3. TypeOK'
    <2> HIDE DEF new
    <2>1. call' \in [Calls -> CallRecord]
      BY <1>1, <1>2 DEF Inv, TypeOK, CallRecord
    <2> QED
      BY <1>1, <2>1 DEF Inv, TypeOK, CallRecord
  <1>4. call' [c] = new /\ \A d \in Calls \ {c} : call'[d] = call[d]
    <2> HIDE DEF new
    <2> QED
      BY <1>1 DEF Inv, TypeOK
  <1>5. LockInv'
    BY <1>1, <1>4, SqliteAssumption
    DEF SqliteAssumption, Inv, TypeOK, LockInv, LocksHaveOwners, OpenHolds, CallHolds, Request,
        StoreOf, InClosure, NoCall
  <1>6. \A d \in Calls : CheckHolds(d)'
    <2> TAKE d \in Calls
    <2>1. call'[d].phase = "Checked" => call'[d] = call[d]
      BY <1>4 DEF NoCall
    <2> QED
      BY <1>1, <2>1, CheckKept
  <1> QED
    BY <1>3, <1>5, <1>6 DEF Inv

\* Taking the gate, hearing the answer, giving up: the rows, the write lock
\* and the connections stay as they are.
LEMMA CallerInv ==
  ASSUME Inv, NEW c \in Calls, EnterGate(c) \/ Answer(c) \/ Cancel(c)
  PROVE  Inv'
  <1> USE DEF file
  <1>1. /\ UNCHANGED <<runs, events, wal, schema, writer, openLock, conn, mutex, poisoned>>
        /\ \A d \in Calls \ {c} : call'[d] = call[d]
    BY DEF EnterGate, Answer, Cancel, SetPhase, Inv, TypeOK
  <1>2. call' \in [Calls -> CallRecord]
    <2> USE DEF CallRecord
    <2>1. call \in [Calls -> CallRecord]
      BY DEF Inv, TypeOK
    <2>2. CASE EnterGate(c)
      BY <2>1, <2>2 DEF EnterGate, SetPhase, Phases
    <2>3. CASE Answer(c)
      <3>1. [NoCall EXCEPT !.phase = "Answered", !.gone = call[c].gone] \in CallRecord
        BY <2>1, NoCallTyped DEF Phases, NoCall, Outcomes
      <3> QED
        BY <2>1, <2>3, <3>1 DEF Answer
    <2>4. CASE Cancel(c)
      <3>1. [call[c] EXCEPT !.waiting = FALSE] \in CallRecord
        BY <2>1
      <3> QED
        BY <2>1, <2>4, <3>1, NoCallTyped DEF Cancel
    <2> QED
      BY <2>2, <2>3, <2>4
  <1>3. gate' \in [Stores -> Calls \cup {Nobody}]
    BY DEF EnterGate, Answer, Cancel, LeaveGate, Inv, TypeOK
  <1>4. TypeOK'
    BY <1>1, <1>2, <1>3 DEF Inv, TypeOK, CallRecord
  <1>5. LockInv'
    <2> USE SqliteAssumption DEF SqliteAssumption, Inv, TypeOK, LockInv, LocksHaveOwners,
            OpenHolds, CallHolds, Request, StoreOf, InClosure, NoCall
    <2>1. CASE EnterGate(c)
      BY <1>1, <2>1 DEF EnterGate, SetPhase
    <2>2. CASE Answer(c)
      BY <1>1, <2>2 DEF Answer, LeaveGate
    <2>3. CASE Cancel(c)
      BY <1>1, <2>3 DEF Cancel, LeaveGate
    <2> QED
      BY <2>1, <2>2, <2>3
  <1>6. call'[c].phase = "Checked" =>
            call[c].phase = "Checked" /\ call'[c].request = call[c].request
    <2>1. call \in [Calls -> CallRecord]
      BY DEF Inv, TypeOK, CallRecord
    <2>2. CASE EnterGate(c)
      BY <2>1, <2>2 DEF EnterGate, SetPhase, CallRecord
    <2>3. CASE Answer(c)
      BY <2>1, <2>3 DEF Answer, NoCall
    <2>4. CASE Cancel(c)
      BY <2>1, <2>4 DEF Cancel, NoCall, CallRecord
    <2> QED
      BY <2>2, <2>3, <2>4
  <1>7. \A d \in Calls : CheckHolds(d)'
    BY <1>1, <1>6, CheckKept
  <1> QED
    BY <1>4, <1>5, <1>7 DEF Inv
-----------------------------------------------------------------------------
\* However a closure ends, it gives back the mutex and the write lock.
LEMMA EndInv ==
  ASSUME Inv, NEW c \in Calls, call[c].phase \in InClosure, NEW outcome \in Outcomes,
         NEW gone \in BOOLEAN, End(c, outcome, gone),
         UNCHANGED <<wal, schema, openLock, conn, gate>>,
         poisoned' \in [Stores -> BOOLEAN],
         runs' \in [RunIds -> Run \cup {NoRun}], events' \in [RunIds -> Seq(Envelope)],
         UNCHANGED runs \/ call[c].phase = "Checked"
  PROVE  Inv'
  <1> DEFINE new == IF call[c].waiting
                      THEN [call[c] EXCEPT !.phase = "Closed", !.outcome = outcome, !.gone = gone]
                      ELSE NoCall
  <1>1. call \in [Calls -> CallRecord] /\ StoreOf(c) \in Stores
    BY DEF Inv, TypeOK, CallRecord, LockInv, CallHolds, InClosure
  <1>2. new \in CallRecord
    <2>1. "Closed" \in Phases
      BY DEF Phases
    <2> QED
      BY <1>1, <2>1, NoCallTyped DEF CallRecord
  <1>3. call' = [call EXCEPT ![c] = new]
    BY DEF End, Settle
  <1>4. /\ new.phase \notin InClosure \cup {"Gate", "Queued"}
        /\ call[c].waiting => new.phase = "Closed" /\ new.waiting /\ new.store = StoreOf(c)
        /\ ~call[c].waiting => ~new.waiting
    BY <1>1 DEF InClosure, NoCall, CallRecord, StoreOf
  <1>5. call'[c] = new /\ \A d \in Calls \ {c} : call'[d] = call[d]
    <2> HIDE DEF new
    <2> QED
      BY <1>1, <1>3
  <1>6. call' \in [Calls -> CallRecord]
    <2> HIDE DEF new
    <2> QED
      BY <1>1, <1>2, <1>3
  <1> HIDE DEF new
  <1>7. TypeOK'
    BY <1>6 DEF Inv, TypeOK, End, Rollback, CallRecord
  <1>8. LockInv'
    <2> USE SqliteAssumption DEF SqliteAssumption, End, Rollback, StoreOf, Request
    <2>1. LocksHaveOwners'
      <3> USE DEF Inv, TypeOK, LockInv, LocksHaveOwners
      <3>1. writer' \in Stores => conn'[writer'] \in {"Switching", "Creating"}
        OBVIOUS
      <3>2. writer' \in Calls => /\ call'[writer'].phase \in {"InTransaction", "Checked"}
                                /\ call'[writer'].request.op \in Writes
        BY <1>1, <1>4, <1>5 DEF CallHolds
      <3>3. ASSUME NEW s \in Stores, mutex'[s] \in Calls
            PROVE  /\ call'[mutex'[s]].phase \in InClosure
                   /\ call'[mutex'[s]].store = s
        <4>1. s # StoreOf(c) /\ mutex'[s] = mutex[s]
          BY <1>1, <3>3
        <4>2. mutex[s] # c
          BY <3>3, <4>1
        <4> QED
          BY <1>5, <3>3, <4>1, <4>2
      <3>4. \A s \in Stores : gate[s] \in Calls =>
                /\ call'[gate[s]].waiting /\ call'[gate[s]].store = s
                /\ call'[gate[s]].phase # "Gate"
        BY <1>1, <1>4, <1>5, SMTT(30) DEF InClosure
      <3> QED
        BY <3>1, <3>2, <3>3, <3>4
    <2>2. \A s \in Stores : OpenHolds(s)'
      BY DEF Inv, LockInv, OpenHolds
    <2>3. CallHolds(c)'
      BY <1>4, <1>5 DEF CallHolds, InClosure
    <2>4. \A d \in Calls \ {c} : CallHolds(d)'
      BY <1>1, <1>5 DEF Inv, TypeOK, LockInv, CallHolds, InClosure
    <2> QED
      BY <2>1, <2>2, <2>3, <2>4 DEF LockInv
  <1>9. \A d \in Calls : CheckHolds(d)'
    <2> TAKE d \in Calls
    <2>1. CASE d = c
      BY <1>4, <1>5, <2>1 DEF CheckHolds, InClosure
    <2>2. CASE d # c /\ UNCHANGED runs
      BY <1>5, <2>2, CheckKept
    <2>3. CASE d # c /\ call[c].phase = "Checked"
      BY <1>5, <2>3 DEF Inv, LockInv, CallHolds, CheckHolds
    <2> QED
      BY <2>1, <2>2, <2>3
  <1> QED
    BY <1>7, <1>8, <1>9 DEF Inv

\* A step of a closure that only moves on.
LEMMA MoveInv ==
  ASSUME Inv, NEW c \in Calls, NEW phase \in InClosure, SetPhase(c, phase),
         UNCHANGED <<runs, events, wal, schema, openLock, conn, gate, poisoned>>,
         call[c].phase \in {"Queued"} \cup InClosure,
         \/ call[c].phase = "Queued" /\ mutex[StoreOf(c)] = Nobody
              /\ mutex' = [mutex EXCEPT ![StoreOf(c)] = c]
         \/ call[c].phase # "Queued" /\ UNCHANGED mutex,
         \/ phase = "InTransaction" /\ writer = Nobody /\ writer' = c /\ Request(c).op \in Writes
         \/ phase = "Checked" /\ call[c].phase = "InTransaction" /\ UNCHANGED writer
         \/ phase \in {"Connected", "Found"} /\ UNCHANGED writer
              /\ call[c].phase \in {"Queued", "Connected"},
         phase = "Checked" => Accepts(Request(c)) /\ ~Retried(Request(c))
  PROVE  Inv'
  <1> DEFINE new == [call[c] EXCEPT !.phase = phase]
  <1>1. call \in [Calls -> CallRecord] /\ StoreOf(c) \in Stores
    BY DEF Inv, TypeOK, CallRecord, LockInv, CallHolds, InClosure
  <1>2. new \in CallRecord
    BY <1>1 DEF CallRecord, Phases
  <1>3. new.phase = phase /\ new.store = StoreOf(c) /\ new.request = Request(c)
          /\ new.waiting = call[c].waiting
    BY <1>1 DEF CallRecord, StoreOf, Request
  <1>4. call' = [call EXCEPT ![c] = new]
    BY DEF SetPhase
  <1> HIDE DEF new
  <1>5. /\ call'[c] = new /\ \A d \in Calls \ {c} : call'[d] = call[d]
        /\ call' \in [Calls -> CallRecord]
    BY <1>1, <1>2, <1>4
  <1>6. TypeOK'
    BY <1>1, <1>5 DEF Inv, TypeOK, CallRecord
  <1>7. LockInv'
    <2> USE SqliteAssumption DEF SqliteAssumption, StoreOf, Request
    <2>1. LocksHaveOwners'
      <3> USE DEF Inv, TypeOK, LockInv, LocksHaveOwners
      <3>1. writer' \in Stores => conn'[writer'] \in {"Switching", "Creating"}
        OBVIOUS
      <3>2. writer' \in Calls => /\ call'[writer'].phase \in {"InTransaction", "Checked"}
                                /\ call'[writer'].request.op \in Writes
        BY <1>1, <1>3, <1>5 DEF CallHolds
      <3>3. \A s \in Stores : mutex'[s] \in Calls =>
                /\ call'[mutex'[s]].phase \in InClosure /\ call'[mutex'[s]].store = s
        BY <1>1, <1>3, <1>5
      <3>4. \A s \in Stores : gate[s] \in Calls =>
                /\ call'[gate[s]].waiting /\ call'[gate[s]].store = s
                /\ call'[gate[s]].phase # "Gate"
        BY <1>1, <1>3, <1>5 DEF InClosure
      <3> QED
        BY <3>1, <3>2, <3>3, <3>4
    <2>2. \A s \in Stores : OpenHolds(s)'
      BY DEF Inv, LockInv, OpenHolds
    <2>3. CallHolds(c)'
      BY <1>1, <1>3, <1>5 DEF Inv, TypeOK, LockInv, CallHolds, InClosure
    <2>4. \A d \in Calls \ {c} : CallHolds(d)'
      BY <1>1, <1>5 DEF Inv, TypeOK, LockInv, CallHolds, InClosure
    <2> QED
      BY <2>1, <2>2, <2>3, <2>4 DEF LockInv
  <1>8. CheckHolds(c)'
    <2>1. CASE phase # "Checked"
      BY <1>3, <1>5, <2>1 DEF CheckHolds
    <2>2. CASE phase = "Checked"
      <3>1. Request(c)' = Request(c) /\ call'[c].request = call[c].request
        BY <1>3, <1>5 DEF Request
      <3>2. ~Retried(Request(c))'
        BY <2>2, <3>1 DEF Retried, Request
      <3>3. Accepts(Request(c))'
        BY <2>2, <3>1 DEF Accepts, Request
      <3> QED
        BY <3>2, <3>3 DEF CheckHolds
    <2> QED
      BY <2>1, <2>2
  <1>9. \A d \in Calls \ {c} : CheckHolds(d)'
    BY <1>5, CheckKept
  <1> QED
    BY <1>6, <1>7, <1>8, <1>9 DEF Inv
-----------------------------------------------------------------------------
\* Each step of a closure ends it, moves it on, or finds the mutex poisoned.
LEMMA ConnectInv ==
  ASSUME Inv, NEW c \in Calls, Connect(c)
  PROVE  Inv'
  <1> USE DEF file
  <1>1. CASE ~poisoned[StoreOf(c)]
    BY <1>1, MoveInv DEF Connect, InClosure
  <1>2. CASE poisoned[StoreOf(c)]
    <2> DEFINE new == IF call[c].waiting
                        THEN [call[c] EXCEPT !.phase = "Closed", !.outcome = "Internal",
                                             !.gone = FALSE]
                        ELSE NoCall
    <2>1. /\ UNCHANGED <<runs, events, wal, schema, writer, openLock, conn, gate, mutex, poisoned>>
          /\ call' = [call EXCEPT ![c] = new] /\ call[c].phase = "Queued"
      BY <1>2 DEF Connect, Settle
    <2>2. call \in [Calls -> CallRecord]
      BY DEF Inv, TypeOK, CallRecord
    <2>3. new \in CallRecord
      BY <2>2, NoCallTyped DEF CallRecord, Phases, Outcomes
    <2>4. /\ new.phase \notin InClosure \cup {"Gate", "Queued"}
          /\ call[c].waiting => new.phase = "Closed" /\ new.waiting /\ new.store = StoreOf(c)
          /\ ~call[c].waiting => ~new.waiting
      BY <2>2 DEF InClosure, NoCall, CallRecord, StoreOf
    <2> HIDE DEF new
    <2>5. /\ call'[c] = new /\ \A d \in Calls \ {c} : call'[d] = call[d]
          /\ call' \in [Calls -> CallRecord]
      BY <2>1, <2>2, <2>3
    <2>6. TypeOK'
      BY <2>1, <2>5 DEF Inv, TypeOK, CallRecord
    <2>7. LockInv'
      BY <2>1, <2>4, <2>5
      DEF Inv, TypeOK, LockInv, LocksHaveOwners, OpenHolds, CallHolds, InClosure, StoreOf, Request
    <2>8. \A d \in Calls : CheckHolds(d)'
      BY <2>1, <2>4, <2>5, CheckKept DEF InClosure
    <2> QED
      BY <2>6, <2>7, <2>8 DEF Inv
  <1> QED
    BY <1>1, <1>2

LEMMA ClosureInv ==
  ASSUME Inv, NEW c \in Calls, Closure(c) \/ StatementFails(c) \/ Panic(c)
  PROVE  Inv'
  <1> USE DEF file
  <1>1. {"Ok", "Refused", "Internal"} \subseteq Outcomes
    BY DEF Outcomes
  <1>2. /\ runs \in [RunIds -> Run \cup {NoRun}] /\ events \in [RunIds -> Seq(Envelope)]
        /\ poisoned \in [Stores -> BOOLEAN]
    BY DEF Inv, TypeOK
  <1>3. CASE Connect(c)
    BY <1>3, ConnectInv
  <1>4. CASE Begin(c)
    <2>1. CASE Close(c, "Internal")
      BY <1>1, <1>2, <1>4, <2>1, EndInv DEF Close, Begin, InClosure
    <2>2. CASE ~Close(c, "Internal")
      BY <1>4, <2>2, MoveInv DEF Begin, InClosure, WriteLockFree
    <2> QED
      BY <2>1, <2>2
  <1>5. CASE Check(c)
    <2>1. CASE ~Accepts(Request(c))
      BY <1>1, <1>2, <1>5, <2>1, EndInv DEF Close, Check, InClosure
    <2>2. CASE Accepts(Request(c)) /\ Retried(Request(c))
      BY <1>1, <1>2, <1>5, <2>2, EndInv DEF Close, Check, InClosure
    <2>3. CASE Accepts(Request(c)) /\ ~Retried(Request(c))
      BY <1>5, <2>3, MoveInv DEF Check, InClosure
    <2> QED
      BY <2>1, <2>2, <2>3
  <1>6. CASE Commit(c)
    <2>1. /\ call[c].phase = "Checked" /\ End(c, "Ok", FALSE)
          /\ UNCHANGED <<wal, schema, openLock, conn, gate, poisoned>>
      BY <1>6 DEF Commit, Close
    <2>2. "Checked" \in InClosure
      BY DEF InClosure
    <2> QED
      BY <1>1, <1>2, <1>6, <2>1, <2>2, CommitTypes, EndInv
  <1>7. CASE Select(c)
    BY <1>1, <1>2, <1>7, EndInv DEF Close, Select, InClosure
  <1>8. CASE FindRun(c)
    <2>1. CASE Exists(runs, Request(c).id)
      BY <1>8, <2>1, MoveInv DEF FindRun, InClosure
    <2>2. CASE ~Exists(runs, Request(c).id)
      BY <1>1, <1>2, <1>8, <2>2, EndInv DEF Close, FindRun, InClosure
    <2> QED
      BY <2>1, <2>2
  <1>9. CASE StatementFails(c)
    BY <1>1, <1>2, <1>9, EndInv DEF Close, StatementFails
  <1>10. CASE Panic(c)
    BY <1>1, <1>2, <1>10, EndInv DEF Close, Panic
  <1>11. CASE SelectEvents(c)
    <2>1. /\ call[c].phase \in InClosure /\ End(c, "Ok", ~Exists(runs, Request(c).id))
          /\ UNCHANGED <<file, openLock, conn, gate, poisoned>>
      BY <1>11 DEF SelectEvents, InClosure
    <2>2. CASE Exists(runs, Request(c).id)
      <3>1. End(c, "Ok", FALSE)
        BY <2>1, <2>2 DEF End, Settle, Exists
      <3> QED
        BY <1>1, <1>2, <2>1, <3>1, EndInv
    <2>3. CASE ~Exists(runs, Request(c).id)
      <3>1. End(c, "Ok", TRUE)
        BY <2>1, <2>3 DEF End, Settle, Exists
      <3> QED
        BY <1>1, <1>2, <2>1, <3>1, EndInv
    <2> QED
      BY <2>2, <2>3
  <1> QED
    BY <1>3, <1>4, <1>5, <1>6, <1>7, <1>8, <1>9, <1>10, <1>11 DEF Closure
-----------------------------------------------------------------------------
LEMMA CrashInv ==
  ASSUME Inv, NEW s \in Stores, Crash(s)
  PROVE  Inv'
  <1> USE SqliteAssumption DEF SqliteAssumption, SetConn, file
  <1>1. \A c \in Calls : call'[c] = NoCall \/ (call'[c] = call[c] /\ StoreOf(c) # s)
    BY DEF Crash
  <1>2. TypeOK'
    <2>1. call' \in [Calls -> CallRecord]
      BY <1>1, NoCallTyped DEF Crash, Inv, TypeOK, CallRecord
    <2> QED
      BY <2>1 DEF Crash, Inv, TypeOK, CallRecord
  <1>3. LockInv'
    <2> USE DEF Inv, TypeOK, LockInv, Crash, StoreOf, Request
    <2>1. \A t \in Stores : OpenHolds(t)'
      BY DEF OpenHolds, LocksHaveOwners
    <2>2. \A c \in Calls : CallHolds(c)'
      BY <1>1 DEF CallHolds, NoCall, InClosure
    <2>3. LocksHaveOwners'
      <3> USE DEF LocksHaveOwners
      <3>1. writer' \in Stores => conn'[writer'] \in {"Switching", "Creating"}
        OBVIOUS
      <3>2. writer' \in Calls => /\ call'[writer'].phase \in {"InTransaction", "Checked"}
                                /\ call'[writer'].request.op \in Writes
        BY <1>1
      <3>3. openLock' \in Stores => conn'[openLock'] \in
                {"Configuring", "Switching", "Initializing", "Creating"}
        OBVIOUS
      <3>4. \A t \in Stores : mutex'[t] \in Calls =>
                /\ call'[mutex'[t]].phase \in InClosure /\ call'[mutex'[t]].store = t
        BY <1>1
      <3>5. \A t \in Stores : gate'[t] \in Calls =>
                /\ call'[gate'[t]].waiting /\ call'[gate'[t]].store = t
                /\ call'[gate'[t]].phase # "Gate"
        BY <1>1
      <3> QED
        BY <3>1, <3>2, <3>3, <3>4, <3>5
    <2> QED
      BY <2>1, <2>2, <2>3
  <1>4. \A c \in Calls : CheckHolds(c)'
    BY <1>1, CheckKept DEF Crash, NoCall
  <1> QED
    BY <1>2, <1>3, <1>4 DEF Inv

LEMMA NextInv == Inv /\ [Next]_vars => Inv'
  <1> SUFFICES ASSUME Inv, [Next]_vars PROVE Inv'
    OBVIOUS
  <1>1. ASSUME NEW s \in Stores, open(s) \/ Open(s) \/ Crash(s) PROVE Inv'
    BY <1>1, OpenInv, CrashInv
  <1>2. ASSUME NEW c \in Calls, NEW s \in Stores, NEW r \in Asked, Start(c, s, r) PROVE Inv'
    BY <1>2, StartInv
  <1>3. ASSUME NEW c \in Calls, EnterGate(c) \/ Answer(c) \/ Cancel(c) PROVE Inv'
    BY <1>3, CallerInv
  <1>4. ASSUME NEW c \in Calls, Closure(c) \/ StatementFails(c) \/ Panic(c) PROVE Inv'
    BY <1>4, ClosureInv
  <1>5. CASE UNCHANGED vars
    <2>1. TypeOK' /\ LockInv'
      BY <1>5 DEF vars, Inv, TypeOK, LockInv, LocksHaveOwners, OpenHolds, CallHolds, Request,
                  StoreOf
    <2>2. \A c \in Calls : CheckHolds(c)'
      BY <1>5, CheckKept DEF vars
    <2> QED
      BY <2>1, <2>2 DEF Inv
  <1> QED
    BY <1>1, <1>2, <1>3, <1>4, <1>5 DEF Next

\* The state of instances, locks and calls is well formed in every reachable
\* state, and no checked request goes stale before its commit.
THEOREM SqliteTypeCorrect == Spec => []TypeOK
  <1>1. Inv => TypeOK
    BY DEF Inv
  <1> QED
    BY <1>1, InitInv, NextInv, PTL DEF Spec

\* Whoever holds the write lock, a mutex, an operation gate or the sidecar
\* lock is at a place where it gives it back, whatever failed or was cancelled.
THEOREM NoLockLeftBehind == Spec => []LocksHaveOwners
  <1>1. Inv => LocksHaveOwners
    BY DEF Inv, LockInv
  <1> QED
    BY <1>1, InitInv, NextInv, PTL DEF Spec

\* No open fails because another instance switches the journal mode: the
\* sidecar lock keeps opens apart, and calls run on a file in WAL mode.
THEOREM OpenIsNeverBusy == Spec => []OpenNeverBusy
  <1>1. Inv => OpenNeverBusy
    BY DEF Inv, LockInv, OpenHolds, OpenNeverBusy
  <1> QED
    BY <1>1, InitInv, NextInv, PTL DEF Spec
-----------------------------------------------------------------------------
\* Every implementation keeps the promise of the trait: the committed rows of
\* any number of instances change one contract operation at a time, as those
\* of the in-memory store do.
THEOREM SqliteImplementsStore == Spec => ImplementsStore
  <1>1. Init => Contract!Init
    BY DEF Init, Contract!Init, NoRun, Contract!NoRun
  <1>2. Inv /\ [Next]_vars => [Contract!Next]_(Contract!vars)
    <2> SUFFICES ASSUME Inv, [Next]_vars
                 PROVE  Contract!Next \/ UNCHANGED <<runs, events>>
      BY DEF Contract!vars
    <2>1. ASSUME NEW c \in Calls, Commit(c) PROVE Contract!Next
      <3> DEFINE r == Request(c)
      <3>1. r \in Asked
        BY <2>1 DEF Inv, LockInv, CallHolds, Commit, InClosure
      <3>2. CASE r.op = "create"
        <4>1. r.id \in RunIds /\ r.run \in Contract!Run
          BY <3>1, <3>2, RequestShapes DEF Run, Contract!Run, Statuses, Contract!Statuses,
             OpenStatuses, Contract!OpenStatuses, TerminalStatuses, Contract!TerminalStatuses,
             NoTime, Contract!NoTime
        <4>2. Contract!create_run(r.id, r.run)
          BY <2>1, <3>2, CommitRows
          DEF Contract!create_run, CanCreate, Contract!CanCreate, AfterCreate,
              Contract!AfterCreate, ValidNewRun, Contract!ValidNewRun, Exists, Contract!Exists,
              NoRun, Contract!NoRun, NoTime, Contract!NoTime, TerminalStatuses,
              Contract!TerminalStatuses
        <4> QED
          BY <4>1, <4>2 DEF Contract!Next
      <3>3. CASE r.op = "append"
        <4>1. r.batch \in Contract!Batches
          BY <3>1, <3>3, RequestShapes DEF Contract!Batches, Envelope, Contract!Envelope
        <4>2. Contract!append_events(r.batch)
          BY <2>1, <3>3, CommitRows
          DEF Contract!append_events, CanAppend, Contract!CanAppend, RunsAfterAppend,
              Contract!RunsAfterAppend, EventsAfterAppend, Contract!EventsAfterAppend,
              NoRun, Contract!NoRun, TerminalStatuses, Contract!TerminalStatuses
        <4> QED
          BY <4>1, <4>2 DEF Contract!Next
      <3>4. CASE r.op = "complete"
        <4>1. r.id \in RunIds /\ r.status \in Contract!Statuses /\ r.at \in Times
          BY <3>1, <3>4, RequestShapes DEF Statuses, Contract!Statuses,
             OpenStatuses, Contract!OpenStatuses, TerminalStatuses, Contract!TerminalStatuses
        <4>2. Contract!complete_run(r.id, r.status, r.at)
          BY <2>1, <3>4, CommitRows
          DEF Contract!complete_run, CanComplete, Contract!CanComplete, AfterComplete,
              Contract!AfterComplete, Exists, Contract!Exists, NoRun, Contract!NoRun,
              NoTime, Contract!NoTime, TerminalStatuses, Contract!TerminalStatuses
        <4> QED
          BY <4>1, <4>2 DEF Contract!Next
      <3>5. CASE r.op = "delete"
        <4>1. r.id \in RunIds
          BY <3>1, <3>5, RequestShapes
        <4>2. Contract!delete_run(r.id)
          BY <2>1, <3>5, CommitRows
          DEF Contract!delete_run, RunsAfterDelete, Contract!RunsAfterDelete,
              EventsAfterDelete, Contract!EventsAfterDelete, NoRun, Contract!NoRun
        <4> QED
          BY <4>1, <4>2 DEF Contract!Next
      <3> QED
        BY <2>1, <3>2, <3>3, <3>4, <3>5, CommitRows
    <2>2. ASSUME NEW s \in Stores, open(s) \/ Open(s) \/ Crash(s)
          PROVE  UNCHANGED <<runs, events>>
      BY <2>2 DEF open, Open, AcquireOpenLock, OpenLockTimeout, StartConfigure, SwitchJournal,
                  BeginSchema, CommitSchema, Crash, file
    <2>3. ASSUME NEW c \in Calls, NEW s \in Stores, NEW r \in Asked, Start(c, s, r)
          PROVE  UNCHANGED <<runs, events>>
      BY <2>3 DEF Start, file
    <2>4. ASSUME NEW c \in Calls,
                 EnterGate(c) \/ Answer(c) \/ Cancel(c) \/ StatementFails(c) \/ Panic(c)
          PROVE  UNCHANGED <<runs, events>>
      BY <2>4 DEF EnterGate, Answer, Cancel, StatementFails, Panic, file
    <2>5. ASSUME NEW c \in Calls, Closure(c), ~Commit(c)
          PROVE  UNCHANGED <<runs, events>>
      BY <2>5 DEF Closure, Connect, Begin, Check, Select, FindRun, SelectEvents, file
    <2>6. CASE UNCHANGED vars
      BY <2>6 DEF vars
    <2> QED
      BY <2>1, <2>2, <2>3, <2>4, <2>5, <2>6 DEF Next
  <1> QED
    BY <1>1, <1>2, InitInv, NextInv, PTL DEF Spec, ImplementsStore, Contract!Spec
=============================================================================
