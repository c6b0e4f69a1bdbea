--------------------------- MODULE StoreRecorder ---------------------------
(***************************************************************************)
(* StoreExplainabilityRecorder and its sink                                *)
(* (crates/graphloom/src/explainability/store_recorder.rs): callers on any *)
(* Tokio task send commands through one bounded queue to one writer task,  *)
(* which owns sequence numbers and the store.                              *)
(*                                                                         *)
(* One action is one step between two points where another task can run:   *)
(* an await, an atomic load or store, or a channel operation.  A caller's  *)
(* `phase' is the await it is at.                                          *)
(***************************************************************************)
EXTENDS Integers, Sequences, FiniteSets

CONSTANTS Callers,        \* tasks that use the recorder or its sink
          RunIds,
          Nobody,         \* not a caller: a free semaphore, a dropped oneshot
          QueueCapacity,  \* bound of the mpsc channel
          MaxCalls        \* bound of the model: calls begun in a behaviour

ASSUME RecorderAssumption ==
    /\ RunIds # {}
    /\ Nobody \notin Callers
    /\ QueueCapacity \in Nat \ {0}
    /\ MaxCalls \in Nat

VARIABLES
    phase,         \* caller -> the await its call is at
    op,            \* caller -> the operation of its current or last call
    on,            \* caller -> the run of that call
    answer,        \* caller -> what its oneshot holds
    result,        \* caller -> result of its last call
    calls,         \* calls begun so far
    handle,        \* the recorder value: held, moved into shutdown, dropped
    admission,     \* holder of the recorder's semaphore
    runAdmission,  \* run -> holder of its gate's semaphore
    gate,          \* run -> state of its RunGate, "Absent" before it is added
    writerStatus,  \* the shared AtomicU8
    open,          \* the writer's receiver has not been dropped
    queue,         \* commands sent and not yet received
    wphase,        \* where the writer task is
    current,       \* the command it is processing
    reply,         \* its answer to that command
    outcome,       \* how run_writer returned
    sequences,     \* writer-owned last sequence per run
    finishedRuns,  \* writer-owned set
    stored,        \* store metadata: run -> "NoRun" or its status
    events,        \* store events: run -> sequence of [sequence, record]
    live,          \* runs registered with the live hub
    accepted,      \* history: run -> number of records whose emit was accepted
    acknowledged   \* history: runs whose create_run returned Ok

callVars == <<phase, op, on, answer, result>>
handleVars == <<calls, handle>>
gateVars == <<admission, runAdmission, gate>>
channelVars == <<open, queue>>
writerVars == <<wphase, current, reply, outcome, sequences, finishedRuns>>
storeVars == <<stored, events, live>>
historyVars == <<accepted, acknowledged>>
vars == <<callVars, handleVars, gateVars, writerStatus, channelVars,
          writerVars, storeVars, historyVars>>

Ops == {"None", "Create", "Emit", "Finish", "Complete", "Shutdown"}
Phases == {"Idle", "RunAdmission", "Admission", "Reserve", "Commit", "Send",
           "Wait", "Watch", "Join"}
WriterPhases == {"Receive", "Execute", "Register", "CommitSequence", "Respond",
                 "Unwind", "Guard", "Exited"}
Answers == {"None", "Ok", "Error", "Dropped", "SendFailed"}
Results == {"None", "Ok", "Error", "Cancelled", "RecordNotAccepted", "RunFinalizationFailed",
            "RunNotRegistered", "RunNotFinalized", "WriterFailed", "Closed",
            "ShutdownCommand", "WriterEnded", "WriterError"}
GateStates == {"Absent", "Active", "Finishing", "Finished", "FailedWriter", "FailedClosed"}

\* A command: its run, the caller whose oneshot it holds (Nobody when it has
\* none or its receiver is gone) and, for Emit, the record.  A record is named
\* by its place among the accepted records of its run.
Command == [op : Ops, run : RunIds, caller : Callers \cup {Nobody}, record : Nat]
NoCommand == [op |-> "None"]

Init ==
    /\ phase = [c \in Callers |-> "Idle"]
    /\ op = [c \in Callers |-> "None"]
    /\ on = [c \in Callers |-> CHOOSE r \in RunIds : TRUE]
    /\ answer = [c \in Callers |-> "None"]
    /\ result = [c \in Callers |-> "None"]
    /\ calls = 0
    /\ handle = "Held"
    /\ admission = Nobody
    /\ runAdmission = [r \in RunIds |-> Nobody]
    /\ gate = [r \in RunIds |-> "Absent"]
    /\ writerStatus = "Running"
    /\ open = TRUE
    /\ queue = <<>>
    /\ wphase = "Receive"
    /\ current = NoCommand
    /\ reply = "None"
    /\ outcome = "None"
    /\ sequences = [r \in RunIds |-> 0]
    /\ finishedRuns = {}
    /\ stored = [r \in RunIds |-> "NoRun"]
    /\ events = [r \in RunIds |-> <<>>]
    /\ live = {}
    /\ accepted = [r \in RunIds |-> 0]
    /\ acknowledged = {}
-----------------------------------------------------------------------------
\* Callers

\* Mutant: the gate code leaks out as the error.
WriterErrorAsGate == IF writerStatus = "Failed" THEN "FailedWriter" ELSE "FailedClosed"
WriterError == IF writerStatus = "Failed" THEN "WriterFailed" ELSE "Closed"
FailedGate == IF writerStatus = "Failed" THEN "FailedWriter" ELSE "FailedClosed"
\* Mutant: a run that is still finishing counts as finished.
FinishStateResultEarly(state) ==
    IF state \in {"Finishing", "Finished"} THEN "Ok" ELSE "WriterFailed"
FinishStateResult(state) ==
    CASE state = "Finished" -> "Ok"
      [] state = "FailedWriter" -> "WriterFailed"
      [] state = "FailedClosed" -> "Closed"
      [] OTHER -> "RunFinalizationFailed"

\* Drop whatever permits caller c holds.
\* Mutant: the recorder's permit leaks.
ReleaseLeaks(c) ==
    /\ admission' = admission
    /\ runAdmission' = [r \in RunIds |-> IF runAdmission[r] = c THEN Nobody ELSE runAdmission[r]]
Release(c) ==
    /\ admission' = IF admission = c THEN Nobody ELSE admission
    /\ runAdmission' = [r \in RunIds |-> IF runAdmission[r] = c THEN Nobody ELSE runAdmission[r]]

Return(c, res) ==
    /\ phase' = [phase EXCEPT ![c] = "Idle"]
    /\ result' = [result EXCEPT ![c] = res]
    /\ Release(c)
    /\ UNCHANGED <<op, on, answer>>

GoTo(c, next) ==
    /\ phase' = [phase EXCEPT ![c] = next]
    /\ UNCHANGED <<op, on, answer, result>>

\* A caller may begin o while the borrow checker lets it: shutdown takes the
\* recorder by value, so no create_run or complete_run is pending or follows.
MayBegin(c, o) ==
    /\ phase[c] = "Idle"
    /\ calls < MaxCalls
    /\ handle # "Dropped"
    /\ o \in {"Create", "Complete", "Shutdown"} => handle = "Held"
    /\ o = "Shutdown" =>
           \A d \in Callers : phase[d] # "Idle" => op[d] \notin {"Create", "Complete"}

\* What a call does before its first await: look the run's gate up.
Rejection(o, r) ==
    CASE o = "Emit" /\ gate[r] = "Absent" -> "RecordNotAccepted"
      [] o = "Finish" /\ gate[r] = "Absent" -> "RunFinalizationFailed"
      [] o = "Complete" /\ gate[r] = "Absent" -> "RunNotRegistered"
      [] o = "Complete" /\ gate[r] \notin {"Absent", "Finished"} -> "RunNotFinalized"
      [] OTHER -> "None"

Begin(c, o, r) ==
    /\ MayBegin(c, o)
    /\ o = "Shutdown" => r = on[c]   \* it is about no run
    /\ calls' = calls + 1
    /\ op' = [op EXCEPT ![c] = o]
    /\ on' = [on EXCEPT ![c] = r]
    /\ answer' = [answer EXCEPT ![c] = "None"]
    /\ result' = [result EXCEPT ![c] = Rejection(o, r)]
    /\ phase' = [phase EXCEPT ![c] =
                    IF Rejection(o, r) # "None" THEN "Idle"
                    ELSE IF o \in {"Emit", "Finish"} THEN "RunAdmission" ELSE "Admission"]
    /\ handle' = IF o = "Shutdown" THEN "Consumed" ELSE handle
    /\ UNCHANGED <<gateVars, writerStatus, channelVars, writerVars, storeVars, historyVars>>

\* The first finish_run finishes the run.
FirstFinish(r) == gate[r] = "Active"

\* Acquire the run's own semaphore; finish_run then looks at the gate.
EnterRun(c) ==
    /\ phase[c] = "RunAdmission"
    /\ runAdmission[on[c]] = Nobody
    /\ \/ /\ op[c] = "Emit" \/ FirstFinish(on[c])
          /\ runAdmission' = [runAdmission EXCEPT ![on[c]] = c]
          /\ GoTo(c, "Admission")
          /\ UNCHANGED admission
       \/ /\ op[c] = "Finish" /\ gate[on[c]] = "Finishing"
          /\ GoTo(c, "Watch")
          /\ UNCHANGED <<admission, runAdmission>>
       \/ /\ op[c] = "Finish" /\ gate[on[c]] = "Finished"
          /\ Return(c, "Ok")
       \/ /\ op[c] = "Finish" /\ gate[on[c]] \in {"FailedWriter", "FailedClosed"}
          /\ Return(c, "RunFinalizationFailed")
    /\ UNCHANGED <<handleVars, gate, writerStatus, channelVars, writerVars,
                   storeVars, historyVars>>

\* Give up because the writer no longer runs or its receiver is gone.
GiveUp(c) ==
    \/ /\ op[c] = "Emit"
       /\ Return(c, WriterError)
       /\ UNCHANGED gate
    \/ /\ op[c] = "Finish"
       /\ gate' = [gate EXCEPT ![on[c]] = FailedGate]
       /\ Return(c, WriterError)
    \/ /\ op[c] \in {"Create", "Complete"}
       /\ Return(c, "ShutdownCommand")
       /\ UNCHANGED gate

\* emit looks at the gate only now.  Mutant: it does not look again.
AcceptsAnyway(c) == TRUE
Accepts(c) == op[c] = "Emit" => gate[on[c]] = "Active"

\* Acquire the recorder's semaphore, then check writer status and gate.
Enter(c) ==
    /\ phase[c] = "Admission"
    /\ admission = Nobody
    /\ \/ writerStatus # "Running" /\ GiveUp(c)
       \/ /\ writerStatus # "Running" /\ op[c] = "Shutdown"
          /\ GoTo(c, "Join")
          /\ UNCHANGED gateVars
       \/ /\ writerStatus = "Running"
          /\ ~Accepts(c)
          /\ Return(c, "RecordNotAccepted")
          /\ UNCHANGED gate
       \/ /\ writerStatus = "Running"
          /\ Accepts(c)
          /\ admission' = c
          /\ GoTo(c, "Reserve")
          /\ UNCHANGED <<runAdmission, gate>>
    /\ UNCHANGED <<handleVars, writerStatus, channelVars, writerVars, storeVars, historyVars>>

Slots == Cardinality({c \in Callers : phase[c] \in {"Commit", "Send"}})

\* Wait for a queue slot, or for the channel to be closed.
Reserve(c) ==
    /\ phase[c] = "Reserve"
    /\ \/ /\ open
          /\ Len(queue) + Slots < QueueCapacity
          /\ GoTo(c, IF op[c] \in {"Finish", "Shutdown"} THEN "Commit" ELSE "Send")
          /\ UNCHANGED gateVars
       \/ ~open /\ GiveUp(c)
       \/ /\ ~open /\ op[c] = "Shutdown"
          /\ admission' = Nobody
          /\ phase' = [phase EXCEPT ![c] = "Join"]
          /\ answer' = [answer EXCEPT ![c] = "SendFailed"]
          /\ UNCHANGED <<op, on, result, runAdmission, gate>>
    /\ UNCHANGED <<handleVars, writerStatus, channelVars, writerVars, storeVars, historyVars>>

\* Mutant: shutdown sends its command without closing the recorder first.
StayRunning == UNCHANGED writerStatus
StartClosing == writerStatus' = "Closing"

\* With a slot in hand finish_run closes the gate to further records, and
\* shutdown moves the writer to Closing unless it failed meanwhile.
Commit(c) ==
    /\ phase[c] = "Commit"
    /\ \/ /\ op[c] = "Finish"
          /\ gate' = [gate EXCEPT ![on[c]] = "Finishing"]
          /\ GoTo(c, "Send")
          /\ UNCHANGED <<admission, runAdmission, writerStatus>>
       \/ /\ op[c] = "Shutdown" /\ writerStatus = "Running"
          /\ StartClosing
          /\ GoTo(c, "Send")
          /\ UNCHANGED gateVars
       \/ /\ op[c] = "Shutdown" /\ writerStatus # "Running"
          /\ admission' = Nobody
          /\ GoTo(c, "Join")
          /\ UNCHANGED <<runAdmission, gate, writerStatus>>
    /\ UNCHANGED <<handleVars, channelVars, writerVars, storeVars, historyVars>>

\* Use the slot.  A permit stays valid after the receiver is dropped: its
\* command is then never received, and its oneshot never answered or dropped.
Send(c) ==
    /\ phase[c] = "Send"
    /\ queue' = IF ~open THEN queue
                ELSE Append(queue, [op |-> op[c], run |-> on[c],
                                    caller |-> IF op[c] = "Emit" THEN Nobody ELSE c,
                                    record |-> IF op[c] = "Emit" THEN accepted[on[c]] + 1 ELSE 0])
    /\ \/ /\ op[c] = "Emit"
          /\ accepted' = [accepted EXCEPT ![on[c]] = @ + 1]
          /\ Return(c, "Ok")
       \/ /\ op[c] # "Emit"
          /\ admission' = Nobody
          /\ GoTo(c, "Wait")
          /\ UNCHANGED <<runAdmission, accepted>>
    /\ UNCHANGED <<handleVars, gate, writerStatus, open, writerVars, storeVars, acknowledged>>

\* What a call returns once its oneshot resolved: with the writer's answer, or
\* dropped unanswered.
AnswerResult(c) ==
    IF op[c] = "Finish"
    THEN IF answer[c] = "Ok" THEN "Ok"
         ELSE IF answer[c] = "Error" THEN "RunFinalizationFailed"
         ELSE FinishStateResult(gate[on[c]])
    ELSE IF answer[c] \in {"Ok", "Error"} THEN answer[c] ELSE "WriterEnded"

Answered(c) ==
    /\ phase[c] = "Wait"
    /\ answer[c] # "None"
    /\ \/ /\ op[c] # "Shutdown"
          /\ Return(c, AnswerResult(c))
          /\ acknowledged' = IF op[c] = "Create" /\ answer[c] = "Ok"
                             THEN acknowledged \cup {on[c]} ELSE acknowledged
       \/ /\ op[c] = "Shutdown"
          /\ GoTo(c, "Join")
          /\ UNCHANGED <<admission, runAdmission, acknowledged>>
    /\ UNCHANGED <<handleVars, gate, writerStatus, channelVars, writerVars, storeVars, accepted>>

\* A second finish_run, which found the gate Finishing, watches it settle.
Watch(c) ==
    /\ phase[c] = "Watch"
    /\ gate[on[c]] # "Finishing"
    /\ Return(c, FinishStateResult(gate[on[c]]))
    /\ UNCHANGED <<handleVars, gate, writerStatus, channelVars, writerVars,
                   storeVars, historyVars>>

\* shutdown awaits the writer task.
JoinResult(c) ==
    IF outcome = "Error" THEN "WriterError"
    ELSE IF answer[c] = "SendFailed" THEN "ShutdownCommand"
    ELSE IF answer[c] = "Ok" THEN "Ok"
    ELSE "WriterEnded"
Join(c) ==
    /\ phase[c] = "Join"
    /\ wphase = "Exited"
    /\ Return(c, JoinResult(c))
    /\ UNCHANGED <<handleVars, gate, writerStatus, channelVars, writerVars,
                   storeVars, historyVars>>

Holds(c, cmd) == cmd # NoCommand /\ cmd.caller = c
Forget(c, cmd) == IF Holds(c, cmd) THEN [cmd EXCEPT !.caller = Nobody] ELSE cmd

\* The caller's future is dropped at an await.  A command it sent stays sent,
\* but the receiving half of its oneshot is gone.
Cancel(c) ==
    /\ phase[c] \in {"RunAdmission", "Admission", "Reserve", "Wait", "Watch", "Join"}
    /\ Return(c, "Cancelled")
    /\ queue' = [i \in DOMAIN queue |-> Forget(c, queue[i])]
    /\ current' = Forget(c, current)
    /\ UNCHANGED <<handleVars, gate, writerStatus, open, wphase, reply, outcome, sequences,
                   finishedRuns, storeVars, historyVars>>

\* The recorder and every sink handle are dropped without a shutdown.
DropHandles ==
    /\ handle # "Dropped"
    /\ \A c \in Callers : phase[c] = "Idle"
    /\ handle' = "Dropped"
    /\ UNCHANGED <<callVars, calls, gateVars, writerStatus, channelVars,
                   writerVars, storeVars, historyVars>>
-----------------------------------------------------------------------------
\* Writer

Receive ==
    /\ wphase = "Receive"
    /\ queue # <<>>
    /\ current' = Head(queue)
    /\ queue' = Tail(queue)
    /\ wphase' = "Execute"
    /\ UNCHANGED <<callVars, handleVars, gateVars, writerStatus, open, reply, outcome,
                   sequences, finishedRuns, storeVars, historyVars>>

\* recv returns None: the queue is drained and no sender is left.
ChannelClosed ==
    /\ wphase = "Receive"
    /\ queue = <<>>
    /\ handle = "Dropped"
    /\ writerStatus' = "Failed"
    /\ outcome' = "Error"
    /\ wphase' = "Unwind"
    /\ UNCHANGED <<callVars, handleVars, gateVars, channelVars, current, reply,
                   sequences, finishedRuns, storeVars, historyVars>>

Executing(o) == wphase = "Execute" /\ current.op = o

Reply(res) == reply' = res /\ wphase' = "Respond"

\* The store may refuse or fail any call.  What it would refuse is not guarded
\* against here: ImplementsStore shows that no such call is made.

\* create_run_for_writer: refuse a registered run, then ask the store; only
\* then register with the hub and add the gate.
CreateInStore ==
    /\ Executing("Create")
    /\ \/ /\ gate[current.run] = "Absent"
          /\ stored' = [stored EXCEPT ![current.run] = "Running"]
          /\ wphase' = "Register"
          /\ UNCHANGED reply
       \/ Reply("Error") /\ UNCHANGED stored
    /\ UNCHANGED <<callVars, handleVars, gateVars, writerStatus, channelVars, current,
                   outcome, sequences, finishedRuns, events, live, historyVars>>

RegisterRun ==
    /\ wphase = "Register"
    /\ live' = live \cup {current.run}
    /\ gate' = [gate EXCEPT ![current.run] = "Active"]
    /\ Reply("Ok")
    /\ UNCHANGED <<callVars, handleVars, admission, runAdmission, writerStatus, channelVars,
                   current, outcome, sequences, finishedRuns, stored, events, historyVars>>

\* persist_record: append under the writer's next sequence, then commit it.
CanPersist(r) == gate[r] # "Absent" /\ r \notin finishedRuns

AppendToStore ==
    /\ Executing("Emit")
    /\ CanPersist(current.run)
    /\ events' = [events EXCEPT ![current.run] =
                     Append(@, [sequence |-> sequences[current.run] + 1, record |-> current.record])]
    /\ wphase' = "CommitSequence"
    /\ UNCHANGED <<callVars, handleVars, gateVars, writerStatus, channelVars, current, reply,
                   outcome, sequences, finishedRuns, stored, live, historyVars>>

\* Mutant: the sequence is not advanced.
CommitNothing ==
    /\ wphase = "CommitSequence"
    /\ current' = NoCommand
    /\ wphase' = "Receive"
    /\ UNCHANGED <<callVars, handleVars, gateVars, writerStatus, channelVars, reply,
                   outcome, sequences, finishedRuns, storeVars, historyVars>>
CommitSequence ==
    /\ wphase = "CommitSequence"
    /\ sequences' = [sequences EXCEPT ![current.run] = @ + 1]
    /\ current' = NoCommand
    /\ wphase' = "Receive"
    /\ UNCHANGED <<callVars, handleVars, gateVars, writerStatus, channelVars, reply,
                   outcome, finishedRuns, storeVars, historyVars>>

\* The record is refused, or the store fails: the writer fails with it.
\* Mutant: the failure is dropped and the writer goes on.
AppendFailureIgnored ==
    /\ Executing("Emit")
    /\ wphase' = "Receive"
    /\ UNCHANGED <<callVars, handleVars, gateVars, writerStatus, channelVars, current, reply,
                   outcome, sequences, finishedRuns, storeVars, historyVars>>
AppendFails ==
    /\ Executing("Emit")
    /\ writerStatus' = "Failed"
    /\ outcome' = "Error"
    /\ wphase' = "Unwind"
    /\ UNCHANGED <<callVars, handleVars, gateVars, channelVars, current, reply,
                   sequences, finishedRuns, storeVars, historyVars>>

FinishRun ==
    /\ Executing("Finish")
    /\ \/ /\ gate[current.run] = "Finishing"
          /\ finishedRuns' = finishedRuns \cup {current.run}
          /\ gate' = [gate EXCEPT ![current.run] = "Finished"]
          /\ live' = live \ {current.run}
          /\ Reply("Ok")
       \/ /\ gate[current.run] # "Finishing"
          /\ Reply("Error")
          /\ UNCHANGED <<finishedRuns, gate, live>>
    /\ UNCHANGED <<callVars, handleVars, admission, runAdmission, writerStatus, channelVars,
                   current, outcome, sequences, stored, events, historyVars>>

\* complete_run_for_writer; of a completed run only an exact retry succeeds.
CompleteInStore ==
    /\ Executing("Complete")
    /\ \/ /\ current.run \in finishedRuns
          /\ stored' = [stored EXCEPT ![current.run] = "Completed"]
          /\ Reply("Ok")
       \/ Reply("Error") /\ UNCHANGED stored
    /\ UNCHANGED <<callVars, handleVars, gateVars, writerStatus, channelVars, current,
                   outcome, sequences, finishedRuns, events, live, historyVars>>

\* close_live_runs closes the channel of every run in the gate map.
CloseLiveRuns == live' = live \ {r \in RunIds : gate[r] # "Absent"}

CloseWriter ==
    /\ Executing("Shutdown")
    /\ CloseLiveRuns
    /\ writerStatus' = "Closed"
    /\ Reply("Ok")
    /\ UNCHANGED <<callVars, handleVars, gateVars, channelVars, current, outcome,
                   sequences, finishedRuns, stored, events, historyVars>>

Respond ==
    /\ wphase = "Respond"
    /\ answer' = [c \in Callers |-> IF Holds(c, current) THEN reply ELSE answer[c]]
    /\ reply' = "None"
    /\ current' = NoCommand
    /\ IF current.op = "Shutdown"
       THEN wphase' = "Unwind" /\ outcome' = "Ok"
       ELSE wphase' = "Receive" /\ UNCHANGED outcome
    /\ UNCHANGED <<phase, op, on, result, handleVars, gateVars, writerStatus, channelVars,
                   sequences, finishedRuns, storeVars, historyVars>>

\* A store call panics and unwinds the task before any status is stored.
Panic ==
    /\ wphase = "Execute" /\ current.op \in {"Create", "Emit", "Complete"}
    /\ wphase' = "Unwind"
    /\ outcome' = "Error"
    /\ UNCHANGED <<callVars, handleVars, gateVars, writerStatus, channelVars, current, reply,
                   sequences, finishedRuns, storeVars, historyVars>>

\* run_writer's locals drop: the receiver and the queued commands, with the
\* oneshot senders they own, and that of a command interrupted by a panic.
DropReceiver ==
    /\ wphase = "Unwind"
    /\ open' = FALSE
    /\ queue' = <<>>
    /\ answer' = [c \in Callers |->
                     IF Holds(c, current) \/ \E i \in DOMAIN queue : Holds(c, queue[i])
                     THEN "Dropped" ELSE answer[c]]
    /\ current' = NoCommand
    /\ wphase' = "Guard"
    /\ UNCHANGED <<phase, op, on, result, handleVars, gateVars, writerStatus, reply,
                   outcome, sequences, finishedRuns, storeVars, historyVars>>

\* WriterStatusGuard::drop, last of all.
GuardDrop ==
    /\ wphase = "Guard"
    /\ wphase' = "Exited"
    /\ \/ /\ writerStatus = "Closed"
          /\ UNCHANGED <<writerStatus, gate, live>>
       \/ /\ writerStatus # "Closed"
          /\ writerStatus' = "Failed"
          /\ gate' = [r \in RunIds |-> IF gate[r] = "Finishing" THEN "FailedWriter" ELSE gate[r]]
          /\ CloseLiveRuns
    /\ UNCHANGED <<callVars, handleVars, admission, runAdmission, channelVars, current, reply,
                   outcome, sequences, finishedRuns, stored, events, historyVars>>
-----------------------------------------------------------------------------
CallerStep(c) ==
    \/ EnterRun(c) \/ Enter(c) \/ Reserve(c) \/ Commit(c) \/ Send(c)
    \/ Answered(c) \/ Watch(c) \/ Join(c)

WriterStep ==
    \/ Receive \/ ChannelClosed \/ CreateInStore \/ RegisterRun \/ AppendToStore
    \/ CommitSequence \/ AppendFails \/ FinishRun \/ CompleteInStore \/ CloseWriter
    \/ Respond \/ Panic \/ DropReceiver \/ GuardDrop

Next ==
    \/ \E c \in Callers, o \in Ops \ {"None"}, r \in RunIds : Begin(c, o, r)
    \/ \E c \in Callers : CallerStep(c) \/ Cancel(c)
    \/ DropHandles
    \/ WriterStep

Spec == Init /\ [][Next]_vars

\* Tokio polls every woken task and its semaphores are FIFO, so a caller that
\* can proceed does, and the writer does not stop between commands.
Fairness == (\A c \in Callers : WF_vars(CallerStep(c))) /\ WF_vars(WriterStep)
FairSpec == Spec /\ Fairness
-----------------------------------------------------------------------------
CallTypes ==
    /\ phase \in [Callers -> Phases]
    /\ op \in [Callers -> Ops]
    /\ on \in [Callers -> RunIds]
    /\ answer \in [Callers -> Answers]
    /\ result \in [Callers -> Results]
HandleTypes ==
    /\ calls \in 0..MaxCalls
    /\ handle \in {"Held", "Consumed", "Dropped"}
GateTypes ==
    /\ admission \in Callers \cup {Nobody}
    /\ runAdmission \in [RunIds -> Callers \cup {Nobody}]
    /\ gate \in [RunIds -> GateStates]
    /\ writerStatus \in {"Running", "Closing", "Closed", "Failed"}
ChannelTypes ==
    /\ open \in BOOLEAN
    /\ queue \in Seq(Command)
WriterTypes ==
    /\ wphase \in WriterPhases
    /\ current \in Command \cup {NoCommand}
    /\ wphase \in {"Execute", "Register", "CommitSequence", "Respond"} => current \in Command
    /\ reply \in {"None", "Ok", "Error"}
    /\ outcome \in {"None", "Ok", "Error"}
    /\ sequences \in [RunIds -> Nat]
    /\ finishedRuns \subseteq RunIds
StoreTypes ==
    /\ stored \in [RunIds -> {"NoRun", "Running", "Completed"}]
    /\ events \in [RunIds -> Seq([sequence : Nat, record : Nat])]
    /\ live \subseteq RunIds
HistoryTypes ==
    /\ accepted \in [RunIds -> Nat]
    /\ acknowledged \subseteq RunIds

\* Every variable holds values the code has names for, and the writer has a
\* command in hand whenever it is processing one.
TypeOK ==
    /\ CallTypes /\ HandleTypes /\ GateTypes /\ ChannelTypes
    /\ WriterTypes /\ StoreTypes /\ HistoryTypes

\* What a run has in the store is a prefix of what its emits were accepted
\* with, in acceptance order and numbered 1, 2, 3...: no record is lost from
\* the middle, duplicated or overtaken, whoever emitted it and whoever gave up.
PersistedInAcceptedOrder ==
    \A r \in RunIds :
        /\ Len(events[r]) <= accepted[r]
        /\ \A i \in DOMAIN events[r] : events[r][i] = [sequence |-> i, record |-> i]

\* finish_run is a persistence barrier: once it returned Ok to one caller, or
\* the gate shows Finished to any, every accepted record of the run is stored.
FinishBarrier ==
    /\ \A r \in RunIds : gate[r] = "Finished" => Len(events[r]) = accepted[r]
    /\ \A c \in Callers :
           op[c] = "Finish" /\ phase[c] = "Idle" /\ result[c] = "Ok" => gate[on[c]] = "Finished"

\* Nothing queued can reach the writer too late: no record of a run behind its
\* FinishRun or after it was finished, and nothing at all behind Shutdown.
NothingQueuedTooLate ==
    /\ \A i, j \in DOMAIN queue : i < j =>
           /\ queue[i].op # "Shutdown"
           /\ queue[i].op = "Finish" /\ queue[j].op = "Emit" => queue[i].run # queue[j].run
    /\ \A i \in DOMAIN queue : queue[i].op = "Emit" => queue[i].run \notin finishedRuns

\* Shutdown drains: when the writer returned Ok every accepted record is in the
\* store, the queue is empty and no caller is left without an answer.
CleanShutdownDrains ==
    outcome = "Ok" =>
        /\ queue = <<>>
        /\ \A r \in RunIds : Len(events[r]) = accepted[r]
        /\ \A c \in Callers : phase[c] = "Wait" => answer[c] # "None"

\* A settled gate never changes, a gate never becomes Active again, and it is
\* Finished only by the writer, while Finishing.
GateNeverReopens ==
    [][\A r \in RunIds :
          /\ gate[r] \in {"Finished", "FailedWriter", "FailedClosed"} => gate'[r] = gate[r]
          /\ gate[r] # "Absent" => gate'[r] \notin {"Absent", "Active"} \/ gate'[r] = gate[r]
          /\ gate'[r] = "Finished" => gate[r] \in {"Finishing", "Finished"}]_vars

\* The recorder, seen per run, is a reliable log (ReliableLog).
Log == INSTANCE ReliableLog WITH
    Runs <- RunIds,
    state <- [r \in RunIds |->
                 IF stored[r] = "Completed" THEN "Completed"
                 ELSE IF gate[r] = "Finished" THEN "Finished"
                 ELSE IF gate[r] # "Absent" THEN "Open" ELSE "Absent"],
    persisted <- [r \in RunIds |-> Len(events[r])],
    accepted <- accepted

\* Whatever the interleaving, emit, finish_run and complete_run act on a run as
\* the steps of the reliable log do.
ImplementsReliableLog == Log!Spec

\* The calls the writer makes on the store are calls the store contract
\* accepts: the writer's numbering never conflicts with the stored history, and
\* nothing is appended to a completed run.  (All runs here start at time 0.)
Store == INSTANCE ExplainabilityStore WITH
    RunIds <- RunIds,
    Kinds <- {"Query"}, Methods <- {"None"}, Times <- {0},
    Records <- 1..MaxCalls, MaxSequence <- MaxCalls, MaxBatch <- 1,
    runs <- [r \in RunIds |->
                IF stored[r] = "NoRun" THEN [status |-> "NoRun"]
                ELSE [kind |-> "Query", method |-> "None", status |-> stored[r],
                      startedAt |-> 0, completedAt |-> IF stored[r] = "Completed" THEN 0 ELSE -1,
                      eventCount |-> Len(events[r])]],
    events <- [r \in RunIds |->
                [i \in DOMAIN events[r] |->
                    [run |-> r, sequence |-> events[r][i].sequence,
                     record |-> events[r][i].record]]]
ImplementsStore == Store!Spec

\* A command sent on a slot reserved before the receiver was dropped, and the
\* calls queued behind the permit its sender still holds.
Unanswerable(c) == ~open /\ phase[c] = "Wait" /\ answer[c] = "None"
Stranded(c) ==
    \/ Unanswerable(c)
    \/ phase[c] = "Watch" /\ wphase = "Exited" /\ gate[on[c]] = "Finishing"
    \/ phase[c] = "RunAdmission" /\ \E d \in Callers : runAdmission[on[c]] = d /\ Unanswerable(d)

\* Every call returns, writer failures included, unless its command was sent
\* to a receiver dropped after the slot was reserved.
CallsReturnUnlessStranded ==
    \A c \in Callers : phase[c] # "Idle" ~> (phase[c] = "Idle" \/ Stranded(c))

\* An accepted record is persisted, or the writer fails: none is forgotten.
AcceptedIsPersistedOrFails ==
    \A r \in RunIds, n \in 1..MaxCalls :
        accepted[r] >= n ~> (Len(events[r]) >= n \/ writerStatus = "Failed")

\* "writer ... errors must be returned to the caller": a finish_run that
\* waits for the writer always gets an answer.
FinishRunReturns ==
    \A c \in Callers : (op[c] = "Finish" /\ phase[c] = "Wait") ~> phase[c] = "Idle"
=============================================================================
