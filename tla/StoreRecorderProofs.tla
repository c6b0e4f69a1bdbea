------------------------ MODULE StoreRecorderProofs ------------------------
(***************************************************************************)
(* The types of StoreRecorder, its inductive invariant RecorderInv and     *)
(* with it the safety properties the runs check; that it implements        *)
(* ReliableLog and calls ExplainabilityStore as its contract allows, and   *)
(* that gates never reopen: for any callers, runs, queue capacity and      *)
(* number of calls.                                                        *)
(***************************************************************************)
EXTENDS StoreRecorderInvariant, TLAPS, SequenceTheorems, FiniteSetTheorems

\* A call that returns or moves on keeps its variables in their types.
LEMMA ReturnTypes ==
    ASSUME TypeOK, NEW c \in Callers, NEW res \in Results, Return(c, res)
    PROVE  /\ CallTypes'
           /\ admission' \in Callers \cup {Nobody}
           /\ runAdmission' \in [RunIds -> Callers \cup {Nobody}]
  BY RecorderAssumption DEF TypeOK, CallTypes, GateTypes, Return, Release, Phases

LEMMA GoToTypes ==
    ASSUME TypeOK, NEW c \in Callers, NEW next \in Phases, GoTo(c, next)
    PROVE  CallTypes'
  BY DEF TypeOK, CallTypes, GoTo

LEMMA GiveUpTypes ==
    ASSUME TypeOK, NEW c \in Callers, GiveUp(c), UNCHANGED writerStatus
    PROVE  CallTypes' /\ GateTypes'
<1> USE DEF GiveUp, WriterError, FailedGate, GateStates, Results
<1>1. CASE op[c] = "Emit" /\ Return(c, WriterError) /\ UNCHANGED gate
  BY <1>1, ReturnTypes DEF TypeOK, GateTypes
<1>2. CASE op[c] = "Finish" /\ gate' = [gate EXCEPT ![on[c]] = FailedGate] /\ Return(c, WriterError)
  BY <1>2, ReturnTypes DEF TypeOK, GateTypes
<1>3. CASE op[c] \in {"Create", "Complete"} /\ Return(c, "ShutdownCommand") /\ UNCHANGED gate
  BY <1>3, ReturnTypes DEF TypeOK, GateTypes
<1>4. QED
  BY <1>1, <1>2, <1>3

\* Every action keeps every variable in its type: callers, the writer and the
\* store only ever hold values the code has names for.
THEOREM TypeCorrect == Spec => []TypeOK
<1>1. Init => TypeOK
  BY RecorderAssumption DEF Init, TypeOK, CallTypes, HandleTypes, GateTypes, ChannelTypes,
     WriterTypes, StoreTypes, HistoryTypes, Phases, Ops, Answers, Results, GateStates,
     WriterPhases, NoCommand
<1>2. TypeOK /\ [Next]_vars => TypeOK'
  <2> SUFFICES ASSUME TypeOK, [Next]_vars PROVE TypeOK'
    OBVIOUS
  <2> USE RecorderAssumption
  <2> USE DEF callVars, handleVars, gateVars, channelVars, writerVars, storeVars, historyVars
  <2> DEFINE Rest == UNCHANGED <<handleVars, channelVars, writerVars, storeVars, historyVars>>
  <2>rest. Rest => HandleTypes' /\ ChannelTypes' /\ WriterTypes' /\ StoreTypes' /\ HistoryTypes'
    BY DEF TypeOK, HandleTypes, ChannelTypes, WriterTypes, StoreTypes, HistoryTypes
  <2>1. ASSUME NEW c \in Callers, NEW o \in Ops \ {"None"}, NEW r \in RunIds, Begin(c, o, r)
        PROVE TypeOK'
    <3>1. CallTypes'
      BY <2>1 DEF TypeOK, CallTypes, Begin, Rejection, Phases, Ops, Answers, Results
    <3>2. HandleTypes'
      BY <2>1 DEF TypeOK, HandleTypes, Begin, MayBegin
    <3>3. GateTypes' /\ ChannelTypes' /\ WriterTypes' /\ StoreTypes' /\ HistoryTypes'
      BY <2>1 DEF TypeOK, GateTypes, ChannelTypes, WriterTypes, StoreTypes, HistoryTypes, Begin
    <3>4. QED
      BY <3>1, <3>2, <3>3 DEF TypeOK
  <2>2. ASSUME NEW c \in Callers, EnterRun(c) PROVE TypeOK'
    <3>1. Rest /\ UNCHANGED <<gate, writerStatus>>
      BY <2>2 DEF EnterRun
    <3>2. CallTypes' /\ GateTypes'
      <4>1. ASSUME runAdmission' = [runAdmission EXCEPT ![on[c]] = c], GoTo(c, "Admission"),
                   UNCHANGED admission
            PROVE CallTypes' /\ GateTypes'
        BY <3>1, <4>1, GoToTypes DEF TypeOK, GateTypes, Phases
      <4>2. ASSUME GoTo(c, "Watch"), UNCHANGED <<admission, runAdmission>>
            PROVE CallTypes' /\ GateTypes'
        BY <3>1, <4>2, GoToTypes DEF TypeOK, GateTypes, Phases
      <4>3. ASSUME NEW res \in Results, Return(c, res)
            PROVE CallTypes' /\ GateTypes'
        BY <3>1, <4>3, ReturnTypes DEF TypeOK, GateTypes
      <4>4. QED
        BY <2>2, <4>1, <4>2, <4>3 DEF EnterRun, Results
    <3>3. QED
      BY <2>rest, <3>1, <3>2 DEF TypeOK
  <2>3. ASSUME NEW c \in Callers, Enter(c) PROVE TypeOK'
    <3>1. Rest /\ UNCHANGED writerStatus
      BY <2>3 DEF Enter
    <3>2. CallTypes' /\ GateTypes'
      <4>1. CASE GiveUp(c)
        BY <3>1, <4>1, GiveUpTypes
      <4>2. CASE GoTo(c, "Join") /\ UNCHANGED <<admission, runAdmission, gate>>
        BY <3>1, <4>2, GoToTypes DEF TypeOK, GateTypes, Phases
      <4>3. CASE Return(c, "RecordNotAccepted") /\ UNCHANGED gate
        BY <3>1, <4>3, ReturnTypes DEF TypeOK, GateTypes, Results
      <4>4. CASE admission' = c /\ GoTo(c, "Reserve") /\ UNCHANGED <<runAdmission, gate>>
        BY <3>1, <4>4, GoToTypes DEF TypeOK, GateTypes, Phases
      <4>5. QED
        BY <2>3, <4>1, <4>2, <4>3, <4>4 DEF Enter
    <3>3. QED
      BY <2>rest, <3>1, <3>2 DEF TypeOK
  <2>4. ASSUME NEW c \in Callers, Reserve(c) PROVE TypeOK'
    <3>1. Rest /\ UNCHANGED writerStatus
      BY <2>4 DEF Reserve
    <3>2. CallTypes' /\ GateTypes'
      <4>1. ASSUME NEW p \in Phases, GoTo(c, p), UNCHANGED <<admission, runAdmission, gate>>
            PROVE CallTypes' /\ GateTypes'
        BY <3>1, <4>1, GoToTypes DEF TypeOK, GateTypes
      <4>2. CASE GiveUp(c)
        BY <3>1, <4>2, GiveUpTypes
      <4>3. ASSUME admission' = Nobody, phase' = [phase EXCEPT ![c] = "Join"],
                   answer' = [answer EXCEPT ![c] = "SendFailed"],
                   UNCHANGED <<op, on, result, runAdmission, gate>>
            PROVE CallTypes' /\ GateTypes'
        BY <3>1, <4>3 DEF TypeOK, CallTypes, GateTypes, Phases, Answers
      <4>4. QED
        BY <2>4, <4>1, <4>2, <4>3 DEF Reserve, Phases
    <3>3. QED
      BY <2>rest, <3>1, <3>2 DEF TypeOK
  <2>5. ASSUME NEW c \in Callers, Commit(c) PROVE TypeOK'
    <3>1. Rest
      BY <2>5 DEF Commit
    <3>2. GateTypes'
      BY <2>5 DEF TypeOK, CallTypes, GateTypes, Commit, StartClosing, GateStates
    <3>3. CallTypes'
      <4>1. \E p \in Phases : GoTo(c, p)
        BY <2>5 DEF Commit, Phases
      <4>2. QED
        BY <4>1, GoToTypes
    <3>4. QED
      BY <2>rest, <3>1, <3>2, <3>3 DEF TypeOK
  <2>6. ASSUME NEW c \in Callers, Send(c) PROVE TypeOK'
    <3>1. HandleTypes' /\ WriterTypes' /\ StoreTypes'
      BY <2>6 DEF Send, TypeOK, HandleTypes, WriterTypes, StoreTypes
    <3>2. ChannelTypes'
      <4> DEFINE cmd == [op |-> op[c], run |-> on[c],
                         caller |-> IF op[c] = "Emit" THEN Nobody ELSE c,
                         record |-> IF op[c] = "Emit" THEN accepted[on[c]] + 1 ELSE 0]
      <4>1. cmd \in Command
        BY DEF TypeOK, CallTypes, HistoryTypes, Command
      <4>2. queue' = IF open THEN Append(queue, cmd) ELSE queue
        BY <2>6 DEF Send, TypeOK, ChannelTypes
      <4> HIDE DEF cmd
      <4>3. QED
        BY <2>6, <4>1, <4>2 DEF Send, TypeOK, ChannelTypes
    <3>3. HistoryTypes'
      BY <2>6 DEF Send, TypeOK, HistoryTypes, CallTypes
    <3>4. CallTypes' /\ GateTypes'
      <4>1. CASE Return(c, "Ok")
        BY <2>6, <4>1, ReturnTypes DEF Send, TypeOK, GateTypes, Results
      <4>2. CASE admission' = Nobody /\ GoTo(c, "Wait") /\ UNCHANGED runAdmission
        BY <2>6, <4>2, GoToTypes DEF Send, TypeOK, GateTypes, Phases
      <4>3. QED
        BY <2>6, <4>1, <4>2 DEF Send
    <3>5. QED
      BY <3>1, <3>2, <3>3, <3>4 DEF TypeOK
  <2>7. ASSUME NEW c \in Callers, Answered(c) PROVE TypeOK'
    <3>1. HandleTypes' /\ ChannelTypes' /\ WriterTypes' /\ StoreTypes'
      BY <2>7 DEF Answered, TypeOK, HandleTypes, ChannelTypes, WriterTypes, StoreTypes
    <3>2. HistoryTypes'
      BY <2>7 DEF Answered, TypeOK, HistoryTypes, CallTypes
    <3>3. CallTypes' /\ GateTypes'
      <4>1. ASSUME NEW res \in Results, Return(c, res) PROVE CallTypes' /\ GateTypes'
        BY <2>7, <4>1, ReturnTypes DEF Answered, TypeOK, GateTypes
      <4>2. CASE GoTo(c, "Join") /\ UNCHANGED <<admission, runAdmission>>
        BY <2>7, <4>2, GoToTypes DEF Answered, TypeOK, GateTypes, Phases
      <4>3. \A x : FinishStateResult(x) \in Results
        BY DEF FinishStateResult, Results
      <4>4. answer[c] # "None" => answer[c] \in {"Ok", "Error", "Dropped", "SendFailed"}
        BY DEF TypeOK, CallTypes, Answers
      <4>5. QED
        BY <2>7, <4>1, <4>2, <4>3, <4>4 DEF Answered, Results, AnswerResult
    <3>4. QED
      BY <3>1, <3>2, <3>3 DEF TypeOK
  <2>8. ASSUME NEW c \in Callers, Watch(c) PROVE TypeOK'
    <3>1. Rest /\ UNCHANGED <<gate, writerStatus>>
      BY <2>8 DEF Watch
    <3>2. FinishStateResult(gate[on[c]]) \in Results
      BY DEF FinishStateResult, Results
    <3>3. QED
      BY <2>8, <2>rest, <3>1, <3>2, ReturnTypes DEF Watch, TypeOK, GateTypes
  <2>9. ASSUME NEW c \in Callers, Join(c) PROVE TypeOK'
    <3>1. Rest /\ UNCHANGED <<gate, writerStatus>>
      BY <2>9 DEF Join
    <3>2. PICK res \in Results : Return(c, res)
      BY <2>9 DEF Join, JoinResult, Results
    <3>3. QED
      BY <2>rest, <3>1, <3>2, ReturnTypes DEF TypeOK, GateTypes
  <2>10. ASSUME NEW c \in Callers, Cancel(c) PROVE TypeOK'
    <3>1. \A cmd \in Command \cup {NoCommand} : Forget(c, cmd) \in Command \cup {NoCommand}
      BY DEF Forget, Holds, Command
    <3>2. \A cmd \in Command : Forget(c, cmd) \in Command
      BY DEF Forget, Holds, Command, NoCommand
    <3>3. ChannelTypes'
      BY <2>10, <3>2 DEF Cancel, TypeOK, ChannelTypes
    <3>4. WriterTypes'
      BY <2>10, <3>1, <3>2 DEF Cancel, TypeOK, WriterTypes
    <3>5. HandleTypes' /\ StoreTypes' /\ HistoryTypes'
      BY <2>10 DEF Cancel, TypeOK, HandleTypes, StoreTypes, HistoryTypes
    <3>6. CallTypes' /\ GateTypes'
      BY <2>10, ReturnTypes DEF Cancel, TypeOK, GateTypes, Results
    <3>7. QED
      BY <3>3, <3>4, <3>5, <3>6 DEF TypeOK
  <2>11. ASSUME DropHandles PROVE TypeOK'
    BY <2>11 DEF DropHandles, TypeOK, CallTypes, HandleTypes, GateTypes, ChannelTypes, WriterTypes,
       StoreTypes, HistoryTypes
  <2>12. ASSUME WriterStep PROVE TypeOK'
    <3>1. ASSUME Receive PROVE TypeOK'
      <4>1. current' \in Command /\ queue' \in Seq(Command)
        BY <3>1 DEF Receive, TypeOK, ChannelTypes
      <4>2. ChannelTypes'
        BY <3>1, <4>1 DEF Receive, TypeOK, ChannelTypes
      <4>3. WriterTypes'
        BY <3>1, <4>1 DEF Receive, WriterPhases, TypeOK, WriterTypes
      <4>4. CallTypes' /\ HandleTypes' /\ GateTypes' /\ StoreTypes' /\ HistoryTypes'
        BY <3>1 DEF Receive, TypeOK, CallTypes, HandleTypes, GateTypes, StoreTypes, HistoryTypes
      <4>5. QED
        BY <4>2, <4>3, <4>4 DEF TypeOK
    <3>2. ASSUME ChannelClosed PROVE TypeOK'
      <4>1. GateTypes'
        BY <3>2 DEF ChannelClosed, TypeOK, GateTypes
      <4>2. WriterTypes'
        BY <3>2 DEF ChannelClosed, WriterPhases, TypeOK, WriterTypes
      <4>3. CallTypes' /\ HandleTypes' /\ ChannelTypes' /\ StoreTypes' /\ HistoryTypes'
        BY <3>2 DEF ChannelClosed, TypeOK, CallTypes, HandleTypes, ChannelTypes, StoreTypes,
           HistoryTypes
      <4>4. QED
        BY <4>1, <4>2, <4>3 DEF TypeOK
    <3>3. ASSUME CreateInStore PROVE TypeOK'
      <4>1. current \in Command /\ current.run \in RunIds
        BY <3>3 DEF CreateInStore, Executing, TypeOK, WriterTypes, Command
      <4>2. WriterTypes'
        BY <3>3, <4>1 DEF CreateInStore, WriterPhases, Executing, Reply, TypeOK, WriterTypes
      <4>3. StoreTypes'
        BY <3>3, <4>1 DEF CreateInStore, Executing, TypeOK, StoreTypes
      <4>4. CallTypes' /\ HandleTypes' /\ GateTypes' /\ ChannelTypes' /\ HistoryTypes'
        BY <3>3 DEF CreateInStore, TypeOK, CallTypes, HandleTypes, GateTypes, ChannelTypes, HistoryTypes
      <4>5. QED
        BY <4>2, <4>3, <4>4 DEF TypeOK
    <3>4. ASSUME RegisterRun PROVE TypeOK'
      <4>1. current \in Command /\ current.run \in RunIds
        BY <3>4 DEF RegisterRun, Executing, TypeOK, WriterTypes, Command
      <4>2. GateTypes'
        BY <3>4, <4>1 DEF RegisterRun, GateStates, TypeOK, GateTypes
      <4>3. WriterTypes'
        BY <3>4, <4>1 DEF RegisterRun, WriterPhases, Reply, TypeOK, WriterTypes
      <4>4. StoreTypes'
        BY <3>4, <4>1 DEF RegisterRun, TypeOK, StoreTypes
      <4>5. CallTypes' /\ HandleTypes' /\ ChannelTypes' /\ HistoryTypes'
        BY <3>4 DEF RegisterRun, TypeOK, CallTypes, HandleTypes, ChannelTypes, HistoryTypes
      <4>6. QED
        BY <4>2, <4>3, <4>4, <4>5 DEF TypeOK
    <3>5. ASSUME AppendToStore PROVE TypeOK'
      <4>1. current \in Command /\ current.run \in RunIds
        BY <3>5 DEF AppendToStore, Executing, TypeOK, WriterTypes, Command
      <4> DEFINE r == current.run
                 e == [sequence |-> sequences[r] + 1, record |-> current.record]
      <4>2. e \in [sequence : Nat, record : Nat]
        BY <4>1 DEF TypeOK, WriterTypes, Command
      <4>3. events' = [events EXCEPT ![r] = Append(events[r], e)]
        BY <3>5 DEF AppendToStore
      <4> HIDE DEF e
      <4>4. events' \in [RunIds -> Seq([sequence : Nat, record : Nat])]
        BY <4>1, <4>2, <4>3 DEF TypeOK, StoreTypes
      <4>5. WriterTypes'
        BY <3>5, <4>1, <4>2, <4>3, <4>4 DEF AppendToStore, WriterPhases, Executing, TypeOK, WriterTypes
      <4>6. StoreTypes'
        BY <3>5, <4>1, <4>2, <4>3, <4>4 DEF AppendToStore, TypeOK, StoreTypes
      <4>7. CallTypes' /\ HandleTypes' /\ GateTypes' /\ ChannelTypes' /\ HistoryTypes'
        BY <3>5 DEF AppendToStore, TypeOK, CallTypes, HandleTypes, GateTypes, ChannelTypes, HistoryTypes
      <4>8. QED
        BY <4>5, <4>6, <4>7 DEF TypeOK
    <3>6. ASSUME CommitSequence PROVE TypeOK'
      <4>1. current \in Command /\ current.run \in RunIds
        BY <3>6 DEF CommitSequence, Executing, TypeOK, WriterTypes, Command
      <4>2. sequences' \in [RunIds -> Nat]
        BY <3>6, <4>1 DEF CommitSequence, TypeOK, WriterTypes
      <4>3. WriterTypes'
        BY <3>6, <4>1, <4>2 DEF CommitSequence, WriterPhases, TypeOK, WriterTypes
      <4>4. CallTypes' /\ HandleTypes' /\ GateTypes' /\ ChannelTypes' /\ StoreTypes' /\ HistoryTypes'
        BY <3>6 DEF CommitSequence, TypeOK, CallTypes, HandleTypes, GateTypes, ChannelTypes,
           StoreTypes, HistoryTypes
      <4>5. QED
        BY <4>3, <4>4 DEF TypeOK
    <3>7. ASSUME AppendFails PROVE TypeOK'
      <4>1. GateTypes'
        BY <3>7 DEF AppendFails, TypeOK, GateTypes
      <4>2. WriterTypes'
        BY <3>7 DEF AppendFails, WriterPhases, TypeOK, WriterTypes
      <4>3. CallTypes' /\ HandleTypes' /\ ChannelTypes' /\ StoreTypes' /\ HistoryTypes'
        BY <3>7 DEF AppendFails, TypeOK, CallTypes, HandleTypes, ChannelTypes, StoreTypes, HistoryTypes
      <4>4. QED
        BY <4>1, <4>2, <4>3 DEF TypeOK
    <3>8. ASSUME FinishRun PROVE TypeOK'
      <4>1. current \in Command /\ current.run \in RunIds
        BY <3>8 DEF FinishRun, Executing, TypeOK, WriterTypes, Command
      <4>2. GateTypes'
        BY <3>8, <4>1 DEF FinishRun, GateStates, TypeOK, GateTypes
      <4>3. WriterTypes'
        BY <3>8, <4>1 DEF FinishRun, WriterPhases, Executing, Reply, TypeOK, WriterTypes
      <4>4. StoreTypes'
        BY <3>8, <4>1 DEF FinishRun, TypeOK, StoreTypes
      <4>5. CallTypes' /\ HandleTypes' /\ ChannelTypes' /\ HistoryTypes'
        BY <3>8 DEF FinishRun, TypeOK, CallTypes, HandleTypes, ChannelTypes, HistoryTypes
      <4>6. QED
        BY <4>2, <4>3, <4>4, <4>5 DEF TypeOK
    <3>9. ASSUME CompleteInStore PROVE TypeOK'
      <4>1. current \in Command /\ current.run \in RunIds
        BY <3>9 DEF CompleteInStore, Executing, TypeOK, WriterTypes, Command
      <4>2. WriterTypes'
        BY <3>9, <4>1 DEF CompleteInStore, WriterPhases, Executing, Reply, TypeOK, WriterTypes
      <4>3. StoreTypes'
        BY <3>9, <4>1 DEF CompleteInStore, TypeOK, StoreTypes
      <4>4. CallTypes' /\ HandleTypes' /\ GateTypes' /\ ChannelTypes' /\ HistoryTypes'
        BY <3>9 DEF CompleteInStore, TypeOK, CallTypes, HandleTypes, GateTypes, ChannelTypes,
           HistoryTypes
      <4>5. QED
        BY <4>2, <4>3, <4>4 DEF TypeOK
    <3>10. ASSUME CloseWriter PROVE TypeOK'
      <4>1. GateTypes'
        BY <3>10 DEF CloseWriter, TypeOK, GateTypes
      <4>2. WriterTypes'
        BY <3>10 DEF CloseWriter, WriterPhases, Executing, Reply, TypeOK, WriterTypes
      <4>3. StoreTypes'
        BY <3>10 DEF CloseWriter, CloseLiveRuns, TypeOK, StoreTypes
      <4>4. CallTypes' /\ HandleTypes' /\ ChannelTypes' /\ HistoryTypes'
        BY <3>10 DEF CloseWriter, TypeOK, CallTypes, HandleTypes, ChannelTypes, HistoryTypes
      <4>5. QED
        BY <4>1, <4>2, <4>3, <4>4 DEF TypeOK
    <3>11. ASSUME Respond PROVE TypeOK'
      <4>1. reply \in Answers
        BY DEF TypeOK, WriterTypes, Answers
      <4>2. CallTypes'
        BY <3>11, <4>1 DEF Respond, Answers, TypeOK, CallTypes
      <4>3. WriterTypes'
        BY <3>11, <4>1 DEF Respond, WriterPhases, TypeOK, WriterTypes
      <4>4. HandleTypes' /\ GateTypes' /\ ChannelTypes' /\ StoreTypes' /\ HistoryTypes'
        BY <3>11 DEF Respond, TypeOK, HandleTypes, GateTypes, ChannelTypes, StoreTypes, HistoryTypes
      <4>5. QED
        BY <4>2, <4>3, <4>4 DEF TypeOK
    <3>12. ASSUME Panic PROVE TypeOK'
      <4>1. WriterTypes'
        BY <3>12 DEF Panic, WriterPhases, TypeOK, WriterTypes
      <4>2. CallTypes' /\ HandleTypes' /\ GateTypes' /\ ChannelTypes' /\ StoreTypes' /\ HistoryTypes'
        BY <3>12 DEF Panic, TypeOK, CallTypes, HandleTypes, GateTypes, ChannelTypes, StoreTypes,
           HistoryTypes
      <4>3. QED
        BY <4>1, <4>2 DEF TypeOK
    <3>13. ASSUME DropReceiver PROVE TypeOK'
      <4>1. queue' \in Seq(Command)
        BY <3>13 DEF DropReceiver
      <4>2. CallTypes'
        BY <3>13, <4>1 DEF DropReceiver, Answers, TypeOK, CallTypes
      <4>3. ChannelTypes'
        BY <3>13, <4>1 DEF DropReceiver, TypeOK, ChannelTypes
      <4>4. WriterTypes'
        BY <3>13, <4>1 DEF DropReceiver, WriterPhases, TypeOK, WriterTypes
      <4>5. HandleTypes' /\ GateTypes' /\ StoreTypes' /\ HistoryTypes'
        BY <3>13 DEF DropReceiver, TypeOK, HandleTypes, GateTypes, StoreTypes, HistoryTypes
      <4>6. QED
        BY <4>2, <4>3, <4>4, <4>5 DEF TypeOK
    <3>14. ASSUME GuardDrop PROVE TypeOK'
      <4>1. GateTypes'
        BY <3>14 DEF GuardDrop, GateStates, TypeOK, GateTypes
      <4>2. WriterTypes'
        BY <3>14 DEF GuardDrop, WriterPhases, TypeOK, WriterTypes
      <4>3. StoreTypes'
        BY <3>14 DEF GuardDrop, CloseLiveRuns, TypeOK, StoreTypes
      <4>4. CallTypes' /\ HandleTypes' /\ ChannelTypes' /\ HistoryTypes'
        BY <3>14 DEF GuardDrop, TypeOK, CallTypes, HandleTypes, ChannelTypes, HistoryTypes
      <4>5. QED
        BY <4>1, <4>2, <4>3, <4>4 DEF TypeOK
    <3>15. QED
      BY <2>12, <3>1, <3>2, <3>3, <3>4, <3>5, <3>6, <3>7, <3>8, <3>9, <3>10, <3>11, <3>12,
         <3>13, <3>14 DEF WriterStep
  <2>13. CASE UNCHANGED vars
    BY <2>13 DEF vars, TypeOK, CallTypes, HandleTypes, GateTypes, ChannelTypes, WriterTypes,
       StoreTypes, HistoryTypes
  <2>14. QED
    BY <2>1, <2>2, <2>3, <2>4, <2>5, <2>6, <2>7, <2>8, <2>9, <2>10, <2>11, <2>12, <2>13
       DEF Next, CallerStep
<1>3. QED
  BY <1>1, <1>2, PTL DEF Spec
-----------------------------------------------------------------------------
\* What the two ways a call moves on do to the parts of the invariant that
\* speak of callers: a call that returns leaves nothing behind ...
LEMMA ReturnExclusion ==
    ASSUME TypeOK, Exclusion, NEW c \in Callers, NEW res, Return(c, res)
    PROVE  Exclusion'
  BY RecorderAssumption DEF TypeOK, CallTypes, GateTypes, Exclusion, Sending, Return, Release

LEMMA ReturnCallerGates ==
    ASSUME TypeOK, CallerGates, NEW c \in Callers, NEW res, Return(c, res),
           UNCHANGED <<gate, open, queue>>,
           op[c] = "Finish" /\ res = "Ok" => gate[on[c]] = "Finished"
    PROVE  CallerGates'
  BY DEF TypeOK, CallTypes, CallerGates, Queued, Return

LEMMA ReturnShutdownLast ==
    ASSUME TypeOK, ShutdownLast, NEW c \in Callers, NEW res, Return(c, res),
           UNCHANGED <<writerStatus, queue, current, outcome>>
    PROVE  ShutdownLast'
  BY DEF TypeOK, CallTypes, ShutdownLast, Sending, Return

LEMMA ReturnOwners ==
    ASSUME TypeOK, Owners, NEW c \in Callers, NEW res, Return(c, res),
           phase[c] # "Wait" \/ answer[c] # "None",
           UNCHANGED <<queue, current, wphase, outcome>>
    PROVE  Owners'
  BY DEF TypeOK, CallTypes, Owners, Owned, Holds, Return

\* ... and a call that moves on keeps what it holds.
LEMMA GoToOwners ==
    ASSUME TypeOK, Owners, NEW c \in Callers, NEW next, GoTo(c, next), next # "Wait",
           phase[c] # "Wait" \/ answer[c] # "None",
           UNCHANGED <<queue, current, wphase, outcome>>
    PROVE  Owners'
  BY DEF TypeOK, CallTypes, Owners, Owned, Holds, GoTo

LEMMA GoToShutdownLast ==
    ASSUME TypeOK, ShutdownLast, NEW c \in Callers, NEW next, GoTo(c, next),
           next \notin {"Reserve", "Commit", "Send"},
           UNCHANGED <<writerStatus, queue, current, outcome>>
    PROVE  ShutdownLast'
  BY DEF TypeOK, CallTypes, ShutdownLast, Sending, GoTo

\* The writer's part of the invariant does not see callers that do not enter
\* Send.
LEMMA WriterGatesFrame ==
    ASSUME WriterGates, UNCHANGED <<open, queue, wphase, current, outcome, gate, events, accepted, reply>>,
           \A c \in Callers : op'[c] = "Finish" /\ phase'[c] = "Send"
               => op[c] = "Finish" /\ phase[c] = "Send" /\ on'[c] = on[c]
    PROVE  WriterGates'
  BY DEF WriterGates, InHand, Queued

\* What is queued or in hand is a command.
LEMMA Commands ==
    ASSUME TypeOK
    PROVE  /\ \A i \in DOMAIN queue : queue[i] \in Command
           /\ current # NoCommand => current \in Command
<1>1. queue \in Seq(Command)
  BY DEF TypeOK, ChannelTypes
<1>2. \A i \in DOMAIN queue : queue[i] \in Command
  BY <1>1
<1>3. QED
  BY <1>2 DEF TypeOK, WriterTypes

\* Who owns a oneshot depends on the calls that wait for one.
LEMMA OwnersFrame ==
    ASSUME TypeOK, Owners, UNCHANGED <<queue, current, wphase, outcome>>,
           \A d \in Callers :
               /\ phase'[d] = "Wait" => phase[d] = "Wait" /\ answer'[d] = answer[d]
               /\ phase[d] = "Wait" /\ answer[d] = "None"
                     => /\ phase'[d] = "Wait" /\ answer'[d] = "None"
                        /\ op'[d] = op[d] /\ on'[d] = on[d]
    PROVE  Owners'
<1>1. /\ \A i \in DOMAIN queue : queue[i].caller \in Callers \cup {Nobody}
      /\ current # NoCommand => current.caller \in Callers \cup {Nobody}
  BY Commands DEF Command
<1>2. \A cmd : cmd.caller \in Callers \cup {Nobody} /\ Owned(cmd) => Owned(cmd)'
  BY DEF Owned
<1>3. \A i \in DOMAIN queue : Owned(queue[i])'
  BY <1>1, <1>2 DEF Owners
<1>4. current # NoCommand => Owned(current)'
  BY <1>1, <1>2 DEF Owners
<1>5. QED
  BY <1>3, <1>4 DEF Owners, Holds

\* The parts about runs depend on the queue, the writer, the gates and the store.
LEMMA RunsFrame ==
    ASSUME RecorderInv,
           UNCHANGED <<queue, wphase, current, outcome, gate, events, accepted, stored,
                       finishedRuns, sequences>>
    PROVE  QueueOrder' /\ QueueGates' /\ RunLogs' /\ NoneMissing'
<1>1. QueueOrder'
  BY DEF RecorderInv, QueueOrder
<1>2. QueueGates'
  BY DEF RecorderInv, QueueGates, QueueGate, Taken, InHand
<1>3. RunLogs'
  <2> SUFFICES ASSUME NEW r \in RunIds PROVE RunLog(r)'
    BY DEF RunLogs
  <2>1. RunLog(r)
    BY DEF RecorderInv, RunLogs
  <2>2. QED
    BY <2>1 DEF RunLog
<1>4. NoneMissing'
  <2>1. \A r, k : InQueue(r, k)' <=> InQueue(r, k)
    BY DEF InQueue
  <2>2. \A r : Taken(r)' = Taken(r)
    BY DEF Taken, InHand
  <2>3. QED
    BY <2>1, <2>2 DEF RecorderInv, NoneMissing
<1>5. QED
  BY <1>1, <1>2, <1>3, <1>4

-----------------------------------------------------------------------------
\* Callers

LEMMA BeginInv ==
    ASSUME TypeOK, RecorderInv, NEW c \in Callers, NEW o \in Ops \ {"None"}, NEW r \in RunIds,
           Begin(c, o, r)
    PROVE  RecorderInv'
<1> USE DEF gateVars, channelVars, writerVars, storeVars, historyVars
<1>1. UNCHANGED <<admission, runAdmission, gate, writerStatus, open, queue, wphase, current, reply,
                  outcome, sequences, finishedRuns, stored, events, live, accepted>>
  BY DEF Begin
<1>2. /\ phase[c] = "Idle"
      /\ phase' = [phase EXCEPT ![c] = phase'[c]]
      /\ op' = [op EXCEPT ![c] = o] /\ on' = [on EXCEPT ![c] = r]
      /\ answer' = [answer EXCEPT ![c] = "None"]
      /\ result'[c] # "Ok"
      /\ \A d \in Callers \ {c} : result'[d] = result[d]
  BY DEF Begin, MayBegin, Rejection, TypeOK, CallTypes
<1>3. /\ phase'[c] \in {"Idle", "RunAdmission", "Admission"}
      /\ phase'[c] = "RunAdmission" => o \in {"Emit", "Finish"} /\ gate[r] # "Absent"
      /\ phase'[c] = "Admission" => o \notin {"Emit", "Finish"}
      /\ o = "Complete" /\ phase'[c] # "Idle" => gate[r] = "Finished"
  <2>1. phase'[c] = IF Rejection(o, r) # "None" THEN "Idle"
                    ELSE IF o \in {"Emit", "Finish"} THEN "RunAdmission" ELSE "Admission"
    BY DEF Begin, TypeOK, CallTypes
  <2>2. Rejection(o, r) = "None" =>
            /\ o \in {"Emit", "Finish"} => gate[r] # "Absent"
            /\ o = "Complete" => gate[r] = "Finished"
    BY DEF Rejection
  <2>3. QED
    BY <2>1, <2>2
<1>4. Exclusion'
  BY <1>1, <1>2, <1>3 DEF RecorderInv, Exclusion, Sending, TypeOK, CallTypes
<1>5. CallerGates'
  BY <1>1, <1>2, <1>3 DEF RecorderInv, CallerGates, Queued, TypeOK, CallTypes
<1>6. ShutdownLast'
  BY <1>1, <1>2, <1>3 DEF RecorderInv, ShutdownLast, Sending, TypeOK, CallTypes
<1>7. QueueOrder' /\ QueueGates' /\ RunLogs' /\ NoneMissing'
  BY <1>1, RunsFrame
<1>8. WriterGates'
  BY <1>1, <1>2, <1>3, WriterGatesFrame DEF RecorderInv, TypeOK, CallTypes
<1>9. Owners'
  BY <1>1, <1>2, <1>3, OwnersFrame DEF RecorderInv, TypeOK, CallTypes
<1>10. QED
  BY <1>4, <1>5, <1>6, <1>7, <1>8, <1>9 DEF RecorderInv

LEMMA EnterRunInv ==
    ASSUME TypeOK, RecorderInv, NEW c \in Callers, EnterRun(c)
    PROVE  RecorderInv'
<1> USE DEF channelVars, writerVars, storeVars, historyVars
<1>1. UNCHANGED <<gate, writerStatus, open, queue, wphase, current, reply,
                  outcome, sequences, finishedRuns, stored, events, live, accepted>>
  BY DEF EnterRun
<1>2. phase[c] = "RunAdmission" /\ op[c] \in {"Emit", "Finish"} /\ gate[on[c]] # "Absent"
  BY DEF EnterRun, RecorderInv, Exclusion, CallerGates
<1>3. CASE /\ op[c] = "Finish" => gate[on[c]] = "Active"
           /\ runAdmission[on[c]] = Nobody
           /\ runAdmission' = [runAdmission EXCEPT ![on[c]] = c]
           /\ GoTo(c, "Admission")
           /\ UNCHANGED admission
  <2>1. Exclusion'
    BY <1>2, <1>3, RecorderAssumption
       DEF RecorderInv, Exclusion, Sending, GoTo, TypeOK, CallTypes, GateTypes
  <2>2. CallerGates'
    BY <1>1, <1>2, <1>3 DEF RecorderInv, CallerGates, Queued, GoTo, TypeOK, CallTypes
  <2>3. ShutdownLast' /\ Owners'
    BY <1>1, <1>2, <1>3, GoToShutdownLast, GoToOwners DEF RecorderInv
  <2>4. WriterGates'
    BY <1>1, <1>3, WriterGatesFrame DEF RecorderInv, GoTo, TypeOK, CallTypes
  <2>5. QED
    BY <1>1, <2>1, <2>2, <2>3, <2>4, RunsFrame DEF RecorderInv
<1>4. CASE GoTo(c, "Watch") /\ UNCHANGED <<admission, runAdmission>>
  <2>1. Exclusion'
    BY <1>2, <1>4 DEF RecorderInv, Exclusion, Sending, GoTo, TypeOK, CallTypes
  <2>2. CallerGates'
    BY <1>1, <1>2, <1>4 DEF RecorderInv, CallerGates, Queued, GoTo, TypeOK, CallTypes
  <2>3. ShutdownLast' /\ Owners'
    BY <1>1, <1>2, <1>4, GoToShutdownLast, GoToOwners DEF RecorderInv
  <2>4. WriterGates'
    BY <1>1, <1>4, WriterGatesFrame DEF RecorderInv, GoTo, TypeOK, CallTypes
  <2>5. QED
    BY <1>1, <2>1, <2>2, <2>3, <2>4, RunsFrame DEF RecorderInv
<1>5. ASSUME NEW res, Return(c, res), res = "Ok" => gate[on[c]] = "Finished"
      PROVE  RecorderInv'
  <2>1. WriterGates'
    BY <1>1, <1>5, WriterGatesFrame DEF RecorderInv, Return, TypeOK, CallTypes
  <2>2. QED
    BY <1>1, <1>2, <1>5, <2>1, RunsFrame, ReturnExclusion, ReturnCallerGates, ReturnShutdownLast,
       ReturnOwners DEF RecorderInv
<1>6. QED
  BY <1>2, <1>3, <1>4, <1>5 DEF EnterRun, FirstFinish
\* finish_run takes its run's gate out of Active: it holds the run's semaphore,
\* so no emit of the run is past its own check of the gate.
LEMMA GateLeavesActive ==
    ASSUME TypeOK, RecorderInv, NEW c \in Callers,
           op[c] = "Finish", phase[c] \in {"Admission", "Reserve", "Commit"},
           NEW g \in {"Finishing", "FailedWriter", "FailedClosed"},
           gate' = [gate EXCEPT ![on[c]] = g],
           UNCHANGED <<op, on, open, queue, wphase, current, reply, outcome, sequences, finishedRuns,
                       stored, events, accepted>>,
           \A d \in Callers \ {c} : phase'[d] = phase[d]
    PROVE  QueueOrder' /\ QueueGates' /\ WriterGates' /\ RunLogs' /\ NoneMissing'
<1>1. /\ gate[on[c]] = "Active" /\ gate'[on[c]] = g
      /\ \A r \in RunIds \ {on[c]} : gate'[r] = gate[r]
  BY DEF RecorderInv, CallerGates, TypeOK, CallTypes, GateTypes
<1>2. QueueOrder'
  BY DEF RecorderInv, QueueOrder
<1>3. QueueGates'
  <2> SUFFICES ASSUME NEW i \in DOMAIN queue PROVE QueueGate(queue[i])'
    BY DEF QueueGates
  <2>1. QueueGate(queue[i]) /\ queue[i].run \in RunIds
    BY Commands DEF RecorderInv, QueueGates, Command
  <2>2. \A r : Taken(r)' = Taken(r)
    BY DEF Taken, InHand
  <2>3. QED
    BY <1>1, <2>1, <2>2 DEF QueueGate
<1>4. WriterGates'
  <2>1. current # NoCommand => current.run \in RunIds
    BY Commands DEF Command
  <2>2. wphase \in {"Execute", "Register", "Respond"} => current # NoCommand
    BY DEF TypeOK, WriterTypes, NoCommand, Command
  <2>3. QED
    BY <1>1, <2>1, <2>2 DEF RecorderInv, WriterGates, InHand, Queued
<1>5. RunLogs'
  <2> SUFFICES ASSUME NEW r \in RunIds PROVE RunLog(r)'
    BY DEF RunLogs
  <2>1. RunLog(r)
    BY DEF RecorderInv, RunLogs
  <2>2. QED
    BY <1>1, <2>1 DEF RunLog
<1>6. NoneMissing'
  <2>1. \A r, k : InQueue(r, k)' <=> InQueue(r, k)
    BY DEF InQueue
  <2>2. \A r : Taken(r)' = Taken(r)
    BY DEF Taken, InHand
  <2>3. QED
    BY <2>1, <2>2 DEF RecorderInv, NoneMissing
<1>7. QED
  BY <1>2, <1>3, <1>4, <1>5, <1>6

\* A call that returns, and changes nothing but its own state.
LEMMA ReturnInv ==
    ASSUME TypeOK, RecorderInv, NEW c \in Callers, NEW res, Return(c, res),
           phase[c] # "Wait" \/ answer[c] # "None",
           op[c] = "Finish" /\ res = "Ok" => gate[on[c]] = "Finished",
           UNCHANGED <<gate, writerStatus, open, queue, wphase, current, reply,
                       outcome, sequences, finishedRuns, stored, events, accepted>>
    PROVE  RecorderInv'
<1>1. WriterGates'
  BY WriterGatesFrame DEF RecorderInv, Return, TypeOK, CallTypes
<1>2. QED
  BY <1>1, RunsFrame, ReturnExclusion, ReturnCallerGates, ReturnShutdownLast,
     ReturnOwners DEF RecorderInv

LEMMA GiveUpInv ==
    ASSUME TypeOK, RecorderInv, NEW c \in Callers, phase[c] \in {"Admission", "Reserve"}, GiveUp(c),
           UNCHANGED <<writerStatus, open, queue, wphase, current, reply,
                       outcome, sequences, finishedRuns, stored, events, accepted>>
    PROVE  RecorderInv'
<1>1. WriterError # "Ok" /\ FailedGate \in {"FailedWriter", "FailedClosed"}
  BY DEF WriterError, FailedGate
<1>2. CASE UNCHANGED gate /\ \E res : Return(c, res) /\ res # "Ok"
  BY <1>2, ReturnInv
<1>3. CASE /\ op[c] = "Finish"
           /\ gate' = [gate EXCEPT ![on[c]] = FailedGate]
           /\ Return(c, WriterError)
  <2>1. QueueOrder' /\ QueueGates' /\ WriterGates' /\ RunLogs' /\ NoneMissing'
    BY <1>1, <1>3, GateLeavesActive DEF Return, TypeOK, CallTypes
  <2>2. Exclusion' /\ ShutdownLast' /\ Owners'
    BY <1>3, ReturnExclusion, ReturnShutdownLast, ReturnOwners DEF RecorderInv
  <2>3. runAdmission[on[c]] = c /\ gate[on[c]] = "Active"
    BY <1>3 DEF RecorderInv, Exclusion, CallerGates
  <2>4. /\ \A d \in Callers \ {c} : phase'[d] = phase[d] /\ result'[d] = result[d]
        /\ phase'[c] = "Idle" /\ result'[c] # "Ok"
        /\ UNCHANGED <<op, on, answer>>
        /\ gate'[on[c]] \in {"FailedWriter", "FailedClosed"}
        /\ \A r \in RunIds \ {on[c]} : gate'[r] = gate[r]
    BY <1>1, <1>3 DEF Return, TypeOK, CallTypes, GateTypes
  <2>5. \A d \in Callers : on[d] \in RunIds
    BY DEF TypeOK, CallTypes
  <2>6. CallerGates'
    BY <2>3, <2>4, <2>5 DEF RecorderInv, CallerGates, Exclusion, Queued
  <2>7. QED
    BY <2>1, <2>2, <2>6 DEF RecorderInv
<1>4. QED
  BY <1>1, <1>2, <1>3 DEF GiveUp

LEMMA EnterInv ==
    ASSUME TypeOK, RecorderInv, NEW c \in Callers, Enter(c)
    PROVE  RecorderInv'
<1> USE DEF handleVars, gateVars, channelVars, writerVars, storeVars, historyVars
<1>1. /\ UNCHANGED <<writerStatus, open, queue, wphase, current, reply,
                     outcome, sequences, finishedRuns, stored, events, live, accepted>>
      /\ phase[c] = "Admission"
  BY DEF Enter
<1>2. CASE GiveUp(c)
  BY <1>1, <1>2, GiveUpInv
<1>3. CASE op[c] = "Shutdown" /\ GoTo(c, "Join") /\ UNCHANGED gateVars
  <2>1. Exclusion'
    BY <1>3 DEF RecorderInv, Exclusion, Sending, GoTo, TypeOK, CallTypes
  <2>2. CallerGates'
    BY <1>1, <1>3 DEF RecorderInv, CallerGates, Queued, GoTo, TypeOK, CallTypes
  <2>3. ShutdownLast' /\ Owners'
    BY <1>1, <1>3, GoToShutdownLast, GoToOwners DEF RecorderInv
  <2>4. WriterGates'
    BY <1>1, <1>3, WriterGatesFrame DEF RecorderInv, GoTo, TypeOK, CallTypes
  <2>5. QED
    BY <1>1, <1>3, <2>1, <2>2, <2>3, <2>4, RunsFrame DEF RecorderInv
<1>4. CASE Return(c, "RecordNotAccepted") /\ UNCHANGED gate
  BY <1>1, <1>4, ReturnInv
<1>5. CASE /\ writerStatus = "Running" /\ admission = Nobody /\ Accepts(c)
           /\ admission' = c
           /\ GoTo(c, "Reserve")
           /\ UNCHANGED <<runAdmission, gate>>
  <2>1. Exclusion'
    BY <1>1, <1>5, RecorderAssumption DEF RecorderInv, Exclusion, Sending, GoTo, TypeOK, CallTypes
  <2>2. CallerGates'
    BY <1>1, <1>5 DEF RecorderInv, CallerGates, Queued, Accepts, GoTo, TypeOK, CallTypes
  <2>3. ShutdownLast'
    BY <1>1, <1>5 DEF RecorderInv, ShutdownLast, GoTo, TypeOK, CallTypes
  <2>4. Owners'
    BY <1>1, <1>5, GoToOwners DEF RecorderInv
  <2>5. WriterGates'
    BY <1>1, <1>5, WriterGatesFrame DEF RecorderInv, GoTo, TypeOK, CallTypes
  <2>6. QED
    BY <1>1, <1>5, <2>1, <2>2, <2>3, <2>4, <2>5, RunsFrame DEF RecorderInv
<1>6. QED
  BY <1>2, <1>3, <1>4, <1>5 DEF Enter
LEMMA ReserveInv ==
    ASSUME TypeOK, RecorderInv, NEW c \in Callers, Reserve(c)
    PROVE  RecorderInv'
<1> USE DEF handleVars, gateVars, channelVars, writerVars, storeVars, historyVars
<1>1. /\ UNCHANGED <<writerStatus, open, queue, wphase, current, reply,
                     outcome, sequences, finishedRuns, stored, events, live, accepted>>
      /\ phase[c] = "Reserve"
  BY DEF Reserve
<1>2. CASE GiveUp(c)
  BY <1>1, <1>2, GiveUpInv
<1>3. CASE GoTo(c, IF op[c] \in {"Finish", "Shutdown"} THEN "Commit" ELSE "Send") /\ UNCHANGED gateVars
  <2>1. \/ op[c] \in {"Finish", "Shutdown"} /\ GoTo(c, "Commit")
        \/ op[c] \notin {"Finish", "Shutdown"} /\ GoTo(c, "Send")
    BY <1>3
  <2>2. Exclusion'
    BY <1>1, <1>3, <2>1 DEF RecorderInv, Exclusion, Sending, GoTo, TypeOK, CallTypes
  <2>3. CallerGates'
    BY <1>1, <1>3, <2>1 DEF RecorderInv, CallerGates, Queued, GoTo, TypeOK, CallTypes
  <2>4. ShutdownLast'
    BY <1>1, <2>1 DEF RecorderInv, ShutdownLast, Sending, GoTo, TypeOK, CallTypes
  <2>5. Owners'
    BY <1>1, <2>1, GoToOwners DEF RecorderInv
  <2>6. WriterGates'
    BY <1>1, <1>3, <2>1, WriterGatesFrame DEF RecorderInv, GoTo, TypeOK, CallTypes
  <2>7. QED
    BY <1>1, <1>3, <2>2, <2>3, <2>4, <2>5, <2>6, RunsFrame DEF RecorderInv
<1>4. CASE /\ op[c] = "Shutdown"
           /\ admission' = Nobody
           /\ phase' = [phase EXCEPT ![c] = "Join"]
           /\ answer' = [answer EXCEPT ![c] = "SendFailed"]
           /\ UNCHANGED <<op, on, result, runAdmission, gate>>
  <2>1. Exclusion'
    BY <1>1, <1>4 DEF RecorderInv, Exclusion, Sending, TypeOK, CallTypes
  <2>2. CallerGates'
    BY <1>1, <1>4 DEF RecorderInv, CallerGates, Queued, TypeOK, CallTypes
  <2>3. ShutdownLast'
    BY <1>1, <1>4 DEF RecorderInv, ShutdownLast, Sending, TypeOK, CallTypes
  <2>4. Owners'
    BY <1>1, <1>4, OwnersFrame DEF RecorderInv, TypeOK, CallTypes
  <2>5. WriterGates'
    BY <1>1, <1>4, WriterGatesFrame DEF RecorderInv, TypeOK, CallTypes
  <2>6. QED
    BY <1>1, <1>4, <2>1, <2>2, <2>3, <2>4, <2>5, RunsFrame DEF RecorderInv
<1>5. QED
  BY <1>2, <1>3, <1>4 DEF Reserve

LEMMA CommitInv ==
    ASSUME TypeOK, RecorderInv, NEW c \in Callers, Commit(c)
    PROVE  RecorderInv'
<1> USE DEF handleVars, gateVars, channelVars, writerVars, storeVars, historyVars
<1>1. /\ UNCHANGED <<open, queue, wphase, current, reply,
                     outcome, sequences, finishedRuns, stored, events, live, accepted, runAdmission>>
      /\ phase[c] = "Commit"
  BY DEF Commit
<1>2. CASE /\ op[c] = "Finish"
           /\ gate' = [gate EXCEPT ![on[c]] = "Finishing"]
           /\ GoTo(c, "Send")
           /\ UNCHANGED <<admission, writerStatus>>
  <2>1. QueueOrder' /\ QueueGates' /\ WriterGates' /\ RunLogs' /\ NoneMissing'
    BY <1>1, <1>2, GateLeavesActive DEF GoTo, TypeOK, CallTypes
  <2>2. Exclusion'
    BY <1>1, <1>2 DEF RecorderInv, Exclusion, Sending, GoTo, TypeOK, CallTypes
  <2>3. ShutdownLast'
    BY <1>1, <1>2 DEF RecorderInv, ShutdownLast, Sending, GoTo, TypeOK, CallTypes
  <2>4. Owners'
    BY <1>1, <1>2, GoToOwners DEF RecorderInv
  <2>5. runAdmission[on[c]] = c /\ gate[on[c]] = "Active"
    BY <1>1, <1>2 DEF RecorderInv, Exclusion, CallerGates
  <2>6. ~Queued("Finish", on[c])
    BY <2>5 DEF RecorderInv, QueueGates, QueueGate, Queued
  <2>7. /\ \A d \in Callers \ {c} : phase'[d] = phase[d]
        /\ phase'[c] = "Send"
        /\ UNCHANGED <<op, on, answer, result>>
        /\ gate'[on[c]] = "Finishing"
        /\ \A r \in RunIds \ {on[c]} : gate'[r] = gate[r]
    BY <1>2 DEF GoTo, TypeOK, CallTypes, GateTypes
  <2>8. \A d \in Callers : on[d] \in RunIds
    BY DEF TypeOK, CallTypes
  <2>9. CallerGates'
    BY <1>1, <1>2, <2>5, <2>6, <2>7, <2>8 DEF RecorderInv, CallerGates, Exclusion, Queued
  <2>10. QED
    BY <2>1, <2>2, <2>3, <2>4, <2>9 DEF RecorderInv
<1>3. CASE op[c] = "Shutdown" /\ StartClosing /\ GoTo(c, "Send") /\ UNCHANGED gateVars
  <2>1. Exclusion'
    BY <1>1, <1>3 DEF RecorderInv, Exclusion, Sending, GoTo, TypeOK, CallTypes
  <2>2. CallerGates'
    BY <1>1, <1>3 DEF RecorderInv, CallerGates, Queued, GoTo, TypeOK, CallTypes
  <2>3. ShutdownLast'
    BY <1>1, <1>3 DEF RecorderInv, ShutdownLast, Sending, StartClosing, GoTo, TypeOK, CallTypes
  <2>4. Owners'
    BY <1>1, <1>3, GoToOwners DEF RecorderInv
  <2>5. WriterGates'
    BY <1>1, <1>3, WriterGatesFrame DEF RecorderInv, GoTo, TypeOK, CallTypes
  <2>6. QED
    BY <1>1, <1>3, <2>1, <2>2, <2>3, <2>4, <2>5, RunsFrame DEF RecorderInv
<1>4. CASE op[c] = "Shutdown" /\ admission' = Nobody /\ GoTo(c, "Join") /\ UNCHANGED <<gate, writerStatus>>
  <2>1. Exclusion'
    BY <1>1, <1>4 DEF RecorderInv, Exclusion, Sending, GoTo, TypeOK, CallTypes
  <2>2. CallerGates'
    BY <1>1, <1>4 DEF RecorderInv, CallerGates, Queued, GoTo, TypeOK, CallTypes
  <2>3. ShutdownLast' /\ Owners'
    BY <1>1, <1>4, GoToShutdownLast, GoToOwners DEF RecorderInv
  <2>4. WriterGates'
    BY <1>1, <1>4, WriterGatesFrame DEF RecorderInv, GoTo, TypeOK, CallTypes
  <2>5. QED
    BY <1>1, <1>4, <2>1, <2>2, <2>3, <2>4, RunsFrame DEF RecorderInv
<1>5. QED
  BY <1>2, <1>3, <1>4 DEF Commit

LEMMA FinishStateResultOk ==
    ASSUME NEW state, FinishStateResult(state) = "Ok"
    PROVE  state = "Finished"
  BY DEF FinishStateResult

LEMMA AnsweredInv ==
    ASSUME TypeOK, RecorderInv, NEW c \in Callers, Answered(c)
    PROVE  RecorderInv'
<1> USE DEF handleVars, gateVars, channelVars, writerVars, storeVars, historyVars
<1>1. /\ UNCHANGED <<gate, writerStatus, open, queue, wphase, current, reply,
                     outcome, sequences, finishedRuns, stored, events, accepted>>
      /\ phase[c] = "Wait" /\ answer[c] # "None"
  BY DEF Answered
<1>2. CASE Return(c, AnswerResult(c))
  <2>1. op[c] = "Finish" /\ AnswerResult(c) = "Ok" => gate[on[c]] = "Finished"
    BY <1>1, FinishStateResultOk DEF AnswerResult, RecorderInv, CallerGates
  <2>2. QED
    BY <1>1, <1>2, <2>1, ReturnInv
<1>3. CASE op[c] = "Shutdown" /\ GoTo(c, "Join") /\ UNCHANGED <<admission, runAdmission>>
  <2>1. Exclusion'
    BY <1>1, <1>3 DEF RecorderInv, Exclusion, Sending, GoTo, TypeOK, CallTypes
  <2>2. CallerGates'
    BY <1>1, <1>3 DEF RecorderInv, CallerGates, Queued, GoTo, TypeOK, CallTypes
  <2>3. ShutdownLast' /\ Owners'
    BY <1>1, <1>3, GoToShutdownLast, GoToOwners DEF RecorderInv
  <2>4. WriterGates'
    BY <1>1, <1>3, WriterGatesFrame DEF RecorderInv, GoTo, TypeOK, CallTypes
  <2>5. QED
    BY <1>1, <1>3, <2>1, <2>2, <2>3, <2>4, RunsFrame DEF RecorderInv
<1>4. QED
  BY <1>2, <1>3 DEF Answered

LEMMA WatchInv ==
    ASSUME TypeOK, RecorderInv, NEW c \in Callers, Watch(c)
    PROVE  RecorderInv'
<1> USE DEF handleVars, channelVars, writerVars, storeVars, historyVars
<1>1. /\ UNCHANGED <<gate, writerStatus, open, queue, wphase, current, reply,
                     outcome, sequences, finishedRuns, stored, events, accepted>>
      /\ phase[c] = "Watch" /\ Return(c, FinishStateResult(gate[on[c]]))
  BY DEF Watch
<1>2. QED
  BY <1>1, FinishStateResultOk, ReturnInv

LEMMA JoinInv ==
    ASSUME TypeOK, RecorderInv, NEW c \in Callers, Join(c)
    PROVE  RecorderInv'
<1> USE DEF handleVars, channelVars, writerVars, storeVars, historyVars
<1>1. /\ UNCHANGED <<gate, writerStatus, open, queue, wphase, current, reply,
                     outcome, sequences, finishedRuns, stored, events, accepted>>
      /\ phase[c] = "Join" /\ Return(c, JoinResult(c))
  BY DEF Join
<1>2. op[c] # "Finish"
  BY <1>1 DEF RecorderInv, Exclusion
<1>3. QED
  BY <1>1, <1>2, ReturnInv
\* Nothing RecorderInv speaks of changes.
LEMMA StutterInv ==
    ASSUME RecorderInv,
           UNCHANGED <<callVars, gateVars, writerStatus, channelVars, writerVars, storeVars, accepted>>
    PROVE  RecorderInv'
<1> USE DEF callVars, gateVars, channelVars, writerVars, storeVars
<1>1. Exclusion' /\ CallerGates' /\ ShutdownLast' /\ Owners'
  BY DEF RecorderInv, Exclusion, CallerGates, Queued, ShutdownLast, Sending, Owners, Owned, Holds
<1>2. WriterGates'
  BY WriterGatesFrame DEF RecorderInv
<1>3. QED
  BY <1>1, <1>2, RunsFrame DEF RecorderInv

\* The command a call sends.
Sent(c) == [op |-> op[c], run |-> on[c],
            caller |-> IF op[c] = "Emit" THEN Nobody ELSE c,
            record |-> IF op[c] = "Emit" THEN accepted[on[c]] + 1 ELSE 0]

LEMMA SendFacts ==
    ASSUME TypeOK, RecorderInv, NEW c \in Callers, Send(c)
    PROVE  /\ UNCHANGED <<op, on, answer, gate, writerStatus, open, wphase, current, reply, outcome,
                          sequences, finishedRuns, stored, events>>
           /\ phase[c] = "Send"
           /\ phase' = [phase EXCEPT ![c] = IF op[c] = "Emit" THEN "Idle" ELSE "Wait"]
           /\ \A d \in Callers \ {c} : result'[d] = result[d]
           /\ \A r \in RunIds : accepted'[r] = IF op[c] = "Emit" /\ r = on[c]
                                               THEN accepted[r] + 1 ELSE accepted[r]
  BY DEF Send, Return, GoTo, handleVars, writerVars, storeVars, TypeOK, CallTypes, HistoryTypes
LEMMA QueueAppend ==
    ASSUME NEW q \in Seq(Command), NEW cmd
    PROVE  /\ DOMAIN Append(q, cmd) = DOMAIN q \cup {Len(q) + 1}
           /\ Append(q, cmd)[Len(q) + 1] = cmd
           /\ \A i \in DOMAIN q : Append(q, cmd)[i] = q[i]
           /\ \A i \in DOMAIN q : i \in Int /\ i < Len(q) + 1
           /\ Len(q) + 1 \in Int
  OBVIOUS

\* A command sent to a receiver that is gone is lost, with the writer failed.
LEMMA SendClosedInv ==
    ASSUME TypeOK, RecorderInv, NEW c \in Callers, Send(c), ~open
    PROVE  RecorderInv'
<1>1. queue = <<>> /\ queue' = <<>>
  BY DEF Send, RecorderInv, WriterGates
<1>2. outcome = "Error"
  BY SendFacts DEF RecorderInv, WriterGates, ShutdownLast, Sending, TypeOK, WriterTypes
<1>3. op[c] = "Emit" => gate[on[c]] = "Active"
  BY SendFacts DEF RecorderInv, CallerGates
<1>4. Exclusion'
  <2>1. admission = c
    BY SendFacts DEF RecorderInv, Exclusion, Sending
  <2>2. admission' = Nobody
    BY <2>1 DEF Send, Return, Release
  <2>3. op[c] # "Emit" => UNCHANGED runAdmission
    BY DEF Send
  <2>4. op[c] = "Emit" => \A r \in RunIds : runAdmission[r] # c => runAdmission'[r] = runAdmission[r]
    BY DEF Send, Return, Release
  <2>5. QED
    BY SendFacts, <2>1, <2>2, <2>3, <2>4, RecorderAssumption
       DEF RecorderInv, Exclusion, Sending, TypeOK, CallTypes, GateTypes
<1>5. CallerGates'
  BY <1>1, SendFacts DEF RecorderInv, CallerGates, Exclusion, Queued, TypeOK, CallTypes
<1>6. ShutdownLast'
  BY <1>1, <1>2, SendFacts DEF RecorderInv, ShutdownLast, Sending, TypeOK, CallTypes
<1>7. QueueOrder' /\ QueueGates'
  BY <1>1 DEF QueueOrder, QueueGates
<1>8. WriterGates'
  BY <1>1, SendFacts DEF RecorderInv, WriterGates, InHand, Queued, TypeOK, CallTypes, WriterTypes
<1>9. RunLogs'
  <2> SUFFICES ASSUME NEW r \in RunIds PROVE RunLog(r)'
    BY DEF RunLogs
  <2>1. RunLog(r) /\ accepted[r] \in Nat /\ events[r] \in Seq([sequence : Nat, record : Nat])
    BY DEF RecorderInv, RunLogs, TypeOK, HistoryTypes, StoreTypes
  <2>2. accepted'[r] = accepted[r] \/ (accepted'[r] = accepted[r] + 1 /\ gate[r] = "Active")
    BY <1>3, SendFacts
  <2>3. QED
    BY <2>1, <2>2, SendFacts DEF RunLog
<1>10. NoneMissing'
  BY <1>2, SendFacts DEF NoneMissing
<1>11. Owners'
  <2>1. current = NoCommand
    BY DEF RecorderInv, WriterGates, TypeOK, WriterTypes
  <2>2. QED
    BY <1>1, <1>2, <2>1, SendFacts DEF RecorderInv, Owners, WriterGates
<1>12. QED
  BY <1>4, <1>5, <1>6, <1>7, <1>8, <1>9, <1>10, <1>11 DEF RecorderInv
\* What a command finds in front of it: nothing behind which it must not come.
LEMMA SentBehind ==
    ASSUME TypeOK, RecorderInv, NEW c \in Callers, Send(c), open
    PROVE  /\ current.op # "Shutdown" /\ outcome # "Ok"
           /\ \A i \in DOMAIN queue : InOrder(queue[i], Sent(c))
           /\ op[c] = "Emit" => gate[on[c]] = "Active"
           /\ op[c] = "Finish" => gate[on[c]] = "Finishing" /\ ~Queued("Finish", on[c])
           /\ op[c] = "Complete" => gate[on[c]] = "Finished"
<1>1. /\ op[c] = "Emit" => gate[on[c]] = "Active"
      /\ op[c] = "Finish" => gate[on[c]] = "Finishing" /\ ~Queued("Finish", on[c])
      /\ op[c] = "Complete" => gate[on[c]] = "Finished"
  BY SendFacts DEF RecorderInv, CallerGates
<1>2. /\ current.op # "Shutdown" /\ outcome # "Ok"
      /\ \A i \in DOMAIN queue : queue[i].op # "Shutdown"
  BY SendFacts DEF RecorderInv, ShutdownLast, Sending
<1>3. ASSUME NEW i \in DOMAIN queue PROVE InOrder(queue[i], Sent(c))
  <2>1. queue[i] \in Command /\ QueueGate(queue[i]) /\ accepted[on[c]] \in Nat
    BY Commands DEF RecorderInv, QueueGates, TypeOK, CallTypes, HistoryTypes
  <2>2. /\ Sent(c).op = op[c] /\ Sent(c).run = on[c]
        /\ op[c] = "Emit" => Sent(c).record = accepted[on[c]] + 1
    BY DEF Sent
  <2>3. CASE queue[i].run = on[c]
    BY <1>1, <1>2, <2>1, <2>2, <2>3 DEF InOrder, QueueGate, Queued, Command
  <2>4. QED
    BY <1>2, <2>2, <2>3 DEF InOrder
<1>4. QED
  BY <1>1, <1>2, <1>3

\* The log never has, with the record in hand, more than was accepted.
LEMMA TakenAccepted ==
    ASSUME TypeOK, RecorderInv, NEW r \in RunIds
    PROVE  /\ Taken(r) \in Nat /\ accepted[r] \in Nat /\ Taken(r) <= accepted[r]
           /\ Len(events[r]) \in Nat
<1>1. RunLog(r) /\ accepted[r] \in Nat /\ Len(events[r]) \in Nat
  BY DEF RecorderInv, RunLogs, TypeOK, HistoryTypes, StoreTypes
<1>2. CASE InHand("Emit") /\ current.run = r
  BY <1>1, <1>2 DEF Taken, RecorderInv, WriterGates
<1>3. CASE ~(InHand("Emit") /\ current.run = r)
  <2>1. Len(events[r]) <= accepted[r]
    BY <1>1 DEF RunLog
  <2>2. Taken(r) = Len(events[r])
    BY <1>1, <1>3 DEF Taken, InHand
  <2>3. QED
    BY <1>1, <2>1, <2>2
<1>4. QED
  BY <1>1, <1>2, <1>3

LEMMA SendOpenInv ==
    ASSUME TypeOK, RecorderInv, NEW c \in Callers, Send(c), open
    PROVE  RecorderInv'
<1>1. PICK n \in Int :
          /\ DOMAIN queue' = DOMAIN queue \cup {n} /\ queue'[n] = Sent(c)
          /\ \A i \in DOMAIN queue : queue'[i] = queue[i]
          /\ \A i \in DOMAIN queue : i \in Int /\ i < n
  <2>1. queue' = Append(queue, Sent(c)) /\ queue \in Seq(Command)
    BY DEF Send, Sent, TypeOK, ChannelTypes
  <2>2. QED
    BY <2>1, QueueAppend
<1>2. /\ Sent(c).op = op[c] /\ Sent(c).run = on[c] /\ on[c] \in RunIds
      /\ op[c] = "Emit" => Sent(c).record = accepted[on[c]] + 1 /\ Sent(c).caller = Nobody
      /\ op[c] # "Emit" => Sent(c).caller = c
  BY DEF Sent, TypeOK, CallTypes
<1>3. admission = c /\ answer[c] = "None"
  BY SendFacts DEF RecorderInv, Exclusion, Sending
<1>s. /\ UNCHANGED <<op, on, answer, gate, writerStatus, open, wphase, current, reply, outcome,
                     sequences, finishedRuns, stored, events>>
      /\ phase[c] = "Send"
      /\ phase' = [phase EXCEPT ![c] = IF op[c] = "Emit" THEN "Idle" ELSE "Wait"]
      /\ \A d \in Callers \ {c} : result'[d] = result[d] /\ phase'[d] = phase[d]
      /\ \A r \in RunIds : accepted'[r] = IF op[c] = "Emit" /\ r = on[c]
                                          THEN accepted[r] + 1 ELSE accepted[r]
  BY SendFacts DEF TypeOK, CallTypes
<1>b. /\ current.op # "Shutdown" /\ outcome # "Ok"
      /\ op[c] = "Emit" => gate[on[c]] = "Active"
      /\ op[c] = "Finish" => gate[on[c]] = "Finishing"
      /\ op[c] = "Complete" => gate[on[c]] = "Finished"
  BY SentBehind
<1>4. Exclusion'
  <2>1. admission' = Nobody
    BY <1>3 DEF Send, Return, Release
  <2>2. op[c] # "Emit" => UNCHANGED runAdmission
    BY DEF Send
  <2>3. op[c] = "Emit" => \A r \in RunIds : runAdmission[r] # c => runAdmission'[r] = runAdmission[r]
    BY DEF Send, Return, Release
  <2>4. QED
    BY <1>s, <1>3, <2>1, <2>2, <2>3, RecorderAssumption
       DEF RecorderInv, Exclusion, Sending, TypeOK, CallTypes, GateTypes
<1>5. CallerGates'
  <2> SUFFICES ASSUME NEW d \in Callers, op'[d] = "Finish", phase'[d] = "Send", open'
               PROVE  ~Queued("Finish", on[d])'
    BY <1>s, <1>3 DEF RecorderInv, CallerGates, TypeOK, CallTypes
  <2>1. d # c
    BY <1>s DEF TypeOK, CallTypes
  <2>2. phase[d] = "Send"
    BY <1>s, <2>1 DEF TypeOK, CallTypes
  <2>3. QED
    BY <1>3, <2>1, <2>2 DEF RecorderInv, Exclusion, Sending
<1>6. ShutdownLast'
  <2>1. \A d \in Callers : ~Sending(d)'
    BY <1>3, <1>s DEF RecorderInv, Exclusion, Sending, TypeOK, CallTypes
  <2>2. current'.op # "Shutdown" /\ outcome' # "Ok"
    BY <1>s, <1>b
  <2>3. op[c] = "Shutdown" => writerStatus # "Running"
    BY <1>s DEF RecorderInv, ShutdownLast
  <2>4. (\E i \in DOMAIN queue' : queue'[i].op = "Shutdown") => writerStatus' # "Running"
    BY <1>1, <1>2, <2>3, <1>s DEF RecorderInv, ShutdownLast
  <2>5. QED
    BY <2>1, <2>2, <2>4 DEF ShutdownLast, Sending
<1>7. QueueOrder'
  <2> SUFFICES ASSUME NEW i \in DOMAIN queue', NEW j \in DOMAIN queue', i < j
               PROVE  InOrder(queue'[i], queue'[j])
    BY DEF QueueOrder, InOrder
  <2>1. i \in DOMAIN queue
    BY <1>1
  <2>2. CASE j = n
    BY <1>1, <2>1, <2>2, SentBehind
  <2>3. CASE j # n
    BY <1>1, <2>1, <2>3 DEF RecorderInv, QueueOrder
  <2>4. QED
    BY <2>2, <2>3
<1>8. \A r \in RunIds : Taken(r)' = Taken(r) /\ accepted'[r] >= accepted[r] /\ accepted'[r] \in Nat
  BY <1>s DEF Taken, InHand, TypeOK, HistoryTypes
<1>9. QueueGates'
  <2> SUFFICES ASSUME NEW i \in DOMAIN queue' PROVE QueueGate(queue[i])'
    BY DEF QueueGates
  <2>1. CASE i = n
    <3>1. Taken(on[c]) <= accepted[on[c]] /\ accepted[on[c]] \in Nat /\ Taken(on[c]) \in Nat
      BY <1>2, TakenAccepted
    <3>2. op[c] = "Emit" => accepted'[on[c]] = accepted[on[c]] + 1
      BY <1>2, <1>s
    <3>3. Taken(on[c])' = Taken(on[c])
      BY <1>2, <1>8, <1>s
    <3>4. QED
      BY <1>1, <1>2, <2>1, <3>1, <3>2, <3>3, <1>s, <1>b DEF QueueGate
  <2>2. CASE i \in DOMAIN queue
    <3>1. queue[i] \in Command /\ QueueGate(queue[i]) /\ queue'[i] = queue[i]
      BY <1>1, <2>2, Commands DEF RecorderInv, QueueGates
    <3>2. /\ Taken(queue[i].run)' = Taken(queue[i].run) /\ queue[i].record \in Nat
          /\ accepted'[queue[i].run] >= accepted[queue[i].run]
          /\ accepted'[queue[i].run] \in Nat /\ accepted[queue[i].run] \in Nat
      BY <1>8, <3>1 DEF Command, TypeOK, HistoryTypes
    <3>3. QED
      BY <3>1, <3>2, <1>s DEF QueueGate
  <2>3. QED
    BY <1>1, <2>1, <2>2
<1>10. WriterGates'
  <2>1. \A o, r : Queued(o, r)' => Queued(o, r) \/ (o = op[c] /\ r = on[c])
    BY <1>1, <1>2 DEF Queued
  <2>2. ASSUME InHand("Emit")
        PROVE  current.record <= accepted'[current.run]
    <3>1. current \in Command /\ current.record <= accepted[current.run]
      BY <2>2 DEF RecorderInv, WriterGates, InHand, TypeOK, WriterTypes
    <3>2. QED
      BY <1>8, <3>1 DEF Command, TypeOK, HistoryTypes
  <2>3. ASSUME InHand("Finish")
        PROVE  /\ ~Queued("Emit", current.run)' /\ ~Queued("Finish", current.run)'
               /\ \A d \in Callers : op'[d] = "Finish" /\ phase'[d] = "Send" => on'[d] # current.run
    <3>1. /\ gate[current.run] = "Finishing"
          /\ ~Queued("Emit", current.run) /\ ~Queued("Finish", current.run)
          /\ \A d \in Callers : op[d] = "Finish" /\ phase[d] = "Send" => on[d] # current.run
      BY <2>3 DEF RecorderInv, WriterGates
    <3>2. \A d \in Callers : phase'[d] = "Send" => phase[d] = "Send"
      BY <1>s DEF TypeOK, CallTypes
    <3>3. QED
      BY <2>1, <3>1, <3>2, <1>s, <1>b
  <2>4. open' /\ UNCHANGED <<wphase, current, gate, events, reply, outcome, open>>
    BY <1>s
  <2>5. InHand("Emit")' = InHand("Emit") /\ InHand("Finish")' = InHand("Finish") /\ InHand("Complete")' = InHand("Complete")
    BY <2>4 DEF InHand
  <2>6. WriterGates
    BY DEF RecorderInv
  <2>7. QED
    BY <2>2, <2>3, <2>4, <2>5, <2>6 DEF WriterGates
<1>11. RunLogs'
  <2> SUFFICES ASSUME NEW r \in RunIds PROVE RunLog(r)'
    BY DEF RunLogs
  <2>1. RunLog(r) /\ accepted[r] \in Nat /\ events[r] \in Seq([sequence : Nat, record : Nat])
    BY DEF RecorderInv, RunLogs, TypeOK, HistoryTypes, StoreTypes
  <2>2. accepted'[r] = accepted[r] \/ (accepted'[r] = accepted[r] + 1 /\ gate[r] = "Active")
    BY <1>b, <1>s
  <2>3. QED
    BY <2>1, <2>2, <1>s DEF RunLog
<1>12. NoneMissing'
  <2> SUFFICES ASSUME outcome # "Error", NEW r \in RunIds, NEW k \in Taken(r) + 1 .. accepted'[r]
               PROVE  InQueue(r, k)'
    BY <1>8, <1>s DEF NoneMissing
  <2>1. CASE k \in Taken(r) + 1 .. accepted[r]
    <3>1. InQueue(r, k)
      BY <2>1 DEF RecorderInv, NoneMissing
    <3>2. QED
      BY <1>1, <3>1 DEF InQueue
  <2>2. CASE k \notin Taken(r) + 1 .. accepted[r]
    <3>1. r = on[c] /\ op[c] = "Emit" /\ k = accepted[r] + 1
      BY <2>2, <1>s, TakenAccepted
    <3>2. QED
      BY <1>1, <1>2, <3>1 DEF InQueue
  <2>3. QED
    BY <2>1, <2>2
<1>13. Owners'
  <2>1. ASSUME NEW cmd, cmd.caller \in Callers \cup {Nobody}, Owned(cmd)
        PROVE  Owned(cmd)' /\ cmd.caller # c
    BY <2>1, <1>s, RecorderAssumption DEF Owned, TypeOK, CallTypes
  <2>2. /\ \A i \in DOMAIN queue : queue[i].caller \in Callers \cup {Nobody}
        /\ current # NoCommand => current.caller \in Callers \cup {Nobody}
    BY Commands DEF Command
  <2>3. /\ \A i \in DOMAIN queue : queue[i].caller # c
        /\ \A i \in DOMAIN queue : Owned(queue[i])'
        /\ current # NoCommand => Owned(current)' /\ current.caller # c
    BY <1>1, <1>s, <2>1, <2>2 DEF RecorderInv, Owners
  <2>4. Owned(queue[n])'
    <3>1. \A cmd : cmd = Sent(c) => Owned(cmd)'
      BY <1>2, <1>3, <1>s DEF Owned, TypeOK, CallTypes
    <3>2. QED
      BY <1>1, <3>1
  <2>5. \A i \in DOMAIN queue' : Owned(queue[i])'
    <3> SUFFICES ASSUME NEW i \in DOMAIN queue' PROVE Owned(queue[i])'
      OBVIOUS
    <3>1. QED
      BY <1>1, <2>3, <2>4
  <2>6. \A i, j \in DOMAIN queue' :
            queue'[i].caller = queue'[j].caller => i = j \/ queue'[i].caller = Nobody
    BY <1>1, <1>2, <2>3, RecorderAssumption DEF RecorderInv, Owners
  <2>7. \A i \in DOMAIN queue' :
            current # NoCommand /\ current.caller = queue'[i].caller => queue'[i].caller = Nobody
    BY <1>1, <1>2, <2>3 DEF RecorderInv, Owners
  <2>8. wphase \notin {"Unwind", "Guard", "Exited"} =>
            \A d \in Callers : phase'[d] = "Wait" /\ answer[d] = "None" =>
                Holds(d, current) \/ \E i \in DOMAIN queue' : queue'[i].caller = d
    BY <1>1, <1>2, <1>s DEF RecorderInv, Owners, TypeOK, CallTypes
  <2>9. outcome' # "Ok"
    BY <1>s, <1>b
  <2>10. QED
    BY <2>3, <2>5, <2>6, <2>7, <2>8, <2>9, <1>s DEF Owners, Holds, Owned
<1>14. QED
  BY <1>4, <1>5, <1>6, <1>7, <1>9, <1>10, <1>11, <1>12, <1>13 DEF RecorderInv
LEMMA CommandHasCaller ==
    ASSUME NEW cmd \in Command
    PROVE  /\ cmd # NoCommand
           /\ \A c : Forget(c, cmd).op = cmd.op /\ Forget(c, cmd).run = cmd.run
           /\ \A c : Forget(c, cmd).record = cmd.record
           /\ \A c : Forget(c, cmd).caller = IF cmd.caller = c THEN Nobody ELSE cmd.caller
           /\ \A c : Forget(c, cmd) \in Command
  BY DEF Forget, Holds, Command, NoCommand

\* A dropped future leaves its command behind, with nobody to answer.
LEMMA CancelInv ==
    ASSUME TypeOK, RecorderInv, NEW c \in Callers, Cancel(c)
    PROVE  RecorderInv'
<1> USE DEF handleVars, storeVars, historyVars
<1>1. /\ UNCHANGED <<op, on, answer, gate, writerStatus, open, wphase, reply, outcome,
                     sequences, finishedRuns, stored, events, accepted>>
      /\ Return(c, "Cancelled")
      /\ phase' = [phase EXCEPT ![c] = "Idle"] /\ result' = [result EXCEPT ![c] = "Cancelled"]
  BY DEF Cancel, Return
<1>2. /\ DOMAIN queue' = DOMAIN queue
      /\ \A i \in DOMAIN queue :
            /\ queue'[i].op = queue[i].op /\ queue'[i].run = queue[i].run
            /\ queue'[i].record = queue[i].record
            /\ queue'[i].caller = IF queue[i].caller = c THEN Nobody ELSE queue[i].caller
            /\ queue[i].caller \in Callers \cup {Nobody}
  <2>1. queue' = [i \in DOMAIN queue |-> Forget(c, queue[i])]
    BY DEF Cancel
  <2>2. QED
    BY <2>1, Commands, CommandHasCaller DEF Command
<1>3. /\ current' = NoCommand <=> current = NoCommand
      /\ current = NoCommand => current' = current
      /\ current # NoCommand =>
            /\ current'.op = current.op /\ current'.run = current.run
            /\ current'.record = current.record
            /\ current'.caller = IF current.caller = c THEN Nobody ELSE current.caller
            /\ current.caller \in Callers \cup {Nobody} /\ current \in Command
  <2>1. current' = Forget(c, current)
    BY DEF Cancel
  <2>2. current = NoCommand => current' = current
    BY <2>1 DEF Forget, Holds
  <2>3. QED
    BY <2>1, <2>2, Commands, CommandHasCaller DEF Command
<1>4. current'.op = current.op
  BY <1>3
<1>5. \A o : InHand(o)' <=> InHand(o)
  BY <1>1, <1>4 DEF InHand
<1>6. wphase \in {"Execute", "Register", "CommitSequence", "Respond"} => current # NoCommand
  BY CommandHasCaller DEF TypeOK, WriterTypes
<1>7. \A r : Taken(r)' = Taken(r)
  BY <1>1, <1>3, <1>5, <1>6 DEF Taken, InHand
<1>8. \A o, r : Queued(o, r)' <=> Queued(o, r)
  BY <1>2 DEF Queued
<1>9. Exclusion'
  BY <1>1, ReturnExclusion DEF RecorderInv
<1>10. CallerGates'
  BY <1>1, <1>8 DEF RecorderInv, CallerGates, TypeOK, CallTypes
<1>11. ShutdownLast'
  <2>1. \A d \in Callers : phase'[d] # "Idle" => phase'[d] = phase[d]
    BY <1>1 DEF TypeOK, CallTypes
  <2>2. queue = <<>> => queue' = <<>>
    BY DEF Cancel
  <2>3. QED
    BY <1>1, <1>2, <1>4, <2>1, <2>2 DEF RecorderInv, ShutdownLast, Sending
<1>12. QueueOrder'
  BY <1>2 DEF RecorderInv, QueueOrder, InOrder
<1>13. QueueGates'
  <2> SUFFICES ASSUME NEW i \in DOMAIN queue' PROVE QueueGate(queue[i])'
    BY DEF QueueGates
  <2>1. QueueGate(queue[i]) /\ i \in DOMAIN queue
    BY <1>2 DEF RecorderInv, QueueGates
  <2>2. \A r : Taken(r)' = Taken(r)
    BY <1>7
  <2>3. QED
    BY <1>1, <1>2, <2>1, <2>2 DEF QueueGate
<1>14. WriterGates'
  <2>1. WriterGates
    BY DEF RecorderInv
  <2>2. queue = <<>> => queue' = <<>>
    BY DEF Cancel
  <2>3. \A d \in Callers : phase'[d] = "Send" => phase[d] = "Send"
    BY <1>1 DEF TypeOK, CallTypes
  <2>4. \A o : InHand(o) => current'.run = current.run /\ current'.record = current.record
    BY <1>3, <1>6 DEF InHand
  <2>5. QED
    BY <1>1, <1>3, <1>4, <1>5, <1>6, <1>8, <2>1, <2>2, <2>3, <2>4 DEF WriterGates
<1>15. RunLogs'
  <2> SUFFICES ASSUME NEW r \in RunIds PROVE RunLog(r)'
    BY DEF RunLogs
  <2>1. RunLog(r)
    BY DEF RecorderInv, RunLogs
  <2>2. wphase \in {"Register", "CommitSequence"} => current'.run = current.run
    BY <1>3, <1>6
  <2>3. QED
    BY <1>1, <2>1, <2>2 DEF RunLog
<1>16. NoneMissing'
  <2>1. \A r, k : InQueue(r, k)' <=> InQueue(r, k)
    BY <1>2 DEF InQueue
  <2>2. QED
    BY <1>1, <1>7, <2>1 DEF RecorderInv, NoneMissing
<1>17. Owners'
  <2>1. ASSUME NEW cmd, NEW new, cmd.caller \in Callers \cup {Nobody}, Owned(cmd),
               new.op = cmd.op, new.run = cmd.run,
               new.caller = IF cmd.caller = c THEN Nobody ELSE cmd.caller
        PROVE  Owned(new)'
    BY <1>1, <2>1 DEF Owned, TypeOK, CallTypes
  <2>2. \A i \in DOMAIN queue : Owned(queue[i])'
    BY <1>2, <2>1 DEF RecorderInv, Owners
  <2>3. current # NoCommand => Owned(current)'
    BY <1>3, <2>1 DEF RecorderInv, Owners
  <2>4. \A d \in Callers : phase'[d] = "Wait" => d # c /\ phase[d] = "Wait"
    BY <1>1 DEF TypeOK, CallTypes
  <2>5. wphase \notin {"Unwind", "Guard", "Exited"} =>
            \A d \in Callers : phase'[d] = "Wait" /\ answer'[d] = "None" =>
                Holds(d, current') \/ \E i \in DOMAIN queue' : queue'[i].caller = d
    BY <1>1, <1>2, <1>3, <2>4 DEF RecorderInv, Owners, Holds
  <2>6. \A i, j \in DOMAIN queue' :
            queue'[i].caller = queue'[j].caller => i = j \/ queue'[i].caller = Nobody
    BY <1>2 DEF RecorderInv, Owners
  <2>7. \A i \in DOMAIN queue' :
            current' # NoCommand /\ current'.caller = queue'[i].caller => queue'[i].caller = Nobody
    BY <1>2, <1>3 DEF RecorderInv, Owners
  <2>8. outcome = "Ok" => \A d \in Callers : phase'[d] = "Wait" => answer'[d] # "None"
    BY <1>1, <2>4 DEF RecorderInv, Owners
  <2>9. QED
    BY <1>1, <1>2, <1>3, <2>2, <2>3, <2>5, <2>6, <2>7, <2>8 DEF Owners, Holds
<1>18. QED
  BY <1>9, <1>10, <1>11, <1>12, <1>13, <1>14, <1>15, <1>16, <1>17 DEF RecorderInv
-----------------------------------------------------------------------------
\* Writer

\* What a step of the writer that leaves gates, queue and oneshots alone keeps.
LEMMA CallersFrame ==
    ASSUME RecorderInv, UNCHANGED <<callVars, admission, runAdmission>>
    PROVE  /\ Exclusion'
           /\ UNCHANGED <<gate, open, queue>> => CallerGates'
  BY DEF callVars, RecorderInv, Exclusion, CallerGates, Queued, Sending

LEMMA HandFacts ==
    ASSUME TypeOK, RecorderInv
    PROVE  /\ wphase \in {"Execute", "Register", "CommitSequence", "Respond"} =>
                  current # NoCommand /\ current \in Command /\ current.run \in RunIds
           /\ wphase \in {"Receive", "Guard", "Exited"} => current = NoCommand
           /\ NoCommand.op = "None"
  BY CommandHasCaller DEF TypeOK, WriterTypes, RecorderInv, WriterGates, Command, NoCommand

\* The writer leaves Execute, store, queue and gates as they are.
LEMMA RunsFrameLeave ==
    ASSUME TypeOK, RecorderInv,
           UNCHANGED <<queue, gate, events, accepted, finishedRuns, sequences>>,
           UNCHANGED stored,
           wphase \in {"Receive", "Execute", "Respond"},
           wphase' \notin {"Execute", "Register", "CommitSequence"},
           outcome' = "Error" \/ (outcome' # "Error" /\ outcome # "Error" /\ ~InHand("Emit"))
    PROVE  QueueOrder' /\ QueueGates' /\ RunLogs' /\ NoneMissing'
<1>1. QueueOrder'
  BY DEF RecorderInv, QueueOrder
<1>2. \A r \in RunIds : Taken(r)' <= Taken(r) /\ Taken(r) \in Nat /\ Taken(r)' \in Nat
  BY TakenAccepted DEF Taken, InHand
<1>3. QueueGates'
  <2> SUFFICES ASSUME NEW i \in DOMAIN queue' PROVE QueueGate(queue[i])'
    BY DEF QueueGates
  <2>1. QueueGate(queue[i]) /\ queue[i] \in Command
    BY Commands DEF RecorderInv, QueueGates
  <2>2. Taken(queue[i].run)' <= Taken(queue[i].run) /\ queue[i].record \in Nat
        /\ Taken(queue[i].run) \in Nat /\ Taken(queue[i].run)' \in Nat
    BY <1>2, <2>1 DEF Command
  <2>3. QED
    BY <2>1, <2>2 DEF QueueGate
<1>4. RunLogs'
  <2> SUFFICES ASSUME NEW r \in RunIds PROVE RunLog(r)'
    BY DEF RunLogs
  <2>1. RunLog(r)
    BY DEF RecorderInv, RunLogs
  <2>2. QED
    BY <2>1 DEF RunLog
<1>5. NoneMissing'
  <2>1. CASE outcome' = "Error"
    BY <2>1 DEF NoneMissing
  <2>2. CASE outcome # "Error" /\ ~InHand("Emit")
    <3>1. \A r, k : InQueue(r, k)' <=> InQueue(r, k)
      BY DEF InQueue
    <3>2. \A r \in RunIds : Taken(r)' = Taken(r)
      BY <2>2 DEF Taken, InHand
    <3>3. QED
      BY <2>2, <3>1, <3>2 DEF RecorderInv, NoneMissing
  <2>3. QED
    BY <2>1, <2>2
<1>6. QED
  BY <1>1, <1>3, <1>4, <1>5

\* The writer fails: whatever was queued is dropped next.
LEMMA FailInv ==
    ASSUME TypeOK, RecorderInv, ChannelClosed \/ AppendFails \/ Panic
    PROVE  RecorderInv'
<1> USE DEF callVars, handleVars, gateVars, channelVars, storeVars, historyVars
<1>1. /\ UNCHANGED <<phase, op, on, answer, result, admission, runAdmission, gate, open, queue, current,
                     reply, sequences, finishedRuns, stored, events, accepted>>
      /\ writerStatus' \in {"Failed", writerStatus}
      /\ wphase \in {"Receive", "Execute"}
      /\ wphase' = "Unwind" /\ outcome' = "Error"
  BY DEF ChannelClosed, AppendFails, Panic, Executing
<1>2. Exclusion' /\ CallerGates'
  BY <1>1, CallersFrame
<1>3. ShutdownLast'
  BY <1>1 DEF RecorderInv, ShutdownLast, Sending
<1>4. QueueOrder' /\ QueueGates' /\ RunLogs' /\ NoneMissing'
  BY <1>1, RunsFrameLeave
<1>5. WriterGates'
  BY <1>1 DEF RecorderInv, WriterGates, InHand
<1>6. Owners'
  BY <1>1, HandFacts DEF RecorderInv, Owners, Owned
<1>7. QED
  BY <1>2, <1>3, <1>4, <1>5, <1>6 DEF RecorderInv

LEMMA CompleteInStoreInv ==
    ASSUME TypeOK, RecorderInv, CompleteInStore
    PROVE  RecorderInv'
<1> USE DEF callVars, handleVars, gateVars, channelVars, storeVars, historyVars
<1>1. /\ UNCHANGED <<phase, op, on, answer, result, admission, runAdmission, gate, writerStatus, open,
                     queue, current, outcome, sequences, finishedRuns, events, accepted>>
      /\ wphase = "Execute" /\ wphase' = "Respond" /\ reply' # "None"
      /\ current.op = "Complete"
      /\ \/ UNCHANGED stored
         \/ /\ current.run \in finishedRuns
            /\ stored' = [stored EXCEPT ![current.run] = "Completed"]
  BY DEF CompleteInStore, Executing, Reply
<1>2. Exclusion' /\ CallerGates'
  BY <1>1, CallersFrame
<1>3. ShutdownLast'
  BY <1>1 DEF RecorderInv, ShutdownLast, Sending
<1>4. QueueOrder'
  BY <1>1 DEF RecorderInv, QueueOrder
<1>5. \A r : Taken(r)' = Taken(r)
  BY <1>1 DEF Taken, InHand
<1>6. QueueGates'
  BY <1>1, <1>5 DEF RecorderInv, QueueGates, QueueGate
<1>7. RunLogs'
  <2> SUFFICES ASSUME NEW r \in RunIds PROVE RunLog(r)'
    BY DEF RunLogs
  <2>1. RunLog(r)
    BY DEF RecorderInv, RunLogs
  <2>2. UNCHANGED stored[r] \/ (stored'[r] = "Completed" /\ r \in finishedRuns)
    BY <1>1 DEF TypeOK, StoreTypes
  <2>3. QED
    BY <1>1, <2>1, <2>2 DEF RunLog
<1>8. NoneMissing'
  <2>1. \A r, k : InQueue(r, k)' <=> InQueue(r, k)
    BY <1>1 DEF InQueue
  <2>2. QED
    BY <1>1, <1>5, <2>1 DEF RecorderInv, NoneMissing
<1>9. WriterGates'
  BY <1>1 DEF RecorderInv, WriterGates, InHand
<1>10. Owners'
  BY <1>1 DEF RecorderInv, Owners, Owned, Holds
<1>11. QED
  BY <1>2, <1>3, <1>4, <1>6, <1>7, <1>8, <1>9, <1>10 DEF RecorderInv
LEMMA CloseWriterInv ==
    ASSUME TypeOK, RecorderInv, CloseWriter
    PROVE  RecorderInv'
<1> USE DEF callVars, handleVars, gateVars, channelVars, storeVars, historyVars
<1>1. /\ UNCHANGED <<phase, op, on, answer, result, admission, runAdmission, gate, open, stored,
                     queue, current, outcome, sequences, finishedRuns, events, accepted>>
      /\ wphase = "Execute" /\ wphase' = "Respond" /\ reply' # "None"
      /\ current.op = "Shutdown" /\ writerStatus' = "Closed"
  BY DEF CloseWriter, Executing, Reply
<1>2. Exclusion' /\ CallerGates'
  BY <1>1, CallersFrame
<1>3. ShutdownLast'
  BY <1>1 DEF RecorderInv, ShutdownLast, Sending
<1>4. QueueOrder' /\ QueueGates' /\ RunLogs' /\ NoneMissing'
  <2>1. ~InHand("Emit") /\ outcome # "Error"
    BY <1>1 DEF InHand, RecorderInv, WriterGates
  <2>2. QED
    BY <1>1, <2>1, RunsFrameLeave
<1>5. WriterGates'
  BY <1>1 DEF RecorderInv, WriterGates, InHand
<1>6. Owners'
  BY <1>1 DEF RecorderInv, Owners, Owned, Holds
<1>7. QED
  BY <1>2, <1>3, <1>4, <1>5, <1>6 DEF RecorderInv

LEMMA CreateInStoreInv ==
    ASSUME TypeOK, RecorderInv, CreateInStore
    PROVE  RecorderInv'
<1> USE DEF callVars, handleVars, gateVars, channelVars, storeVars, historyVars
<1>1. /\ UNCHANGED <<phase, op, on, answer, result, admission, runAdmission, gate, writerStatus, open,
                     queue, current, outcome, sequences, finishedRuns, events, accepted>>
      /\ wphase = "Execute" /\ current.op = "Create"
      /\ \/ UNCHANGED stored /\ wphase' = "Respond" /\ reply' # "None"
         \/ /\ wphase' = "Register" /\ gate[current.run] = "Absent"
            /\ stored' = [stored EXCEPT ![current.run] = "Running"]
  BY DEF CreateInStore, Executing, Reply
<1>2. Exclusion' /\ CallerGates'
  BY <1>1, CallersFrame
<1>3. ShutdownLast'
  BY <1>1 DEF RecorderInv, ShutdownLast, Sending
<1>4. QueueOrder'
  BY <1>1 DEF RecorderInv, QueueOrder
<1>5. \A r : Taken(r)' = Taken(r)
  BY <1>1 DEF Taken, InHand
<1>6. QueueGates'
  BY <1>1, <1>5 DEF RecorderInv, QueueGates, QueueGate
<1>7. RunLogs'
  <2> SUFFICES ASSUME NEW r \in RunIds PROVE RunLog(r)'
    BY DEF RunLogs
  <2>1. RunLog(r)
    BY DEF RecorderInv, RunLogs
  <2>2. \/ UNCHANGED stored[r] /\ (wphase' = "Register" => current.run # r)
        \/ /\ stored'[r] = "Running" /\ gate[r] = "Absent"
           /\ wphase' = "Register" /\ current.run = r
    BY <1>1 DEF TypeOK, StoreTypes
  <2>3. QED
    BY <1>1, <2>1, <2>2 DEF RunLog
<1>8. NoneMissing'
  <2>1. \A r, k : InQueue(r, k)' <=> InQueue(r, k)
    BY <1>1 DEF InQueue
  <2>2. QED
    BY <1>1, <1>5, <2>1 DEF RecorderInv, NoneMissing
<1>9. WriterGates'
  BY <1>1 DEF RecorderInv, WriterGates, InHand
<1>10. Owners'
  BY <1>1 DEF RecorderInv, Owners, Owned, Holds
<1>11. QED
  BY <1>2, <1>3, <1>4, <1>6, <1>7, <1>8, <1>9, <1>10 DEF RecorderInv

\* Registering a run opens a gate that nobody has looked past.
LEMMA RegisterRunInv ==
    ASSUME TypeOK, RecorderInv, RegisterRun
    PROVE  RecorderInv'
<1> USE DEF callVars, handleVars, gateVars, channelVars, storeVars, historyVars
<1>1. /\ UNCHANGED <<phase, op, on, answer, result, admission, runAdmission, writerStatus, open, stored,
                     queue, current, outcome, sequences, finishedRuns, events, accepted>>
      /\ wphase = "Register" /\ wphase' = "Respond" /\ reply' # "None"
      /\ gate' = [gate EXCEPT ![current.run] = "Active"]
  BY DEF RegisterRun, Reply
<1>2. current.op = "Create" /\ gate[current.run] = "Absent" /\ current.run \in RunIds
  BY <1>1, HandFacts DEF RecorderInv, WriterGates
<1>3. \A r \in RunIds : gate'[r] = IF r = current.run THEN "Active" ELSE gate[r]
  BY <1>1, <1>2 DEF TypeOK, GateTypes
<1>4. Exclusion'
  BY <1>1, CallersFrame
<1>5. CallerGates'
  <2>1. \A d \in Callers : on[d] \in RunIds
    BY DEF TypeOK, CallTypes
  <2>2. QED
    BY <1>1, <1>2, <1>3, <2>1 DEF RecorderInv, CallerGates, Queued
<1>6. ShutdownLast'
  BY <1>1 DEF RecorderInv, ShutdownLast, Sending
<1>7. QueueOrder'
  BY <1>1 DEF RecorderInv, QueueOrder
<1>8. \A r : Taken(r)' = Taken(r)
  BY <1>1 DEF Taken, InHand
<1>9. QueueGates'
  <2> SUFFICES ASSUME NEW i \in DOMAIN queue' PROVE QueueGate(queue[i])'
    BY DEF QueueGates
  <2>1. QueueGate(queue[i]) /\ queue[i].run \in RunIds
    BY <1>1, Commands DEF RecorderInv, QueueGates, Command
  <2>2. QED
    BY <1>1, <1>2, <1>3, <1>8, <2>1 DEF QueueGate
<1>10. RunLogs'
  <2> SUFFICES ASSUME NEW r \in RunIds PROVE RunLog(r)'
    BY DEF RunLogs
  <2>1. RunLog(r)
    BY DEF RecorderInv, RunLogs
  <2>2. QED
    BY <1>1, <1>2, <1>3, <2>1 DEF RunLog
<1>11. NoneMissing'
  <2>1. \A r, k : InQueue(r, k)' <=> InQueue(r, k)
    BY <1>1 DEF InQueue
  <2>2. QED
    BY <1>1, <1>8, <2>1 DEF RecorderInv, NoneMissing
<1>12. WriterGates'
  BY <1>1, <1>2 DEF RecorderInv, WriterGates, InHand
<1>13. Owners'
  BY <1>1 DEF RecorderInv, Owners, Owned, Holds
<1>14. QED
  BY <1>4, <1>5, <1>6, <1>7, <1>9, <1>10, <1>11, <1>12, <1>13 DEF RecorderInv
\* The record appended is the next one of its run, in both numberings.
LEMMA AppendToStoreInv ==
    ASSUME TypeOK, RecorderInv, AppendToStore
    PROVE  RecorderInv'
<1> USE DEF callVars, handleVars, gateVars, channelVars, storeVars, historyVars
<1> DEFINE r0 == current.run
           event == [sequence |-> sequences[r0] + 1, record |-> current.record]
<1>1. /\ UNCHANGED <<phase, op, on, answer, result, admission, runAdmission, gate, writerStatus, open, stored,
                     queue, current, reply, outcome, sequences, finishedRuns, accepted>>
      /\ wphase = "Execute" /\ wphase' = "CommitSequence" /\ current.op = "Emit"
      /\ events' = [events EXCEPT ![r0] = Append(@, event)]
  BY DEF AppendToStore, Executing
<1>2. /\ r0 \in RunIds /\ gate[r0] \notin {"Absent", "Finished"}
      /\ current.record = Len(events[r0]) + 1 /\ current.record <= accepted[r0]
  BY <1>1, HandFacts DEF RecorderInv, WriterGates, InHand
<1>3. /\ events[r0] \in Seq([sequence : Nat, record : Nat]) /\ Len(events[r0]) \in Nat
      /\ sequences[r0] = Len(events[r0])
  BY <1>1, <1>2 DEF RecorderInv, RunLogs, RunLog, TypeOK, StoreTypes
<1>4. /\ event = [sequence |-> Len(events[r0]) + 1, record |-> Len(events[r0]) + 1]
      /\ events'[r0] = Append(events[r0], event)
      /\ \A r \in RunIds \ {r0} : events'[r] = events[r]
  BY <1>1, <1>2, <1>3 DEF TypeOK, StoreTypes
<1> HIDE DEF event
<1>5. /\ Len(events'[r0]) = Len(events[r0]) + 1
      /\ \A i \in DOMAIN events'[r0] :
             i \in DOMAIN events[r0] \/ i = Len(events[r0]) + 1
      /\ \A i \in DOMAIN events[r0] : events'[r0][i] = events[r0][i]
      /\ events'[r0][Len(events[r0]) + 1] = event
  BY <1>3, <1>4
<1>6. Exclusion' /\ CallerGates'
  BY <1>1, CallersFrame
<1>7. ShutdownLast'
  BY <1>1 DEF RecorderInv, ShutdownLast, Sending
<1>8. QueueOrder'
  BY <1>1 DEF RecorderInv, QueueOrder
<1>9. \A r \in RunIds : Taken(r)' = Taken(r)
  BY <1>1, <1>2, <1>4, <1>5 DEF Taken, InHand
<1>10. QueueGates'
  <2> SUFFICES ASSUME NEW i \in DOMAIN queue' PROVE QueueGate(queue[i])'
    BY DEF QueueGates
  <2>1. QueueGate(queue[i]) /\ queue[i].run \in RunIds
    BY <1>1, Commands DEF RecorderInv, QueueGates, Command
  <2>2. Taken(queue[i].run)' = Taken(queue[i].run)
    BY <1>1, <1>9, <2>1
  <2>3. QED
    BY <1>1, <2>1, <2>2 DEF QueueGate
<1>11. RunLogs'
  <2> SUFFICES ASSUME NEW r \in RunIds PROVE RunLog(r)'
    BY DEF RunLogs
  <2>1. RunLog(r)
    BY DEF RecorderInv, RunLogs
  <2>2. CASE r = r0
    <3>1. \A i \in DOMAIN events'[r] : events'[r][i] = [sequence |-> i, record |-> i]
      <4>1. \A i \in DOMAIN events[r] : events[r][i] = [sequence |-> i, record |-> i]
        BY <2>1 DEF RunLog
      <4>2. QED
        BY <1>4, <1>5, <2>2, <4>1
    <3>2. Len(events'[r]) <= accepted[r] /\ sequences[r] = Len(events'[r]) - 1
      BY <1>2, <1>3, <1>5, <2>2
    <3>3. QED
      BY <1>1, <1>2, <2>1, <2>2, <3>1, <3>2 DEF RunLog
  <2>3. CASE r # r0
    BY <1>1, <1>4, <2>1, <2>3 DEF RunLog
  <2>4. QED
    BY <2>2, <2>3
<1>12. NoneMissing'
  <2>1. \A r, k : InQueue(r, k)' <=> InQueue(r, k)
    BY <1>1 DEF InQueue
  <2>2. QED
    BY <1>1, <1>9, <2>1 DEF RecorderInv, NoneMissing
<1>13. WriterGates'
  BY <1>1 DEF RecorderInv, WriterGates, InHand
<1>14. Owners'
  BY <1>1 DEF RecorderInv, Owners, Owned, Holds
<1>15. QED
  BY <1>6, <1>7, <1>8, <1>10, <1>11, <1>12, <1>13, <1>14 DEF RecorderInv

LEMMA CommitSequenceInv ==
    ASSUME TypeOK, RecorderInv, CommitSequence
    PROVE  RecorderInv'
<1> USE DEF callVars, handleVars, gateVars, channelVars, storeVars, historyVars
<1>1. /\ UNCHANGED <<phase, op, on, answer, result, admission, runAdmission, gate, writerStatus, open, stored,
                     queue, reply, outcome, events, finishedRuns, accepted>>
      /\ wphase = "CommitSequence" /\ wphase' = "Receive" /\ current' = NoCommand
      /\ sequences' = [sequences EXCEPT ![current.run] = @ + 1]
  BY DEF CommitSequence
<1>2. current.op = "Emit" /\ current.run \in RunIds /\ NoCommand.op = "None" /\ current # NoCommand
  BY <1>1, HandFacts DEF RecorderInv, WriterGates
<1>3. Exclusion' /\ CallerGates'
  BY <1>1, CallersFrame
<1>4. ShutdownLast'
  BY <1>1, <1>2 DEF RecorderInv, ShutdownLast, Sending
<1>5. QueueOrder'
  BY <1>1 DEF RecorderInv, QueueOrder
<1>6. \A r : Taken(r)' = Taken(r)
  BY <1>1 DEF Taken, InHand
<1>7. QueueGates'
  BY <1>1, <1>6 DEF RecorderInv, QueueGates, QueueGate
<1>8. RunLogs'
  <2> SUFFICES ASSUME NEW r \in RunIds PROVE RunLog(r)'
    BY DEF RunLogs
  <2>1. RunLog(r) /\ Len(events[r]) \in Nat
    BY DEF RecorderInv, RunLogs, TypeOK, StoreTypes
  <2>2. sequences'[r] = IF r = current.run THEN sequences[r] + 1 ELSE sequences[r]
    BY <1>1, <1>2 DEF TypeOK, WriterTypes
  <2>3. sequences'[r] = Len(events[r])
    <3>1. sequences[r] = IF current.run = r THEN Len(events[r]) - 1 ELSE Len(events[r])
      BY <1>1, <2>1 DEF RunLog
    <3>2. QED
      BY <2>1, <2>2, <3>1
  <2>4. QED
    BY <1>1, <2>1, <2>3 DEF RunLog
<1>9. NoneMissing'
  <2>1. \A r, k : InQueue(r, k)' <=> InQueue(r, k)
    BY <1>1 DEF InQueue
  <2>2. QED
    BY <1>1, <1>6, <2>1 DEF RecorderInv, NoneMissing
<1>10. WriterGates'
  BY <1>1, <1>2 DEF RecorderInv, WriterGates, InHand
<1>11. Owners'
  <2>1. \A d \in Callers : phase[d] = "Wait" => ~Holds(d, current)
    BY <1>2, RecorderAssumption DEF RecorderInv, Exclusion, Owners, Owned, Holds
  <2>2. QED
    BY <1>1, <2>1 DEF RecorderInv, Owners, Owned, Holds
<1>12. QED
  BY <1>3, <1>4, <1>5, <1>7, <1>8, <1>9, <1>10, <1>11 DEF RecorderInv

\* finish_run is a barrier: nothing of the run is queued, so all of it is stored.
LEMMA FinishRunInv ==
    ASSUME TypeOK, RecorderInv, FinishRun
    PROVE  RecorderInv'
<1> USE DEF callVars, handleVars, gateVars, channelVars, storeVars, historyVars
<1>1. /\ wphase = "Execute" /\ current.op = "Finish" /\ current.run \in RunIds
      /\ gate[current.run] = "Finishing"
      /\ ~Queued("Emit", current.run) /\ ~Queued("Finish", current.run)
      /\ \A d \in Callers : op[d] = "Finish" /\ phase[d] = "Send" => on[d] # current.run
      /\ outcome = "None" /\ open
  BY HandFacts DEF FinishRun, Executing, RecorderInv, WriterGates, InHand
<1>2. /\ UNCHANGED <<phase, op, on, answer, result, admission, runAdmission, writerStatus, open, stored,
                     queue, current, outcome, events, sequences, accepted>>
      /\ finishedRuns' = finishedRuns \cup {current.run}
      /\ gate' = [gate EXCEPT ![current.run] = "Finished"]
      /\ reply' = "Ok" /\ wphase' = "Respond"
  BY <1>1 DEF FinishRun, Reply
<1>3. \A r \in RunIds : gate'[r] = IF r = current.run THEN "Finished" ELSE gate[r]
  BY <1>1, <1>2 DEF TypeOK, GateTypes
<1>4. Exclusion'
  BY <1>2, CallersFrame
<1>5. CallerGates'
  <2>1. \A d \in Callers : on[d] \in RunIds
    BY DEF TypeOK, CallTypes
  <2>2. QED
    BY <1>1, <1>2, <1>3, <2>1 DEF RecorderInv, CallerGates, Queued
<1>6. ShutdownLast'
  BY <1>2 DEF RecorderInv, ShutdownLast, Sending
<1>7. QueueOrder'
  BY <1>2 DEF RecorderInv, QueueOrder
<1>8. \A r : Taken(r)' = Taken(r)
  BY <1>1, <1>2 DEF Taken, InHand
<1>9. QueueGates'
  <2> SUFFICES ASSUME NEW i \in DOMAIN queue' PROVE QueueGate(queue[i])'
    BY DEF QueueGates
  <2>1. /\ QueueGate(queue[i]) /\ queue[i].run \in RunIds
        /\ queue[i].op \in {"Emit", "Finish"} => queue[i].run # current.run
    BY <1>1, <1>2, Commands DEF RecorderInv, QueueGates, Command, Queued
  <2>2. QED
    BY <1>2, <1>3, <1>8, <2>1 DEF QueueGate
<1>10. Len(events[current.run]) = accepted[current.run]
  <2> DEFINE r == current.run
             k == Len(events[r]) + 1
  <2>1. /\ Len(events[r]) \in Nat /\ accepted[r] \in Nat /\ Len(events[r]) <= accepted[r]
        /\ Taken(r) = Len(events[r])
    BY <1>1, TakenAccepted DEF Taken, InHand
  <2>2. ~InQueue(r, k)
    BY <1>1 DEF InQueue, Queued
  <2>3. k \notin Taken(r) + 1 .. accepted[r]
    BY <1>1, <2>2 DEF RecorderInv, NoneMissing
  <2>4. QED
    BY <2>1, <2>3
<1>11. RunLogs'
  <2> SUFFICES ASSUME NEW r \in RunIds PROVE RunLog(r)'
    BY DEF RunLogs
  <2>1. RunLog(r)
    BY DEF RecorderInv, RunLogs
  <2>2. QED
    BY <1>1, <1>2, <1>3, <1>10, <2>1 DEF RunLog
<1>12. NoneMissing'
  <2>1. \A r, k : InQueue(r, k)' <=> InQueue(r, k)
    BY <1>2 DEF InQueue
  <2>2. QED
    BY <1>2, <1>8, <2>1 DEF RecorderInv, NoneMissing
<1>13. WriterGates'
  BY <1>1, <1>2, <1>3 DEF RecorderInv, WriterGates, InHand
<1>14. Owners'
  BY <1>1, <1>2 DEF RecorderInv, Owners, Owned, Holds
<1>15. QED
  BY <1>4, <1>5, <1>6, <1>7, <1>9, <1>11, <1>12, <1>13, <1>14 DEF RecorderInv
LEMMA RespondInv ==
    ASSUME TypeOK, RecorderInv, Respond
    PROVE  RecorderInv'
<1> USE DEF handleVars, gateVars, channelVars, storeVars, historyVars
<1>1. /\ UNCHANGED <<phase, op, on, result, admission, runAdmission, gate, writerStatus, open, stored,
                     queue, sequences, events, finishedRuns, accepted>>
      /\ wphase = "Respond" /\ current' = NoCommand
      /\ \/ current.op = "Shutdown" /\ wphase' = "Unwind" /\ outcome' = "Ok"
         \/ current.op # "Shutdown" /\ wphase' = "Receive" /\ outcome' = outcome
      /\ \A d \in Callers : answer'[d] = IF Holds(d, current) THEN reply ELSE answer[d]
  BY DEF Respond
<1>2. /\ reply # "None" /\ outcome = "None" /\ current # NoCommand /\ current \in Command
      /\ NoCommand.op = "None"
  BY <1>1, HandFacts DEF RecorderInv, WriterGates
<1>3. \A d \in Callers : Holds(d, current) =>
          /\ phase[d] = "Wait" /\ op[d] = current.op /\ on[d] = current.run
  BY <1>2, RecorderAssumption DEF RecorderInv, Owners, Owned, Holds
<1>4. Exclusion'
  BY <1>1, <1>3 DEF RecorderInv, Exclusion, Sending
<1>5. CallerGates'
  <2>1. current.op = "Finish" /\ reply = "Ok" => gate[current.run] = "Finished"
    BY <1>1 DEF RecorderInv, WriterGates
  <2>2. QED
    BY <1>1, <1>3, <2>1 DEF RecorderInv, CallerGates, Queued
<1>6. ShutdownLast'
  BY <1>1, <1>2 DEF RecorderInv, ShutdownLast, Sending
<1>7. QueueOrder' /\ QueueGates' /\ RunLogs' /\ NoneMissing'
  BY <1>1, <1>2, RunsFrameLeave DEF InHand
<1>8. WriterGates'
  BY <1>1, <1>2 DEF RecorderInv, WriterGates, InHand
<1>9. Owners'
  <2>1. ASSUME NEW cmd, Owned(cmd), cmd.caller \in Callers \cup {Nobody},
               current.caller = cmd.caller => cmd.caller = Nobody
        PROVE  Owned(cmd)'
    BY <1>1, <2>1 DEF Owned, Holds
  <2>2. /\ \A i \in DOMAIN queue : queue[i].caller \in Callers \cup {Nobody}
        /\ \A i \in DOMAIN queue : current.caller = queue[i].caller => queue[i].caller = Nobody
    BY <1>2, Commands DEF Command, RecorderInv, Owners
  <2>3. \A i \in DOMAIN queue : Owned(queue[i])'
    BY <1>1, <2>1, <2>2 DEF RecorderInv, Owners
  <2>4. \A i, j \in DOMAIN queue :
            queue[i].caller = queue[j].caller => i = j \/ queue[i].caller = Nobody
    BY DEF RecorderInv, Owners
  <2>5. \A d \in Callers : phase[d] = "Wait" /\ answer'[d] = "None" =>
            \E i \in DOMAIN queue : queue[i].caller = d
    BY <1>1, <1>2 DEF RecorderInv, Owners
  <2>6. outcome' = "Ok" => \A d \in Callers : phase[d] = "Wait" => answer'[d] # "None"
    BY <1>1, <1>2, <2>5 DEF RecorderInv, ShutdownLast
  <2>7. QED
    BY <1>1, <2>3, <2>4, <2>5, <2>6 DEF Owners
<1>10. QED
  BY <1>4, <1>5, <1>6, <1>7, <1>8, <1>9 DEF RecorderInv

LEMMA DropReceiverInv ==
    ASSUME TypeOK, RecorderInv, DropReceiver
    PROVE  RecorderInv'
<1> USE DEF handleVars, gateVars, channelVars, storeVars, historyVars
<1>1. /\ UNCHANGED <<phase, op, on, result, admission, runAdmission, gate, writerStatus, stored,
                     outcome, sequences, events, finishedRuns, accepted>>
      /\ wphase = "Unwind" /\ wphase' = "Guard" /\ current' = NoCommand
      /\ open' = FALSE /\ queue' = <<>>
      /\ \A d \in Callers : answer'[d] = answer[d] \/ (answer'[d] = "Dropped" /\ phase[d] = "Wait")
  <2>1. \A d \in Callers : (Holds(d, current) \/ \E i \in DOMAIN queue : Holds(d, queue[i]))
            => phase[d] = "Wait"
    BY RecorderAssumption DEF RecorderInv, Owners, Owned, Holds
  <2>2. QED
    BY <2>1 DEF DropReceiver
<1>2. outcome # "None" /\ NoCommand.op = "None"
  BY <1>1, HandFacts DEF RecorderInv, WriterGates
<1>3. Exclusion'
  BY <1>1 DEF RecorderInv, Exclusion, Sending
<1>4. CallerGates'
  BY <1>1 DEF RecorderInv, CallerGates
<1>5. ShutdownLast'
  BY <1>1, <1>2 DEF RecorderInv, ShutdownLast, Sending
<1>6. QueueOrder' /\ QueueGates'
  BY <1>1 DEF QueueOrder, QueueGates
<1>7. RunLogs'
  <2> SUFFICES ASSUME NEW r \in RunIds PROVE RunLog(r)'
    BY DEF RunLogs
  <2>1. RunLog(r)
    BY DEF RecorderInv, RunLogs
  <2>2. QED
    BY <1>1, <2>1 DEF RunLog
<1>8. NoneMissing'
  <2>1. outcome # "Error" => queue = <<>>
    BY <1>2 DEF RecorderInv, ShutdownLast, TypeOK, WriterTypes
  <2>2. \A r : Taken(r)' = Taken(r)
    BY <1>1 DEF Taken, InHand
  <2>3. outcome # "Error" => \A r, k : InQueue(r, k)' <=> InQueue(r, k)
    BY <1>1, <2>1 DEF InQueue
  <2>4. QED
    BY <1>1, <2>2, <2>3 DEF RecorderInv, NoneMissing
<1>9. WriterGates'
  BY <1>1, <1>2 DEF RecorderInv, WriterGates, InHand
<1>10. Owners'
  <2>1. outcome = "Ok" => \A d \in Callers : phase[d] = "Wait" => answer'[d] # "None"
    BY <1>1 DEF RecorderInv, Owners
  <2>2. QED
    BY <1>1, <2>1 DEF Owners
<1>11. QED
  BY <1>3, <1>4, <1>5, <1>6, <1>7, <1>8, <1>9, <1>10 DEF RecorderInv

LEMMA GuardDropInv ==
    ASSUME TypeOK, RecorderInv, GuardDrop
    PROVE  RecorderInv'
<1> USE DEF callVars, handleVars, gateVars, channelVars, storeVars, historyVars
<1>1. /\ UNCHANGED <<phase, op, on, answer, result, admission, runAdmission, open, queue, stored, current,
                     reply, outcome, sequences, events, finishedRuns, accepted>>
      /\ wphase = "Guard" /\ wphase' = "Exited"
      /\ writerStatus' # "Running"
      /\ \A r \in RunIds : gate'[r] = gate[r] \/ (gate[r] = "Finishing" /\ gate'[r] = "FailedWriter")
  BY DEF GuardDrop, TypeOK, GateTypes
<1>2. current = NoCommand /\ queue = <<>> /\ open = FALSE
  BY <1>1, HandFacts DEF RecorderInv, WriterGates, TypeOK, ChannelTypes
<1>3. Exclusion'
  BY <1>1, CallersFrame
<1>4. CallerGates'
  <2>1. \A d \in Callers : on[d] \in RunIds
    BY DEF TypeOK, CallTypes
  <2>2. QED
    BY <1>1, <1>2, <2>1 DEF RecorderInv, CallerGates
<1>5. ShutdownLast'
  BY <1>1 DEF RecorderInv, ShutdownLast, Sending
<1>6. QueueOrder' /\ QueueGates'
  BY <1>1, <1>2 DEF QueueOrder, QueueGates
<1>7. RunLogs'
  <2> SUFFICES ASSUME NEW r \in RunIds PROVE RunLog(r)'
    BY DEF RunLogs
  <2>1. RunLog(r)
    BY DEF RecorderInv, RunLogs
  <2>2. QED
    BY <1>1, <2>1 DEF RunLog
<1>8. NoneMissing'
  <2>1. \A r, k : InQueue(r, k)' <=> InQueue(r, k)
    BY <1>1 DEF InQueue
  <2>2. \A r : Taken(r)' = Taken(r)
    BY <1>1 DEF Taken, InHand
  <2>3. QED
    BY <1>1, <2>1, <2>2 DEF RecorderInv, NoneMissing
<1>9. WriterGates'
  BY <1>1, <1>2 DEF RecorderInv, WriterGates, InHand
<1>10. Owners'
  BY <1>1 DEF RecorderInv, Owners, Owned, Holds
<1>11. QED
  BY <1>3, <1>4, <1>5, <1>6, <1>7, <1>8, <1>9, <1>10 DEF RecorderInv
LEMMA QueueTail ==
    ASSUME NEW q \in Seq(Command), q # <<>>
    PROVE  /\ Head(q) = q[1] /\ 1 \in DOMAIN q
           /\ \A i \in DOMAIN Tail(q) : i \in Int /\ i + 1 \in DOMAIN q /\ 1 < i + 1
           /\ \A i \in DOMAIN Tail(q) : Tail(q)[i] = q[i + 1]
           /\ \A i \in DOMAIN q : i = 1 \/ (i \in Int /\ 1 < i /\ i - 1 \in DOMAIN Tail(q))
           /\ DOMAIN Tail(q) = {} => Tail(q) = <<>>
<1>1. Tail(q) \in Seq(Command) /\ Len(Tail(q)) = Len(q) - 1 /\ Len(q) \in Nat /\ Len(q) # 0
  BY EmptySeq
<1>2. DOMAIN Tail(q) = {} => Tail(q) = <<>>
  <2>1. Len(Tail(q)) \in Nat /\ DOMAIN Tail(q) = 1..Len(Tail(q))
    BY <1>1
  <2>2. \A n \in Nat : n # 0 => 1 \in 1..n
    OBVIOUS
  <2>3. DOMAIN Tail(q) = {} => Len(Tail(q)) = 0
    BY <2>1, <2>2
  <2>4. QED
    BY <1>1, <2>3, EmptySeq
<1>3. /\ Head(q) = q[1] /\ 1 \in DOMAIN q
      /\ \A i \in DOMAIN Tail(q) : i \in Int /\ i + 1 \in DOMAIN q /\ 1 < i + 1
      /\ \A i \in DOMAIN Tail(q) : Tail(q)[i] = q[i + 1]
      /\ \A i \in DOMAIN q : i = 1 \/ (i \in Int /\ 1 < i /\ i - 1 \in DOMAIN Tail(q))
  BY <1>1
<1>4. QED
  BY <1>2, <1>3

\* The record received is the next one of its run: every earlier one is stored,
\* and every other one still queued has a higher number.
LEMMA ReceivedIsNext ==
    ASSUME TypeOK, RecorderInv, Receive, queue[1].op = "Emit"
    PROVE  /\ queue[1].record = Len(events[queue[1].run]) + 1
           /\ queue[1].record <= accepted[queue[1].run]
<1> DEFINE r == queue[1].run
           k == Len(events[r]) + 1
<1>1. /\ queue \in Seq(Command) /\ queue # <<>> /\ wphase = "Receive"
      /\ outcome # "Error"
  BY DEF Receive, TypeOK, ChannelTypes, RecorderInv, WriterGates
<1>2. 1 \in DOMAIN queue /\ \A i \in DOMAIN queue : i = 1 \/ (i \in Int /\ 1 < i)
  BY <1>1, QueueTail
<1>3. queue[1] \in Command /\ QueueGate(queue[1])
  BY <1>2, Commands DEF RecorderInv, QueueGates
<1>4. r \in RunIds /\ queue[1].record \in Nat
  BY <1>3 DEF Command
<1>5. Taken(r) = Len(events[r]) /\ Len(events[r]) \in Nat /\ accepted[r] \in Nat
  BY <1>1, <1>4, TakenAccepted DEF Taken, InHand
<1>6. Len(events[r]) < queue[1].record /\ queue[1].record <= accepted[r]
  BY <1>3, <1>5 DEF QueueGate
<1>7. InQueue(r, k)
  <2>1. k \in Taken(r) + 1 .. accepted[r]
    BY <1>4, <1>5, <1>6
  <2>2. QED
    BY <1>1, <1>4, <2>1 DEF RecorderInv, NoneMissing
<1>8. PICK i \in DOMAIN queue : queue[i].op = "Emit" /\ queue[i].run = r /\ queue[i].record = k
  BY <1>7 DEF InQueue
<1>9. i # 1 => queue[1].record < queue[i].record
  <2>1. i # 1 => InOrder(queue[1], queue[i])
    BY <1>2 DEF RecorderInv, QueueOrder
  <2>2. QED
    BY <1>8, <2>1 DEF InOrder
<1>10. QED
  BY <1>4, <1>5, <1>6, <1>8, <1>9

LEMMA ReceiveInv ==
    ASSUME TypeOK, RecorderInv, Receive
    PROVE  RecorderInv'
<1> USE DEF callVars, handleVars, gateVars, storeVars, historyVars
<1>1. /\ UNCHANGED <<phase, op, on, answer, result, admission, runAdmission, gate, open, writerStatus,
                     stored, reply, outcome, sequences, events, finishedRuns, accepted>>
      /\ wphase = "Receive" /\ wphase' = "Execute"
      /\ queue # <<>> /\ current' = Head(queue) /\ queue' = Tail(queue)
      /\ queue \in Seq(Command)
  BY DEF Receive, TypeOK, ChannelTypes
<1>2. /\ current = NoCommand /\ current' = queue[1] /\ 1 \in DOMAIN queue
      /\ \A i \in DOMAIN queue' : i \in Int /\ i + 1 \in DOMAIN queue /\ 1 < i + 1
      /\ \A i \in DOMAIN queue' : queue'[i] = queue[i + 1]
      /\ \A i \in DOMAIN queue : i = 1 \/ (i \in Int /\ 1 < i /\ i - 1 \in DOMAIN queue')
      /\ DOMAIN queue' = {} => queue' = <<>>
  BY <1>1, QueueTail, HandFacts
<1>3. /\ queue[1] \in Command /\ queue[1] # NoCommand /\ QueueGate(queue[1])
      /\ outcome = "None" /\ open /\ NoCommand.op = "None"
  BY <1>1, <1>2, Commands, CommandHasCaller, HandFacts DEF RecorderInv, QueueGates, WriterGates
<1>4. \A i \in DOMAIN queue' : InOrder(queue[1], queue'[i])
  BY <1>2 DEF RecorderInv, QueueOrder
<1>5. Exclusion'
  BY <1>1, CallersFrame
<1>6. CallerGates'
  <2>1. \A o, r : Queued(o, r)' => Queued(o, r)
    BY <1>2 DEF Queued
  <2>2. QED
    BY <1>1, <2>1 DEF RecorderInv, CallerGates
<1>7. ShutdownLast'
  <2>1. current'.op = "Shutdown" => queue' = <<>>
    BY <1>2, <1>4 DEF InOrder
  <2>2. (\E i \in DOMAIN queue' : queue'[i].op = "Shutdown") \/ current'.op = "Shutdown"
            => \E i \in DOMAIN queue : queue[i].op = "Shutdown"
    BY <1>2
  <2>3. QED
    BY <1>1, <1>3, <2>1, <2>2 DEF RecorderInv, ShutdownLast, Sending
<1>8. QueueOrder'
  <2> SUFFICES ASSUME NEW i \in DOMAIN queue', NEW j \in DOMAIN queue', i < j
               PROVE  InOrder(queue'[i], queue'[j])
    BY DEF QueueOrder, InOrder
  <2>1. i + 1 \in DOMAIN queue /\ j + 1 \in DOMAIN queue /\ i + 1 < j + 1
    BY <1>2
  <2>2. QED
    BY <1>2, <2>1 DEF RecorderInv, QueueOrder
<1>9. queue[1].op = "Emit" => /\ queue[1].record = Len(events[queue[1].run]) + 1
                              /\ queue[1].record <= accepted[queue[1].run]
  BY ReceivedIsNext
<1>10. \A r \in RunIds : /\ Taken(r) = Len(events[r])
                         /\ Taken(r)' = IF queue[1].op = "Emit" /\ queue[1].run = r
                                        THEN queue[1].record ELSE Taken(r)
  BY <1>1, <1>2, <1>9 DEF Taken, InHand
<1>11. QueueGates'
  <2> SUFFICES ASSUME NEW i \in DOMAIN queue' PROVE QueueGate(queue[i])'
    BY DEF QueueGates
  <2>1. /\ QueueGate(queue'[i]) /\ queue'[i] \in Command
        /\ InOrder(queue[1], queue'[i])
    BY <1>2, <1>4, Commands DEF RecorderInv, QueueGates
  <2>2. Taken(queue[i].run)' = IF queue[1].op = "Emit" /\ queue[1].run = queue'[i].run
                               THEN queue[1].record ELSE Taken(queue'[i].run)
    BY <1>10, <2>1 DEF Command
  <2>3. QED
    BY <1>1, <2>1, <2>2 DEF QueueGate, InOrder
<1>12. WriterGates'
  <2>1. ASSUME queue[1].op = "Finish"
        PROVE  /\ ~Queued("Emit", current.run)' /\ ~Queued("Finish", current.run)'
               /\ \A d \in Callers : op[d] = "Finish" /\ phase[d] = "Send" => on[d] # queue[1].run
    <3>1. \A i \in DOMAIN queue' : queue'[i].run = queue[1].run => queue'[i].op \notin {"Emit", "Finish"}
      BY <1>4, <2>1 DEF InOrder
    <3>2. Queued("Finish", queue[1].run)
      BY <1>2, <2>1 DEF Queued
    <3>3. \A d \in Callers : op[d] = "Finish" /\ phase[d] = "Send" => on[d] # queue[1].run
      BY <1>3, <3>2 DEF RecorderInv, CallerGates
    <3>4. QED
      BY <1>2, <3>1, <3>3 DEF Queued
  <2>2. InHand("Emit")' => /\ gate[queue[1].run] \notin {"Absent", "Finished"}
                           /\ queue[1].record = Len(events[queue[1].run]) + 1
                           /\ queue[1].record <= accepted[queue[1].run]
    BY <1>2, <1>3, <1>9 DEF InHand, QueueGate
  <2>3. InHand("Finish")' => queue[1].op = "Finish" /\ gate[queue[1].run] = "Finishing"
    BY <1>2, <1>3 DEF InHand, QueueGate
  <2>4. InHand("Complete")' => gate[queue[1].run] = "Finished"
    BY <1>2, <1>3 DEF InHand, QueueGate
  <2>5. QED
    BY <1>1, <1>2, <1>3, <2>1, <2>2, <2>3, <2>4 DEF WriterGates
<1>13. RunLogs'
  <2> SUFFICES ASSUME NEW r \in RunIds PROVE RunLog(r)'
    BY DEF RunLogs
  <2>1. RunLog(r)
    BY DEF RecorderInv, RunLogs
  <2>2. QED
    BY <1>1, <2>1 DEF RunLog
<1>14. NoneMissing'
  <2> SUFFICES ASSUME NEW r \in RunIds, NEW k \in Taken(r)' + 1 .. accepted[r]
               PROVE  InQueue(r, k)'
    BY <1>1 DEF NoneMissing
  <2>1. Taken(r) \in Nat /\ accepted[r] \in Nat /\ queue[1].record \in Nat
    BY <1>3, TakenAccepted DEF Command
  <2>2. k \in Taken(r) + 1 .. accepted[r] /\ ~(queue[1].op = "Emit" /\ queue[1].run = r /\ queue[1].record = k)
    BY <1>9, <1>10, <2>1
  <2>3. PICK i \in DOMAIN queue : queue[i].op = "Emit" /\ queue[i].run = r /\ queue[i].record = k
    BY <1>3, <2>2 DEF RecorderInv, NoneMissing, InQueue
  <2>4. i # 1 /\ i - 1 \in DOMAIN queue' /\ queue'[i - 1] = queue[i]
    BY <1>2, <2>2, <2>3
  <2>5. QED
    BY <2>3, <2>4 DEF InQueue
<1>15. Owners'
  <2>1. ASSUME NEW cmd PROVE Owned(cmd)' <=> Owned(cmd)
    BY <1>1 DEF Owned
  <2>2. \A i \in DOMAIN queue : Owned(queue[i])
    BY DEF RecorderInv, Owners
  <2>3. Owned(current)'
    BY <1>2, <2>1, <2>2
  <2>4. ASSUME NEW i \in DOMAIN queue' PROVE Owned(queue[i])'
    BY <1>2, <2>1, <2>2
  <2>5. \A i, j \in DOMAIN queue' :
            queue'[i].caller = queue'[j].caller => i = j \/ queue'[i].caller = Nobody
    BY <1>2 DEF RecorderInv, Owners
  <2>6. \A i \in DOMAIN queue' : current'.caller = queue'[i].caller => queue'[i].caller = Nobody
    BY <1>2 DEF RecorderInv, Owners
  <2>7. \A d \in Callers : phase[d] = "Wait" /\ answer[d] = "None" =>
            Holds(d, current') \/ \E i \in DOMAIN queue' : queue'[i].caller = d
    <3> SUFFICES ASSUME NEW d \in Callers, phase[d] = "Wait", answer[d] = "None"
                 PROVE  Holds(d, current') \/ \E i \in DOMAIN queue' : queue'[i].caller = d
      OBVIOUS
    <3>1. PICK i \in DOMAIN queue : queue[i].caller = d
      BY <1>1, <1>2 DEF RecorderInv, Owners, Holds
    <3>2. CASE i = 1
      BY <1>2, <1>3, <3>1, <3>2 DEF Holds
    <3>3. CASE i # 1
      <4>1. i - 1 \in DOMAIN queue' /\ queue'[i - 1] = queue[i]
        BY <1>2, <3>3
      <4>2. QED
        BY <3>1, <4>1
    <3>4. QED
      BY <3>2, <3>3
  <2>8. QED
    BY <1>1, <1>3, <2>3, <2>4, <2>5, <2>6, <2>7 DEF Owners, Holds
<1>16. QED
  BY <1>5, <1>6, <1>7, <1>8, <1>11, <1>12, <1>13, <1>14, <1>15 DEF RecorderInv
-----------------------------------------------------------------------------
LEMMA InitInv ==
    ASSUME Init
    PROVE  RecorderInv
<1>1. Exclusion /\ CallerGates
  BY DEF Init, Exclusion, Sending, CallerGates
<1>2. ShutdownLast /\ QueueOrder /\ QueueGates /\ Owners
  BY DEF Init, ShutdownLast, QueueOrder, QueueGates, Owners, NoCommand, Sending
<1>3. WriterGates
  BY DEF Init, WriterGates, InHand, NoCommand
<1>4. RunLogs
  <2> SUFFICES ASSUME NEW r \in RunIds PROVE RunLog(r)
    BY DEF RunLogs
  <2>1. QED
    BY DEF Init, RunLog
<1>5. NoneMissing
  BY DEF Init, NoneMissing, Taken, InHand
<1>6. QED
  BY <1>1, <1>2, <1>3, <1>4, <1>5 DEF RecorderInv

LEMMA StepInv ==
    ASSUME TypeOK, RecorderInv, [Next]_vars
    PROVE  RecorderInv'
<1>1. CASE \E c \in Callers, o \in Ops \ {"None"}, r \in RunIds : Begin(c, o, r)
  BY <1>1, BeginInv
<1>2. ASSUME NEW c \in Callers, CallerStep(c)
      PROVE  RecorderInv'
  <2>1. CASE Send(c)
    BY <2>1, SendOpenInv, SendClosedInv
  <2>2. QED
    BY <1>2, <2>1, EnterRunInv, EnterInv, ReserveInv, CommitInv, AnsweredInv, WatchInv, JoinInv
       DEF CallerStep
<1>3. ASSUME NEW c \in Callers, Cancel(c)
      PROVE  RecorderInv'
  BY <1>3, CancelInv
<1>4. CASE DropHandles
  BY <1>4, StutterInv DEF DropHandles, historyVars
<1>5. CASE WriterStep
  BY <1>5, ReceiveInv, FailInv, CreateInStoreInv, RegisterRunInv, AppendToStoreInv, CommitSequenceInv,
     FinishRunInv, CompleteInStoreInv, CloseWriterInv, RespondInv, DropReceiverInv, GuardDropInv
     DEF WriterStep
<1>6. CASE UNCHANGED vars
  BY <1>6, StutterInv DEF vars, historyVars
<1>7. QED
  BY <1>1, <1>2, <1>3, <1>4, <1>5, <1>6 DEF Next

\* Why the recorder keeps its promises: in every reachable state the queue,
\* the gates, the writer's hand and the store tell the same story of each run.
THEOREM InvariantCorrect == Spec => []RecorderInv
<1>1. Init => RecorderInv
  BY InitInv
<1>2. TypeOK /\ RecorderInv /\ [Next]_vars => RecorderInv'
  BY StepInv
<1>3. QED
  BY <1>1, <1>2, TypeCorrect, PTL DEF Spec

\* What a run has in the store is a prefix, in order and gap free, of what emit
\* accepted for it.
THEOREM StoreHoldsPrefix == Spec => []PersistedInAcceptedOrder
<1>1. RecorderInv => PersistedInAcceptedOrder
  BY DEF RecorderInv, RunLogs, RunLog, PersistedInAcceptedOrder
<1>2. QED
  BY <1>1, InvariantCorrect, PTL

\* finish_run is a persistence barrier.
THEOREM FinishIsBarrier == Spec => []FinishBarrier
<1>1. RecorderInv => FinishBarrier
  BY DEF RecorderInv, RunLogs, RunLog, CallerGates, FinishBarrier
<1>2. QED
  BY <1>1, InvariantCorrect, PTL

\* No record is queued behind the FinishRun of its run, and nothing behind Shutdown.
THEOREM QueueIsOrdered == Spec => []NothingQueuedTooLate
<1>1. TypeOK /\ RecorderInv => NothingQueuedTooLate
  <2> SUFFICES ASSUME TypeOK, RecorderInv PROVE NothingQueuedTooLate
    OBVIOUS
  <2>1. ASSUME NEW i \in DOMAIN queue, NEW j \in DOMAIN queue, i < j
        PROVE  /\ queue[i].op # "Shutdown"
               /\ queue[i].op = "Finish" /\ queue[j].op = "Emit" => queue[i].run # queue[j].run
    BY <2>1 DEF RecorderInv, QueueOrder, InOrder
  <2>2. ASSUME NEW i \in DOMAIN queue, queue[i].op = "Emit"
        PROVE  queue[i].run \notin finishedRuns
    <3>1. gate[queue[i].run] # "Finished" /\ queue[i].run \in RunIds
      BY <2>2, Commands DEF RecorderInv, QueueGates, QueueGate, Command
    <3>2. QED
      BY <3>1 DEF RecorderInv, RunLogs, RunLog
  <2>3. QED
    BY <2>1, <2>2 DEF NothingQueuedTooLate
<1>2. QED
  BY <1>1, InvariantCorrect, TypeCorrect, PTL

\* A shutdown that reports success lost no accepted record and no answer.
THEOREM ShutdownDrains == Spec => []CleanShutdownDrains
<1>1. TypeOK /\ RecorderInv => CleanShutdownDrains
  <2> SUFFICES ASSUME TypeOK, RecorderInv, outcome = "Ok" PROVE CleanShutdownDrains
    BY DEF CleanShutdownDrains
  <2>1. queue = <<>> /\ \A c \in Callers : phase[c] = "Wait" => answer[c] # "None"
    BY DEF RecorderInv, ShutdownLast, Owners
  <2>2. ASSUME NEW r \in RunIds PROVE Len(events[r]) = accepted[r]
    <3>1. ~InHand("Emit")
      BY DEF RecorderInv, WriterGates, InHand
    <3>2. Taken(r) = Len(events[r])
      BY <3>1 DEF Taken
    <3>3. /\ Len(events[r]) \in Nat /\ accepted[r] \in Nat /\ Len(events[r]) <= accepted[r]
      BY <3>2, TakenAccepted
    <3>4. ~InQueue(r, accepted[r])
      BY <2>1 DEF InQueue
    <3>5. accepted[r] \notin Taken(r) + 1 .. accepted[r]
      BY <3>4 DEF RecorderInv, NoneMissing
    <3>6. QED
      BY <3>2, <3>3, <3>5
  <2>3. QED
    BY <2>1, <2>2 DEF CleanShutdownDrains
<1>2. QED
  BY <1>1, InvariantCorrect, TypeCorrect, PTL
-----------------------------------------------------------------------------
(* The refinements: the few steps that change what an observer of a run can   *)
(* see and how each is a step of the abstract log; what bounds the accepted    *)
(* records, and how each thing the writer does is a call of the store.         *)

\* What can be seen of the runs: their gates, store entries, logs and promises.
GatesMove ==
    /\ UNCHANGED <<stored, events, accepted>>
    /\ \A r \in RunIds :
           \/ gate'[r] = gate[r]
           \/ gate[r] = "Active" /\ gate'[r] \in {"Finishing", "FailedWriter", "FailedClosed"}
           \/ gate[r] = "Finishing" /\ gate'[r] = "FailedWriter"
Stores(r) ==
    /\ gate[r] = "Absent" /\ stored[r] = "NoRun"
    /\ stored' = [stored EXCEPT ![r] = "Running"]
    /\ UNCHANGED <<gate, events, accepted>>
Opens(r) ==
    /\ gate[r] = "Absent" /\ stored[r] = "Running"
    /\ gate' = [gate EXCEPT ![r] = "Active"]
    /\ UNCHANGED <<stored, events, accepted>>
Promises(r) ==
    /\ gate[r] = "Active" /\ stored[r] # "Completed"
    /\ accepted' = [accepted EXCEPT ![r] = @ + 1]
    /\ UNCHANGED <<gate, stored, events>>
Appends(r) ==
    /\ gate[r] \notin {"Absent", "Finished"} /\ stored[r] # "Completed"
    /\ Len(events[r]) < accepted[r]
    /\ \E e : events' = [events EXCEPT ![r] = Append(@, e)]
    /\ UNCHANGED <<gate, stored, accepted>>
Settles(r) ==
    /\ gate[r] = "Finishing" /\ stored[r] # "Completed"
    /\ Len(events[r]) = accepted[r]
    /\ gate' = [gate EXCEPT ![r] = "Finished"]
    /\ UNCHANGED <<stored, events, accepted>>
Completes(r) ==
    /\ gate[r] = "Finished"
    /\ stored' = [stored EXCEPT ![r] = "Completed"]
    /\ UNCHANGED <<gate, events, accepted>>
Visible ==
    \/ GatesMove
    \/ \E r \in RunIds : \/ Stores(r) \/ Opens(r) \/ Promises(r) \/ Appends(r)
                         \/ Settles(r) \/ Completes(r)

LEMMA VisibleStep ==
    ASSUME TypeOK, RecorderInv, RecorderInv', [Next]_vars
    PROVE  Visible
<1> USE DEF handleVars, gateVars, channelVars, writerVars, storeVars, historyVars
<1>1. \A r \in RunIds : RunLog(r)
  BY DEF RecorderInv, RunLogs
<1>2. ASSUME UNCHANGED <<gate, stored, events, accepted>> PROVE Visible
  BY <1>2 DEF Visible, GatesMove
<1>3. ASSUME NEW c \in Callers, CallerStep(c) PROVE Visible
  <2>1. ASSUME op[c] = "Finish", phase[c] \in {"Admission", "Reserve", "Commit"},
               NEW g \in {"Finishing", "FailedWriter", "FailedClosed"},
               gate' = [gate EXCEPT ![on[c]] = g],
               UNCHANGED <<stored, events, accepted>>
        PROVE  Visible
    <3>1. gate[on[c]] = "Active" /\ on[c] \in RunIds
      BY <2>1 DEF RecorderInv, CallerGates, TypeOK, CallTypes
    <3>2. QED
      BY <2>1, <3>1 DEF Visible, GatesMove, TypeOK, GateTypes
  <2>2. FailedGate \in {"FailedWriter", "FailedClosed"}
    BY DEF FailedGate
  <2>3. ASSUME GiveUp(c), phase[c] \in {"Admission", "Reserve"}, UNCHANGED <<stored, events, accepted>>
        PROVE  Visible
    BY <1>2, <2>1, <2>2, <2>3 DEF GiveUp
  <2>4. CASE Enter(c)
    BY <1>2, <2>3, <2>4 DEF Enter
  <2>5. CASE Reserve(c)
    BY <1>2, <2>3, <2>5 DEF Reserve
  <2>6. CASE Commit(c)
    BY <1>2, <2>1, <2>6 DEF Commit
  <2>7. CASE Send(c)
    <3>1. CASE op[c] # "Emit"
      BY <1>2, <2>7, <3>1 DEF Send
    <3>2. CASE op[c] = "Emit"
      <4>1. gate[on[c]] = "Active" /\ on[c] \in RunIds
        BY <2>7, <3>2 DEF Send, RecorderInv, CallerGates, TypeOK, CallTypes
      <4>2. stored[on[c]] # "Completed"
        BY <1>1, <4>1 DEF RunLog
      <4>3. QED
        BY <2>7, <3>2, <4>1, <4>2 DEF Visible, Promises, Send
    <3>3. QED
      BY <3>1, <3>2
  <2>8. CASE EnterRun(c) \/ Answered(c) \/ Watch(c) \/ Join(c)
    BY <1>2, <2>8 DEF EnterRun, Answered, Watch, Join
  <2>9. QED
    BY <1>3, <2>4, <2>5, <2>6, <2>7, <2>8 DEF CallerStep
<1>4. ASSUME WriterStep PROVE Visible
  <2>1. CASE CreateInStore
    <3>1. CASE UNCHANGED stored
      BY <1>2, <2>1, <3>1 DEF CreateInStore
    <3>2. CASE ~UNCHANGED stored
      <4>1. /\ current.run \in RunIds /\ gate[current.run] = "Absent" /\ wphase = "Execute"
            /\ stored' = [stored EXCEPT ![current.run] = "Running"]
            /\ UNCHANGED <<gate, events, accepted>>
        BY <2>1, <3>2, HandFacts DEF CreateInStore, Executing
      <4>2. stored[current.run] = "NoRun"
        BY <1>1, <4>1 DEF RunLog
      <4>3. QED
        BY <4>1, <4>2 DEF Visible, Stores
    <3>3. QED
      BY <3>1, <3>2
  <2>2. CASE RegisterRun
    <3>1. current.run \in RunIds /\ gate[current.run] = "Absent" /\ wphase = "Register"
      BY <2>2, HandFacts DEF RegisterRun, RecorderInv, WriterGates
    <3>2. stored[current.run] = "Running"
      BY <1>1, <3>1 DEF RunLog, TypeOK, StoreTypes
    <3>3. QED
      BY <2>2, <3>1, <3>2 DEF Visible, Opens, RegisterRun
  <2>3. CASE AppendToStore
    <3>1. /\ current.run \in RunIds /\ gate[current.run] \notin {"Absent", "Finished"}
          /\ current.record = Len(events[current.run]) + 1 /\ current.record <= accepted[current.run]
      BY <2>3, HandFacts DEF AppendToStore, Executing, InHand, RecorderInv, WriterGates
    <3>2. Len(events[current.run]) < accepted[current.run]
      BY <3>1, TakenAccepted
    <3>3. stored[current.run] # "Completed"
      BY <1>1, <3>1 DEF RunLog
    <3>4. QED
      BY <2>3, <3>1, <3>2, <3>3 DEF Visible, Appends, AppendToStore
  <2>4. CASE FinishRun
    <3>1. current.run \in RunIds /\ gate[current.run] = "Finishing"
      BY <2>4, HandFacts DEF FinishRun, Executing, InHand, RecorderInv, WriterGates
    <3>2. gate' = [gate EXCEPT ![current.run] = "Finished"] /\ UNCHANGED <<stored, events, accepted>>
      BY <2>4, <3>1 DEF FinishRun
    <3>3. stored[current.run] # "Completed"
      BY <1>1, <3>1 DEF RunLog
    <3>4. Len(events[current.run]) = accepted[current.run]
      <4>1. gate'[current.run] = "Finished"
        BY <3>1, <3>2 DEF TypeOK, GateTypes
      <4>2. \A r \in RunIds : gate'[r] = "Finished" => Len(events'[r]) = accepted'[r]
        BY DEF RecorderInv, RunLogs, RunLog
      <4>3. QED
        BY <3>1, <3>2, <4>1, <4>2
    <3>5. QED
      BY <3>1, <3>2, <3>3, <3>4 DEF Visible, Settles
  <2>5. CASE CompleteInStore
    <3>1. CASE UNCHANGED stored
      BY <1>2, <2>5, <3>1 DEF CompleteInStore
    <3>2. CASE ~UNCHANGED stored
      <4>1. /\ current.run \in RunIds /\ current.run \in finishedRuns
            /\ stored' = [stored EXCEPT ![current.run] = "Completed"]
            /\ UNCHANGED <<gate, events, accepted>>
        BY <2>5, <3>2, HandFacts DEF CompleteInStore, Executing
      <4>2. gate[current.run] = "Finished"
        BY <1>1, <4>1 DEF RunLog
      <4>3. QED
        BY <4>1, <4>2 DEF Visible, Completes
    <3>3. QED
      BY <3>1, <3>2
  <2>6. CASE GuardDrop
    BY <2>6 DEF GuardDrop, Visible, GatesMove, TypeOK, GateTypes
  <2>7. CASE \/ Receive \/ ChannelClosed \/ CommitSequence \/ AppendFails \/ CloseWriter
             \/ Respond \/ Panic \/ DropReceiver
    BY <1>2, <2>7 DEF Receive, ChannelClosed, CommitSequence, AppendFails, CloseWriter,
                      Respond, Panic, DropReceiver
  <2>8. QED
    BY <1>4, <2>1, <2>2, <2>3, <2>4, <2>5, <2>6, <2>7 DEF WriterStep
<1>5. CASE \/ \E c \in Callers, o \in Ops \ {"None"}, r \in RunIds : Begin(c, o, r)
           \/ \E c \in Callers : Cancel(c)
           \/ DropHandles \/ UNCHANGED vars
  BY <1>2, <1>5 DEF Begin, Cancel, DropHandles, vars
<1>6. QED
  BY <1>3, <1>4, <1>5 DEF Next
\* A settled gate never changes, none becomes Active again, and only a
\* finishing one becomes Finished.
THEOREM GatesNeverReopen == Spec => GateNeverReopens
<1>1. TypeOK /\ Visible =>
          \A r \in RunIds :
              /\ gate[r] \in {"Finished", "FailedWriter", "FailedClosed"} => gate'[r] = gate[r]
              /\ gate[r] # "Absent" => gate'[r] \notin {"Absent", "Active"} \/ gate'[r] = gate[r]
              /\ gate'[r] = "Finished" => gate[r] \in {"Finishing", "Finished"}
  <2> SUFFICES ASSUME TypeOK, Visible, NEW r \in RunIds
               PROVE  /\ gate[r] \in {"Finished", "FailedWriter", "FailedClosed"} => gate'[r] = gate[r]
                      /\ gate[r] # "Absent" => gate'[r] \notin {"Absent", "Active"} \/ gate'[r] = gate[r]
                      /\ gate'[r] = "Finished" => gate[r] \in {"Finishing", "Finished"}
    OBVIOUS
  <2>1. \/ gate'[r] = gate[r]
        \/ gate[r] = "Absent" /\ gate'[r] = "Active"
        \/ gate[r] = "Active" /\ gate'[r] \in {"Finishing", "FailedWriter", "FailedClosed"}
        \/ gate[r] = "Finishing" /\ gate'[r] \in {"Finished", "FailedWriter"}
    BY DEF Visible, GatesMove, Stores, Opens, Promises, Appends, Settles, Completes, TypeOK, GateTypes
  <2>2. QED
    BY <2>1
<1>2. TypeOK /\ RecorderInv /\ RecorderInv' /\ [Next]_vars => Visible
  BY VisibleStep
<1>3. QED
  BY <1>1, <1>2, TypeCorrect, InvariantCorrect, PTL DEF Spec, GateNeverReopens

\* The state of a run in ReliableLog, as ImplementsReliableLog maps it.
LogState(r) == IF stored[r] = "Completed" THEN "Completed"
               ELSE IF gate[r] = "Finished" THEN "Finished"
               ELSE IF gate[r] # "Absent" THEN "Open" ELSE "Absent"

LEMMA LogStep ==
    ASSUME TypeOK, RecorderInv, Visible
    PROVE  [Log!Next]_(Log!vars)
<1> DEFINE state == [r \in RunIds |-> LogState(r)]
           persisted == [r \in RunIds |-> Len(events[r])]
<1>1. \A r \in RunIds : stored[r] = "Completed" => gate[r] = "Finished"
  BY DEF RecorderInv, RunLogs, RunLog
<1>2. CASE GatesMove
  <2>1. \A r \in RunIds : LogState(r)' = LogState(r)
    BY <1>1, <1>2 DEF GatesMove, LogState
  <2>2. state' = state /\ persisted' = persisted /\ accepted' = accepted
    BY <1>2, <2>1 DEF GatesMove
  <2>3. QED
    BY <2>2 DEF Log!vars, LogState
<1>3. ASSUME NEW r \in RunIds, Stores(r) PROVE [Log!Next]_(Log!vars)
  <2>1. \A s \in RunIds : LogState(s)' = LogState(s)
    BY <1>3 DEF Stores, LogState, TypeOK, StoreTypes
  <2>2. state' = state /\ persisted' = persisted /\ accepted' = accepted
    BY <1>3, <2>1 DEF Stores
  <2>3. QED
    BY <2>2 DEF Log!vars, LogState
<1>4. ASSUME NEW r \in RunIds, Opens(r) PROVE [Log!Next]_(Log!vars)
  <2>1. state[r] = "Absent" /\ state' = [state EXCEPT ![r] = "Open"]
        /\ persisted' = persisted /\ accepted' = accepted
    BY <1>4 DEF Opens, LogState, TypeOK, StoreTypes, GateTypes
  <2>2. Log!Create(r)
    BY <2>1 DEF Log!Create, LogState
  <2>3. QED
    BY <2>2 DEF Log!Next
<1>5. ASSUME NEW r \in RunIds, Promises(r) PROVE [Log!Next]_(Log!vars)
  <2>1. /\ state[r] = "Open" /\ state' = state /\ persisted' = persisted
        /\ accepted' = [accepted EXCEPT ![r] = @ + 1]
    BY <1>5 DEF Promises, LogState
  <2>2. Log!Accept(r)
    BY <2>1 DEF Log!Accept, LogState
  <2>3. QED
    BY <2>2 DEF Log!Next
<1>6. ASSUME NEW r \in RunIds, Appends(r) PROVE [Log!Next]_(Log!vars)
  <2>1. state[r] = "Open" /\ state' = state /\ accepted' = accepted
        /\ persisted[r] < accepted[r]
    BY <1>6 DEF Appends, LogState
  <2>2. persisted' = [persisted EXCEPT ![r] = @ + 1]
    <3>1. PICK e : events' = [events EXCEPT ![r] = Append(@, e)]
      BY <1>6 DEF Appends
    <3>2. events[r] \in Seq([sequence : Nat, record : Nat]) /\ events \in [RunIds -> Seq([sequence : Nat, record : Nat])]
      BY DEF TypeOK, StoreTypes
    <3>3. Len(events'[r]) = Len(events[r]) + 1
      BY <3>1, <3>2
    <3>4. \A s \in RunIds : Len(events'[s]) = IF s = r THEN Len(events[s]) + 1 ELSE Len(events[s])
      BY <3>1, <3>2, <3>3
    <3>5. QED
      BY <3>4
  <2>3. Log!Persist(r)
    BY <2>1, <2>2 DEF Log!Persist, LogState
  <2>4. QED
    BY <2>3 DEF Log!Next
<1>7. ASSUME NEW r \in RunIds, Settles(r) PROVE [Log!Next]_(Log!vars)
  <2>1. /\ state[r] = "Open" /\ state' = [state EXCEPT ![r] = "Finished"]
        /\ persisted[r] = accepted[r] /\ persisted' = persisted /\ accepted' = accepted
    BY <1>7 DEF Settles, LogState, TypeOK, GateTypes
  <2>2. Log!Finish(r)
    BY <2>1 DEF Log!Finish, LogState
  <2>3. QED
    BY <2>2 DEF Log!Next
<1>8. ASSUME NEW r \in RunIds, Completes(r) PROVE [Log!Next]_(Log!vars)
  <2>1. CASE stored[r] = "Completed"
    <3>1. \A s \in RunIds : LogState(s)' = LogState(s)
      BY <1>8, <2>1 DEF Completes, LogState, TypeOK, StoreTypes
    <3>2. state' = state /\ persisted' = persisted /\ accepted' = accepted
      BY <1>8, <3>1 DEF Completes
    <3>3. QED
      BY <3>2 DEF Log!vars, LogState
  <2>2. CASE stored[r] # "Completed"
    <3>1. /\ state[r] = "Finished" /\ state' = [state EXCEPT ![r] = "Completed"]
          /\ persisted' = persisted /\ accepted' = accepted
      BY <1>8, <2>2 DEF Completes, LogState, TypeOK, StoreTypes
    <3>2. Log!Complete(r)
      BY <3>1 DEF Log!Complete, LogState
    <3>3. QED
      BY <3>2 DEF Log!Next
  <2>3. QED
    BY <2>1, <2>2
<1>9. QED
  BY <1>2, <1>3, <1>4, <1>5, <1>6, <1>7, <1>8 DEF Visible

\* Whatever callers, cancellations and store failures do, the recorder acts on
\* each run as the steps of the abstract reliable log do.
THEOREM RecorderRefinesLog == Spec => ImplementsReliableLog
<1>1. Init => Log!Init
  BY DEF Init, Log!Init
<1>2. TypeOK /\ RecorderInv /\ RecorderInv' /\ [Next]_vars => [Log!Next]_(Log!vars)
  BY VisibleStep, LogStep
<1>3. QED
  BY <1>1, <1>2, TypeCorrect, InvariantCorrect, PTL DEF Spec, ImplementsReliableLog, Log!Spec
-----------------------------------------------------------------------------
\* What an accepted record costs: a call.  Only Begin brings a caller to the
\* start of an emit, and only a send that is accepted turns it into a record.
LEMMA CoverFrame ==
    ASSUME TypeOK, CallsCoverRecords, accepted' = accepted, calls' = calls,
           \A r \in RunIds : Emitting(r)' \subseteq Emitting(r)
    PROVE  CallsCoverRecords'
<1> SUFFICES ASSUME NEW r \in RunIds
             PROVE  IsFiniteSet(Emitting(r)') /\ accepted'[r] + Cardinality(Emitting(r)') <= calls'
  BY DEF CallsCoverRecords
<1> DEFINE before == Emitting(r)
           after == Emitting(r)'
<1>1. IsFiniteSet(before) /\ accepted[r] + Cardinality(before) <= calls /\ after \subseteq before
  BY DEF CallsCoverRecords
<1>2. accepted[r] \in Nat /\ calls \in Nat
  BY RecorderAssumption DEF TypeOK, HistoryTypes, HandleTypes
<1> HIDE DEF before, after
<1>3. /\ IsFiniteSet(after) /\ Cardinality(after) <= Cardinality(before)
      /\ Cardinality(after) \in Nat /\ Cardinality(before) \in Nat
  BY <1>1, FS_Subset, FS_CardinalityType
<1>4. accepted[r] + Cardinality(after) <= calls
  BY <1>1, <1>2, <1>3
<1>5. QED
  BY <1>3, <1>4 DEF after

LEMMA CoverBegin ==
    ASSUME TypeOK, CallsCoverRecords, NEW c \in Callers, NEW o \in Ops \ {"None"},
           NEW s \in RunIds, Begin(c, o, s)
    PROVE  CallsCoverRecords'
<1> SUFFICES ASSUME NEW r \in RunIds
             PROVE  IsFiniteSet(Emitting(r)') /\ accepted'[r] + Cardinality(Emitting(r)') <= calls'
  BY DEF CallsCoverRecords
<1> DEFINE before == Emitting(r)
           with == before \cup {c}
           after == Emitting(r)'
<1>1. IsFiniteSet(before) /\ accepted[r] + Cardinality(before) <= calls
  BY DEF CallsCoverRecords
<1>2. accepted[r] \in Nat /\ calls \in Nat /\ accepted' = accepted /\ calls' = calls + 1
  BY RecorderAssumption DEF TypeOK, HistoryTypes, HandleTypes, Begin, historyVars
<1>3. after \subseteq with
  <2>1. ASSUME NEW d \in Callers, d # c
        PROVE  op'[d] = op[d] /\ on'[d] = on[d] /\ phase'[d] = phase[d]
    BY <2>1 DEF Begin, TypeOK, CallTypes
  <2>2. QED
    BY <2>1 DEF Emitting
<1>4. IsFiniteSet(with) /\ Cardinality(with) <= Cardinality(before) + 1 /\ Cardinality(before) \in Nat
  <2> HIDE DEF before
  <2>1. Cardinality(before) \in Nat
    BY <1>1, FS_CardinalityType
  <2>2. /\ IsFiniteSet(with)
        /\ Cardinality(with) = IF c \in before THEN Cardinality(before) ELSE Cardinality(before) + 1
    BY <1>1, FS_AddElement
  <2> HIDE DEF with
  <2>3. QED
    BY <2>1, <2>2
<1> HIDE DEF before, with, after
<1>5. /\ IsFiniteSet(after) /\ Cardinality(after) <= Cardinality(with)
      /\ Cardinality(after) \in Nat /\ Cardinality(with) \in Nat
  BY <1>3, <1>4, FS_Subset, FS_CardinalityType
<1>6. accepted'[r] + Cardinality(after) <= calls'
  BY <1>1, <1>2, <1>4, <1>5
<1>7. QED
  BY <1>5, <1>6 DEF after

LEMMA CoverSend ==
    ASSUME TypeOK, CallsCoverRecords, NEW c \in Callers, Send(c), op[c] = "Emit"
    PROVE  CallsCoverRecords'
<1> SUFFICES ASSUME NEW r \in RunIds
             PROVE  IsFiniteSet(Emitting(r)') /\ accepted'[r] + Cardinality(Emitting(r)') <= calls'
  BY DEF CallsCoverRecords
<1> DEFINE before == Emitting(r)
           without == before \ {c}
           after == Emitting(r)'
<1>1. IsFiniteSet(before) /\ accepted[r] + Cardinality(before) <= calls
  BY DEF CallsCoverRecords
<1>2. accepted[r] \in Nat /\ calls \in Nat /\ calls' = calls
  BY RecorderAssumption DEF TypeOK, HistoryTypes, HandleTypes, Send, handleVars
<1>3. after \subseteq without
  <2>1. UNCHANGED <<op, on>> /\ phase' = [phase EXCEPT ![c] = "Idle"]
    BY DEF Send, Return
  <2>2. phase'[c] = "Idle" /\ \A d \in Callers : d # c => phase'[d] = phase[d]
    BY <2>1 DEF TypeOK, CallTypes
  <2>3. QED
    BY <2>1, <2>2 DEF Emitting
<1>4. /\ on[c] \in RunIds /\ accepted' = [accepted EXCEPT ![on[c]] = @ + 1]
      /\ r = on[c] => c \in before
  BY DEF Send, TypeOK, CallTypes, Emitting
<1> HIDE DEF before
<1>5. /\ IsFiniteSet(without) /\ Cardinality(before) \in Nat
      /\ Cardinality(without) = IF c \in before THEN Cardinality(before) - 1 ELSE Cardinality(before)
  BY <1>1, FS_RemoveElement, FS_CardinalityType
<1> HIDE DEF without, after
<1>6. /\ IsFiniteSet(after) /\ Cardinality(after) <= Cardinality(without)
      /\ Cardinality(after) \in Nat /\ Cardinality(without) \in Nat
  BY <1>3, <1>5, FS_Subset, FS_CardinalityType
<1>7. accepted'[r] = IF r = on[c] THEN accepted[r] + 1 ELSE accepted[r]
  BY <1>4 DEF TypeOK, HistoryTypes
<1>8. accepted'[r] + Cardinality(after) <= calls'
  BY <1>1, <1>2, <1>4, <1>5, <1>6, <1>7
<1>9. QED
  BY <1>6, <1>8 DEF after

LEMMA CoverStep ==
    ASSUME TypeOK, CallsCoverRecords, [Next]_vars
    PROVE  CallsCoverRecords'
<1> USE DEF handleVars, historyVars, callVars
<1> DEFINE Early == {"RunAdmission", "Admission", "Reserve", "Send"}
<1>1. ASSUME UNCHANGED <<op, on, accepted, calls>>,
             \A c \in Callers : op[c] = "Emit" /\ phase'[c] \in Early => phase[c] \in Early
      PROVE  CallsCoverRecords'
  <2>1. \A r \in RunIds : Emitting(r)' \subseteq Emitting(r)
    BY <1>1 DEF Emitting
  <2>2. QED
    BY <1>1, <2>1, CoverFrame
<1>2. ASSUME NEW c \in Callers, UNCHANGED <<op, on, accepted, calls>>,
             NEW p, phase' = [phase EXCEPT ![c] = p],
             op[c] = "Emit" /\ p \in Early => phase[c] \in Early
      PROVE  CallsCoverRecords'
  BY <1>1, <1>2 DEF TypeOK, CallTypes
<1>3. ASSUME NEW c \in Callers, CallerStep(c) PROVE CallsCoverRecords'
  <2>1. CASE Send(c)
    BY <1>2, <2>1, CoverSend DEF Send, GoTo
  <2>2. CASE EnterRun(c)
    BY <1>2, <2>2 DEF EnterRun, GoTo, Return
  <2>3. CASE Enter(c)
    BY <1>2, <2>3 DEF Enter, GiveUp, GoTo, Return
  <2>4. CASE Reserve(c)
    BY <1>2, <2>4 DEF Reserve, GiveUp, GoTo, Return
  <2>5. CASE Commit(c)
    BY <1>2, <2>5 DEF Commit, GoTo
  <2>6. CASE Answered(c) \/ Watch(c) \/ Join(c)
    BY <1>2, <2>6 DEF Answered, Watch, Join, GoTo, Return
  <2>7. QED
    BY <1>3, <2>1, <2>2, <2>3, <2>4, <2>5, <2>6 DEF CallerStep
<1>4. ASSUME NEW c \in Callers, Cancel(c) PROVE CallsCoverRecords'
  BY <1>2, <1>4 DEF Cancel, Return
<1>5. CASE WriterStep
  BY <1>1, <1>5 DEF WriterStep, Receive, ChannelClosed, CreateInStore, RegisterRun, AppendToStore,
                    CommitSequence, AppendFails, FinishRun, CompleteInStore, CloseWriter,
                    Respond, Panic, DropReceiver, GuardDrop
<1>6. CASE DropHandles \/ UNCHANGED vars
  BY <1>1, <1>6 DEF DropHandles, vars
<1>7. QED
  BY <1>3, <1>4, <1>5, <1>6, CoverBegin DEF Next

\* A run never has more accepted records than calls were begun, those of its
\* emits that are not accepted yet included (store_recorder.rs: emit, which
\* assigns one sequence per call): the writer's batches stay within the numbers
\* the store's contract counts with.
LEMMA RecordsWithinCalls == Spec => []CallsCoverRecords
<1>1. Init => CallsCoverRecords
  <2> SUFFICES ASSUME Init, NEW r \in RunIds
               PROVE  IsFiniteSet(Emitting(r)) /\ accepted[r] + Cardinality(Emitting(r)) <= calls
    BY DEF CallsCoverRecords
  <2>1. Emitting(r) = {}
    BY DEF Init, Emitting
  <2>2. IsFiniteSet(Emitting(r)) /\ Cardinality(Emitting(r)) = 0
    BY <2>1, FS_EmptySet
  <2>3. QED
    BY <2>2 DEF Init
<1>2. TypeOK /\ CallsCoverRecords /\ [Next]_vars => CallsCoverRecords'
  BY CoverStep
<1>3. QED
  BY <1>1, <1>2, TypeCorrect, PTL DEF Spec

LEMMA RecordsBounded ==
    ASSUME TypeOK, CallsCoverRecords, NEW r \in RunIds
    PROVE  accepted[r] \in Nat /\ accepted[r] <= MaxCalls
<1>1. accepted[r] \in Nat /\ calls \in Nat /\ calls <= MaxCalls
  BY RecorderAssumption DEF TypeOK, HistoryTypes, HandleTypes
<1>2. IsFiniteSet(Emitting(r)) /\ accepted[r] + Cardinality(Emitting(r)) <= calls
  BY DEF CallsCoverRecords
<1>3. Cardinality(Emitting(r)) \in Nat
  BY <1>2, FS_CardinalityType
<1>4. QED
  BY RecorderAssumption, <1>1, <1>2, <1>3
-----------------------------------------------------------------------------
\* The store as ImplementsStore maps it: the run and the envelopes of r.
StoreRun(r) ==
    IF stored[r] = "NoRun" THEN [status |-> "NoRun"]
    ELSE [kind |-> "Query", method |-> "None", status |-> stored[r], startedAt |-> 0,
          completedAt |-> IF stored[r] = "Completed" THEN 0 ELSE -1,
          eventCount |-> Len(events[r])]
StoreEvents(r) ==
    [i \in DOMAIN events[r] |->
        [run |-> r, sequence |-> events[r][i].sequence, record |-> events[r][i].record]]

LEMMA StoreCreates ==
    ASSUME TypeOK, RecorderInv, NEW r \in RunIds, Stores(r)
    PROVE  Store!Next
<1> DEFINE runs == [s \in RunIds |-> StoreRun(s)]
           run == [kind |-> "Query", method |-> "None", status |-> "Running", startedAt |-> 0,
                   completedAt |-> -1, eventCount |-> 0]
<1>1. gate[r] = "Absent" /\ stored[r] = "NoRun" /\ stored' = [stored EXCEPT ![r] = "Running"]
      /\ UNCHANGED events
  BY DEF Stores
<1>2. Len(events[r]) = 0
  <2>1. Len(events[r]) <= accepted[r] /\ accepted[r] = 0
    BY <1>1 DEF RecorderInv, RunLogs, RunLog
  <2>2. Len(events[r]) \in Nat
    BY DEF TypeOK, StoreTypes
  <2>3. QED
    BY <2>1, <2>2
<1>3. StoreRun(r)' = run
  BY <1>1, <1>2 DEF StoreRun, TypeOK, StoreTypes
<1>4. \A s \in RunIds : s # r => StoreRun(s)' = StoreRun(s)
  BY <1>1 DEF StoreRun, TypeOK, StoreTypes
<1>5. runs' = [runs EXCEPT ![r] = run]
  BY <1>3, <1>4
<1>6. runs[r] = [status |-> "NoRun"]
  BY <1>1 DEF StoreRun
<1>7. run \in Store!Run
  BY RecorderAssumption DEF Store!Run, Store!Statuses, Store!OpenStatuses, Store!NoTime
<1>8. Store!ValidNewRun(run)
  BY DEF Store!ValidNewRun, Store!NoTime, Store!TerminalStatuses
<1> HIDE DEF run
<1>9. Store!create_run(r, run)
  BY <1>1, <1>5, <1>6, <1>8
     DEF Store!create_run, Store!CanCreate, Store!AfterCreate, Store!Exists, Store!NoRun, StoreRun
<1>10. QED
  BY <1>7, <1>9 DEF Store!Next

LEMMA StoreCompletes ==
    ASSUME TypeOK, RecorderInv, NEW r \in RunIds, Completes(r)
    PROVE  Store!Next
<1> DEFINE runs == [s \in RunIds |-> StoreRun(s)]
<1>1. gate[r] = "Finished" /\ stored' = [stored EXCEPT ![r] = "Completed"] /\ UNCHANGED events
  BY DEF Completes
<1>2. stored[r] \in {"Running", "Completed"} /\ stored'[r] = "Completed"
  BY <1>1 DEF RecorderInv, RunLogs, RunLog, TypeOK, StoreTypes
<1>3. runs[r] = [kind |-> "Query", method |-> "None", status |-> stored[r], startedAt |-> 0,
                 completedAt |-> IF stored[r] = "Completed" THEN 0 ELSE -1,
                 eventCount |-> Len(events[r])]
  BY <1>2 DEF StoreRun
<1>4. StoreRun(r)' = [runs[r] EXCEPT !.status = "Completed", !.completedAt = 0]
  <2> DEFINE row == runs[r]
             completed == [kind |-> "Query", method |-> "None", status |-> "Completed",
                           startedAt |-> 0, completedAt |-> 0, eventCount |-> Len(events[r])]
  <2>1. StoreRun(r)' = completed
    BY <1>1, <1>2 DEF StoreRun
  <2>2. row \in [kind : {"Query"}, method : {"None"}, status : {stored[r]}, startedAt : {0},
                 completedAt : {0, -1}, eventCount : {Len(events[r])}]
    BY <1>3
  <2> HIDE DEF row
  <2> DEFINE updated == [row EXCEPT !.status = "Completed", !.completedAt = 0]
  <2>3. updated \in [kind : {"Query"}, method : {"None"}, status : {"Completed"}, startedAt : {0},
                     completedAt : {0}, eventCount : {Len(events[r])}]
    BY <2>2
  <2> HIDE DEF updated
  <2>4. updated = completed
    BY <2>3
  <2>5. QED
    BY <2>1, <2>4 DEF row, updated
<1>5. \A s \in RunIds : s # r => StoreRun(s)' = StoreRun(s)
  BY <1>1 DEF StoreRun, TypeOK, StoreTypes
<1>6. runs' = [runs EXCEPT ![r].status = "Completed", ![r].completedAt = 0]
  BY <1>4, <1>5
<1>7. runs[r] # [status |-> "NoRun"] /\ runs[r].startedAt = 0
  BY <1>2, <1>3
<1>8. \/ runs[r].status = "Running" /\ runs[r].completedAt = -1
      \/ runs[r].status = "Completed" /\ runs[r].completedAt = 0
  BY <1>2, <1>3
<1>9. Store!CanComplete(runs, r, "Completed", 0)
  BY <1>7, <1>8 DEF Store!CanComplete, Store!TerminalStatuses, Store!Exists, Store!NoRun, Store!NoTime
<1>10. Store!complete_run(r, "Completed", 0)
  BY <1>1, <1>6, <1>9 DEF Store!complete_run, Store!AfterComplete, StoreRun
<1>11. QED
  BY <1>10 DEF Store!Next, Store!Statuses, Store!TerminalStatuses

\* The record the writer appends carries the next sequence and is one of the
\* records of the abstract store, since no run has more records than calls.
LEMMA StoreAppends ==
    ASSUME TypeOK, RecorderInv, RecorderInv', CallsCoverRecords, NEW r \in RunIds, Appends(r)
    PROVE  Store!Next
<1> DEFINE runs == [s \in RunIds |-> StoreRun(s)]
           logs == [s \in RunIds |-> StoreEvents(s)]
           Entry == [sequence : Nat, record : Nat]
           next == Len(events[r]) + 1
           envelope == [run |-> r, sequence |-> next, record |-> next]
           batch == <<envelope>>
<1>1. PICK e : events' = [events EXCEPT ![r] = Append(@, e)]
  BY DEF Appends
<1>2. /\ stored[r] = "Running" /\ UNCHANGED stored
      /\ Len(events[r]) < accepted[r]
  BY DEF Appends, RecorderInv, RunLogs, RunLog, TypeOK, StoreTypes
<1>3. events \in [RunIds -> Seq(Entry)] /\ Len(events[r]) \in Nat
  BY DEF TypeOK, StoreTypes
<1>4. next \in 1..MaxCalls
  <2>1. accepted[r] \in Nat /\ accepted[r] <= MaxCalls
    BY RecordsBounded
  <2>2. QED
    BY RecorderAssumption, <1>2, <1>3, <2>1
<1>5. /\ Len(events'[r]) = next /\ DOMAIN events'[r] = 1..next /\ DOMAIN events[r] = 1..(next - 1)
      /\ \A i \in 1..(next - 1) : events'[r][i] = events[r][i]
      /\ \A s \in RunIds : s # r => events'[s] = events[s]
  <2>1. events'[r] = Append(events[r], e)
    BY <1>1, <1>3
  <2>2. QED
    BY <1>1, <1>3, <2>1
<1>6. events'[r][next] = [sequence |-> next, record |-> next]
  <2>1. next \in DOMAIN events'[r]
    BY <1>3, <1>5
  <2>2. \A i \in DOMAIN events'[r] : events'[r][i] = [sequence |-> i, record |-> i]
    BY DEF RecorderInv, RunLogs, RunLog
  <2>3. QED
    BY <2>1, <2>2
<1>7. runs' = [runs EXCEPT ![r].eventCount = @ + 1]
  <2>1. StoreRun(r)' = [StoreRun(r) EXCEPT !.eventCount = @ + 1]
    BY <1>2, <1>5 DEF StoreRun
  <2>2. \A s \in RunIds : s # r => StoreRun(s)' = StoreRun(s)
    BY <1>2, <1>5 DEF StoreRun
  <2>3. QED
    BY <2>1, <2>2
<1>8. logs' = [logs EXCEPT ![r] = @ \o batch]
  <2>1. StoreEvents(r)' = StoreEvents(r) \o batch
    <3>1. /\ StoreEvents(r) \in [1..(next - 1) -> {StoreEvents(r)[i] : i \in 1..(next - 1)}]
      BY <1>5 DEF StoreEvents
    <3>2. StoreEvents(r)' = [i \in 1..next |-> IF i <= next - 1 THEN StoreEvents(r)[i] ELSE envelope]
      BY <1>3, <1>5, <1>6 DEF StoreEvents
    <3>3. StoreEvents(r) \o batch
            = [i \in 1..next |-> IF i <= next - 1 THEN StoreEvents(r)[i] ELSE envelope]
      BY <1>3, <3>1
    <3>4. QED
      BY <3>2, <3>3
  <2>2. \A s \in RunIds : s # r => StoreEvents(s)' = StoreEvents(s)
    BY <1>5 DEF StoreEvents
  <2>3. QED
    BY <2>1, <2>2
<1>9. batch \in Store!Batches
  <2>1. envelope \in Store!Envelope
    BY <1>4 DEF Store!Envelope
  <2>2. batch \in [1..1 -> Store!Envelope]
    BY <2>1
  <2>3. QED
    BY <2>2 DEF Store!Batches
<1>10. Store!CanAppend(runs, batch)
  <2>1. /\ runs[r] # [status |-> "NoRun"] /\ runs[r].status = "Running"
        /\ runs[r].eventCount = Len(events[r])
    BY <1>2 DEF StoreRun
  <2>2. Len(batch) = 1 /\ DOMAIN batch = {1} /\ batch[1] = envelope /\ batch # <<>>
    OBVIOUS
  <2>3. envelope.run = r /\ envelope.sequence = next
    OBVIOUS
  <2> HIDE DEF batch, runs, envelope
  <2>4. QED
    BY <1>3, <1>4, <2>1, <2>2, <2>3
       DEF Store!CanAppend, Store!TerminalStatuses, Store!NoRun
<1>11. PICK b : b = batch
  OBVIOUS
<1>12. b \in Store!Batches /\ Store!append_events(b)
  BY <1>7, <1>8, <1>9, <1>10, <1>11
     DEF Store!append_events, Store!RunsAfterAppend, Store!EventsAfterAppend, StoreRun, StoreEvents
<1>13. QED
  BY <1>12 DEF Store!Next

LEMMA StoreStep ==
    ASSUME TypeOK, RecorderInv, RecorderInv', CallsCoverRecords, Visible
    PROVE  [Store!Next]_(Store!vars)
<1>1. ASSUME \A r \in RunIds : StoreRun(r)' = StoreRun(r), UNCHANGED events
      PROVE  UNCHANGED (Store!vars)
  <2>1. /\ [r \in RunIds |-> StoreRun(r)'] = [r \in RunIds |-> StoreRun(r)]
        /\ [r \in RunIds |-> StoreEvents(r)'] = [r \in RunIds |-> StoreEvents(r)]
    BY <1>1 DEF StoreEvents
  <2>2. QED
    BY <2>1 DEF Store!vars, StoreRun, StoreEvents
<1>2. ASSUME UNCHANGED <<stored, events>> PROVE UNCHANGED (Store!vars)
  BY <1>1, <1>2 DEF StoreRun
<1>3. CASE GatesMove \/ \E r \in RunIds : Opens(r) \/ Promises(r) \/ Settles(r)
  BY <1>2, <1>3 DEF GatesMove, Opens, Promises, Settles
<1>4. CASE \E r \in RunIds : Stores(r) \/ Appends(r) \/ Completes(r)
  BY <1>4, StoreCreates, StoreAppends, StoreCompletes
<1>5. QED
  BY <1>3, <1>4 DEF Visible

\* The writer calls the store only as its contract allows, whatever callers,
\* cancellations and failures do: a run is created once and before its events,
\* every append continues the stored history by one, no completed run gets
\* another event, and a completion is repeated only exactly.
THEOREM RecorderRefinesStore == Spec => ImplementsStore
<1>1. TypeOK /\ Init => Store!Init
  BY DEF Init, TypeOK, StoreTypes, Store!Init, Store!NoRun
<1>2. /\ TypeOK /\ RecorderInv /\ RecorderInv' /\ CallsCoverRecords /\ [Next]_vars
      => [Store!Next]_(Store!vars)
  BY VisibleStep, StoreStep
<1>3. QED
  BY <1>1, <1>2, TypeCorrect, InvariantCorrect, RecordsWithinCalls, PTL
     DEF Spec, ImplementsStore, Store!Spec
=============================================================================
