----------------------- MODULE StoreRecorderInvariant -----------------------
(***************************************************************************)
(* The inductive invariant behind the safety properties of StoreRecorder:   *)
(* why the order of acceptance survives two semaphores, one queue and a     *)
(* writer.  TLC checks it on small instances, StoreRecorderProofs            *)
(* proves it.                                                              *)
(***************************************************************************)
EXTENDS StoreRecorder

Sending(c) == phase[c] \in {"Reserve", "Commit", "Send"}
InHand(o) == wphase = "Execute" /\ current.op = o
Queued(o, r) == \E i \in DOMAIN queue : queue[i].op = o /\ queue[i].run = r

\* Records of run r the store or the writer's hand already has.
Taken(r) == IF InHand("Emit") /\ current.run = r THEN Len(events[r]) + 1 ELSE Len(events[r])

\* Who holds which semaphore, and which operation waits where.
Exclusion ==
    \A c \in Callers :
        /\ Sending(c) => admission = c
        /\ op[c] \in {"Emit", "Finish"}
              /\ phase[c] \in {"Admission", "Reserve", "Commit", "Send", "Wait"}
              => runAdmission[on[c]] = c
        /\ phase[c] = "Commit" => op[c] \in {"Finish", "Shutdown"}
        /\ phase[c] \in {"RunAdmission", "Watch"} => op[c] \in {"Emit", "Finish"}
        /\ phase[c] = "Join" => op[c] = "Shutdown"
        /\ phase[c] = "Wait" => op[c] # "Emit"
        /\ phase[c] \notin {"Idle", "Wait", "Join"} => answer[c] = "None"

\* What a caller knows of its run's gate.
CallerGates ==
    \A c \in Callers :
        /\ op[c] = "Emit" /\ phase[c] \in {"Reserve", "Send"} => gate[on[c]] = "Active"
        /\ op[c] = "Finish" /\ phase[c] \in {"Admission", "Reserve", "Commit"}
              => gate[on[c]] = "Active"
        /\ op[c] = "Finish" /\ phase[c] = "Send" /\ open
              => gate[on[c]] = "Finishing" /\ ~Queued("Finish", on[c])
        /\ op[c] = "Complete" /\ phase[c] # "Idle" => gate[on[c]] = "Finished"
        /\ op[c] \in {"Emit", "Finish"} /\ phase[c] # "Idle" => gate[on[c]] # "Absent"
        /\ op[c] = "Finish" /\ phase[c] = "Wait" /\ answer[c] = "Ok" => gate[on[c]] = "Finished"
        /\ op[c] = "Finish" /\ phase[c] = "Idle" /\ result[c] = "Ok" => gate[on[c]] = "Finished"

\* Once shutdown has sent its command nobody else sends: it is the last one.
ShutdownLast ==
    /\ \A c \in Callers : op[c] = "Shutdown" /\ phase[c] = "Send" => writerStatus # "Running"
    /\ (\E i \in DOMAIN queue : queue[i].op = "Shutdown") \/ current.op = "Shutdown"
          \/ outcome = "Ok"
          => writerStatus # "Running" /\ \A c \in Callers : ~Sending(c)
    /\ current.op = "Shutdown" \/ outcome = "Ok" => queue = <<>>

\* The queue keeps the order in which the gate let the commands in.
InOrder(first, second) ==
    /\ first.op # "Shutdown"
    /\ first.run = second.run =>
           /\ first.op = "Finish" => second.op \notin {"Emit", "Finish"}
           /\ first.op = "Emit" /\ second.op = "Emit" => first.record < second.record
QueueOrder == \A i, j \in DOMAIN queue : i < j => InOrder(queue[i], queue[j])

\* What a command says of its run, in the queue ...
QueueGate(cmd) ==
    /\ cmd.op = "Emit" =>
           /\ gate[cmd.run] \notin {"Absent", "Finished"}
           /\ Taken(cmd.run) < cmd.record /\ cmd.record <= accepted[cmd.run]
    /\ cmd.op = "Finish" => gate[cmd.run] = "Finishing"
    /\ cmd.op = "Complete" => gate[cmd.run] = "Finished"
QueueGates == \A i \in DOMAIN queue : QueueGate(queue[i])

\* ... and in the writer's hand.
WriterGates ==
    /\ open <=> wphase \notin {"Guard", "Exited"}
    /\ ~open => queue = <<>>
    /\ wphase \in {"Receive", "Guard", "Exited"} => current = NoCommand
    /\ outcome = "None" <=> wphase \notin {"Unwind", "Guard", "Exited"}
    /\ wphase = "CommitSequence" => current.op = "Emit"
    /\ wphase = "Respond" => reply # "None"
    /\ wphase = "Register" => current.op = "Create" /\ gate[current.run] = "Absent"
    /\ InHand("Emit") =>
           /\ gate[current.run] \notin {"Absent", "Finished"}
           /\ current.record = Len(events[current.run]) + 1
           /\ current.record <= accepted[current.run]
    /\ InHand("Finish") =>
           /\ gate[current.run] = "Finishing"
           /\ ~Queued("Emit", current.run) /\ ~Queued("Finish", current.run)
           /\ \A c \in Callers : op[c] = "Finish" /\ phase[c] = "Send" => on[c] # current.run
    /\ InHand("Complete") => gate[current.run] = "Finished"
    /\ wphase = "Respond" /\ current.op = "Finish" /\ reply = "Ok" => gate[current.run] = "Finished"

\* A run's log, and how the gate and the writer's own state describe it.
RunLog(r) ==
    /\ r \in finishedRuns <=> gate[r] = "Finished"
    /\ sequences[r] = IF wphase = "CommitSequence" /\ current.run = r
                      THEN Len(events[r]) - 1 ELSE Len(events[r])
    /\ \A i \in DOMAIN events[r] : events[r][i] = [sequence |-> i, record |-> i]
    /\ Len(events[r]) <= accepted[r]
    /\ gate[r] = "Finished" => Len(events[r]) = accepted[r]
    /\ gate[r] = "Absent" => accepted[r] = 0
    /\ stored[r] = "NoRun" <=> gate[r] = "Absent" /\ ~(wphase = "Register" /\ current.run = r)
    /\ stored[r] = "Completed" => gate[r] = "Finished"
RunLogs == \A r \in RunIds : RunLog(r)

\* Until the writer fails every accepted record is stored, in hand or queued.
InQueue(r, k) ==
    \E i \in DOMAIN queue : queue[i].op = "Emit" /\ queue[i].run = r /\ queue[i].record = k
NoneMissing ==
    outcome # "Error" =>
        \A r \in RunIds : \A k \in Taken(r) + 1 .. accepted[r] : InQueue(r, k)

\* A oneshot belongs to exactly one call, which waits for it.
Owned(cmd) ==
    cmd.caller # Nobody =>
        /\ phase[cmd.caller] = "Wait" /\ answer[cmd.caller] = "None"
        /\ op[cmd.caller] = cmd.op /\ on[cmd.caller] = cmd.run
Owners ==
    /\ \A i \in DOMAIN queue :
           /\ Owned(queue[i])
           /\ \A j \in DOMAIN queue :
                  queue[i].caller = queue[j].caller => i = j \/ queue[i].caller = Nobody
           /\ current # NoCommand /\ current.caller = queue[i].caller => queue[i].caller = Nobody
    /\ current # NoCommand => Owned(current)
    /\ wphase \notin {"Unwind", "Guard", "Exited"} =>
           \A c \in Callers : phase[c] = "Wait" /\ answer[c] = "None" =>
               Holds(c, current) \/ \E i \in DOMAIN queue : queue[i].caller = c
    /\ outcome = "Ok" => \A c \in Callers : phase[c] = "Wait" => answer[c] # "None"

\* All of it.
RecorderInv ==
    /\ Exclusion /\ CallerGates /\ ShutdownLast /\ QueueOrder /\ QueueGates
    /\ WriterGates /\ RunLogs /\ NoneMissing /\ Owners

\* Emits of run r that have begun and are not accepted yet: each accepted
\* record was a call of its own, so a run never has more records than calls.
Emitting(r) ==
    {c \in Callers : /\ op[c] = "Emit" /\ on[c] = r
                     /\ phase[c] \in {"RunAdmission", "Admission", "Reserve", "Send"}}
CallsCoverRecords ==
    \A r \in RunIds :
        IsFiniteSet(Emitting(r)) /\ accepted[r] + Cardinality(Emitting(r)) <= calls
=============================================================================
