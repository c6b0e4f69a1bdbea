---------------------------- MODULE ReliableLog ----------------------------
(***************************************************************************)
(* What an ExplainabilitySink with a reliable recorder promises for a run   *)
(* (crates/graphloom/src/explainability/sink.rs and store_recorder.rs): a   *)
(* log that persists what it accepted, in order, that is finished only when *)
(* nothing accepted is missing, and that accepts nothing afterwards.        *)
(***************************************************************************)
EXTENDS Naturals

CONSTANT Runs

VARIABLES state,      \* run -> "Absent", "Open", "Finished" or "Completed"
          accepted,   \* run -> number of records accepted
          persisted   \* run -> number of records persisted
vars == <<state, accepted, persisted>>

Init ==
    /\ state = [r \in Runs |-> "Absent"]
    /\ accepted = [r \in Runs |-> 0]
    /\ persisted = [r \in Runs |-> 0]

Create(r) ==
    /\ state[r] = "Absent"
    /\ state' = [state EXCEPT ![r] = "Open"]
    /\ UNCHANGED <<accepted, persisted>>

Accept(r) ==
    /\ state[r] = "Open"
    /\ accepted' = [accepted EXCEPT ![r] = @ + 1]
    /\ UNCHANGED <<state, persisted>>

Persist(r) ==
    /\ state[r] = "Open"
    /\ persisted[r] < accepted[r]
    /\ persisted' = [persisted EXCEPT ![r] = @ + 1]
    /\ UNCHANGED <<state, accepted>>

Finish(r) ==
    /\ state[r] = "Open"
    /\ persisted[r] = accepted[r]
    /\ state' = [state EXCEPT ![r] = "Finished"]
    /\ UNCHANGED <<accepted, persisted>>

Complete(r) ==
    /\ state[r] = "Finished"
    /\ state' = [state EXCEPT ![r] = "Completed"]
    /\ UNCHANGED <<accepted, persisted>>

Next == \E r \in Runs : Create(r) \/ Accept(r) \/ Persist(r) \/ Finish(r) \/ Complete(r)

Spec == Init /\ [][Next]_vars
=============================================================================
