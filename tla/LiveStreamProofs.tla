-------------------------- MODULE LiveStreamProofs --------------------------
(***************************************************************************)
(* A viewer holds a gapless prefix of the stored events, and a response     *)
(* that ends without failure has delivered all of them, for any number of   *)
(* viewers, events and connections and any ring and page size.              *)
(***************************************************************************)
EXTENDS LiveStream, TLAPS

\* The channel: event n is its n-th message, and how far boundary and channel
\* are behind the store at each step of the writer.
HubInv ==
    /\ \A i \in 1..Len(sent) : sent[i] = i
    /\ Len(sent) = IF wphase \in {"Appended", "Advanced"} THEN events - 1 ELSE events
    /\ lastSequence = IF wphase = "Appended" THEN events - 1 ELSE events
    /\ hubOpen <=> wphase \in {"Idle", "Appended", "Advanced"}
    /\ wphase \in {"New", "Created"} => events = 0

Started == wphase \notin {"New", "Created"}
Final == wphase \in {"Closed", "Completed"}

Consecutive(s, base) == \A i \in 1..Len(s) : s[i] = base + i

\* What the page has, what is on the wire, and what the response has read are
\* consecutive pieces of the stored events.
PiecesHold(v) ==
    /\ envelopes[v] = 1..got[v] /\ got[v] <= events
    /\ sphase[v] = "Off" => wire[v] = <<>> /\ pending[v] = <<>>
    /\ sphase[v] # "Off" => lastSeen[v] = got[v] + Len(wire[v])
    /\ Consecutive(wire[v], got[v]) /\ Consecutive(pending[v], lastSeen[v])
    /\ lastSeen[v] + Len(pending[v]) <= events
    /\ pending[v] # <<>> => sphase[v] \in {"CatchUp", "FinalCatchUp", "DoneAfterPending"}
\* What each phase of a response knows of the run.
PhaseHolds(v) ==
    /\ conn[v] = "open" <=> sphase[v] # "Off"
    /\ conn[v] # "idle" => wphase # "New"
    /\ target[v] <= events
    /\ sphase[v] \in {"Snapshot", "CatchUp", "Live"} =>
           Started /\ next[v] \in 1..(Len(sent) + 1)
    /\ sphase[v] \in {"FinalCatchUp", "DoneAfterPending"} => early[v] \/ Final
    /\ sphase[v] = "DoneAfterPending" => early[v] \/ lastSeen[v] + Len(pending[v]) = events
    /\ sphase[v] = "Done" /\ failure[v] = "None" =>
           early[v] \/ (Final /\ lastSeen[v] = events)
    /\ failure[v] # "SequenceInvariant"
ViewerInv(v) == PiecesHold(v) /\ PhaseHolds(v)

Inv == TypeOK /\ HubInv /\ \A v \in Viewers : ViewerInv(v)
-----------------------------------------------------------------------------
LEMMA InitInv == Init => Inv
  <1> SUFFICES ASSUME Init PROVE Inv
    OBVIOUS
  <1>1. TypeOK
    <2>1. 0 \in 0..MaxEvents /\ 0 \in 0..(MaxEvents + 1) /\ 0 \in 0..MaxConnections
          /\ <<>> \in Seq(1..MaxEvents)
      BY StreamAssumption DEF StreamAssumption
    <2> QED
      BY <2>1 DEF Init, TypeOK
  <1> QED
    <2>1. 1..0 = {} /\ Len(<<>>) = 0
      OBVIOUS
    <2>2. HubInv
      BY <2>1 DEF Init, HubInv
    <2>3. ASSUME NEW v \in Viewers PROVE ViewerInv(v)
      <3>1. PiecesHold(v)
        BY <2>1 DEF Init, PiecesHold, Consecutive
      <3> QED
        BY <3>1 DEF Init, ViewerInv, PhaseHolds
    <2> QED
      BY <1>1, <2>2, <2>3 DEF Inv

\* The writer only adds: what a response knows of the run stays true.
LEMMA WriterInv ==
  ASSUME Inv, Writer
  PROVE  Inv'
  <1> USE DEF hubVars, streamVars, browserVars
  <1>0. /\ TypeOK /\ HubInv /\ \A v \in Viewers : ViewerInv(v)
        /\ sent \in Seq(1..MaxEvents) /\ events \in 0..MaxEvents /\ MaxEvents \in Nat
    BY StreamAssumption DEF Inv, TypeOK, StreamAssumption
  <1>1. CASE CreateRun
    BY <1>0, <1>1 DEF CreateRun, Inv, TypeOK, HubInv, ViewerInv, PiecesHold, PhaseHolds, Started, Final
  <1>2. CASE register_run
    BY <1>0, <1>2 DEF register_run, Inv, TypeOK, HubInv, ViewerInv, PiecesHold, PhaseHolds, Started, Final
  <1>3. CASE AppendEvent
    <2>1. events' \in 0..MaxEvents /\ terminal' \in 0..MaxEvents /\ events' = events + 1
      BY <1>0, <1>3 DEF AppendEvent
    <2>2. TypeOK'
      BY <1>0, <1>3, <2>1 DEF AppendEvent, TypeOK
    <2>3. HubInv'
      BY <1>0, <1>3 DEF AppendEvent, HubInv
    <2>4. ASSUME NEW v \in Viewers PROVE ViewerInv(v)'
      <3>1. /\ lastSeen[v] \in Nat /\ got[v] \in Nat /\ target[v] \in Nat
            /\ Len(pending[v]) \in Nat /\ ViewerInv(v)
        BY <1>0 DEF TypeOK
      <3> QED
        BY <1>0, <1>3, <2>1, <3>1
        DEF AppendEvent, ViewerInv, PiecesHold, PhaseHolds, Started, Final
    <2> QED
      BY <2>2, <2>3, <2>4 DEF Inv
  <1>4. CASE AdvanceBoundary
    BY <1>0, <1>4 DEF AdvanceBoundary, Inv, TypeOK, HubInv, ViewerInv, PiecesHold, PhaseHolds, Started, Final
  <1>5. CASE Publish
    <2>1. /\ events \in 1..MaxEvents /\ sent' = Append(sent, events)
          /\ sent' \in Seq(1..MaxEvents) /\ Len(sent') = Len(sent) + 1
          /\ \A i \in 1..Len(sent) : sent'[i] = sent[i]
          /\ sent'[Len(sent) + 1] = events /\ Len(sent) \in Nat
      BY <1>0, <1>5 DEF Publish, HubInv
    <2>2. TypeOK'
      BY <1>0, <1>5, <2>1 DEF Publish, TypeOK
    <2>3. HubInv'
      BY <1>0, <1>5, <2>1 DEF Publish, HubInv
    <2>4. ASSUME NEW v \in Viewers PROVE ViewerInv(v)'
      BY <1>0, <1>5, <2>1 DEF Publish, ViewerInv, PiecesHold, PhaseHolds, Started, Final
    <2> QED
      BY <2>2, <2>3, <2>4 DEF Inv
  <1>6. CASE close_run
    <2>1. TypeOK' /\ HubInv'
      BY <1>0, <1>6 DEF close_run, TypeOK, HubInv
    <2>2. ASSUME NEW v \in Viewers PROVE ViewerInv(v)'
      BY <1>0, <1>6 DEF close_run, ViewerInv, PiecesHold, PhaseHolds, Started, Final
    <2> QED
      BY <2>1, <2>2 DEF Inv
  <1>7. CASE CompleteRun
    BY <1>0, <1>7 DEF CompleteRun, Inv, TypeOK, HubInv, ViewerInv, PiecesHold, PhaseHolds, Started, Final
  <1> QED
    BY <1>1, <1>2, <1>3, <1>4, <1>5, <1>6, <1>7 DEF Writer

\* A step of one viewer leaves the others, the writer and the hub alone.
Same(p) ==
    /\ sphase'[p] = sphase[p] /\ lastSeen'[p] = lastSeen[p] /\ target'[p] = target[p]
    /\ next'[p] = next[p] /\ pending'[p] = pending[p] /\ failure'[p] = failure[p]
    /\ early'[p] = early[p] /\ wire'[p] = wire[p] /\ conn'[p] = conn[p] /\ got'[p] = got[p]
    /\ envelopes'[p] = envelopes[p]
LEMMA ViewerStep ==
  ASSUME Inv, NEW v \in Viewers, TypeOK', ViewerInv(v)', UNCHANGED <<writerVars, hubVars>>,
         \A p \in Viewers \ {v} : Same(p)
  PROVE  Inv'
  <1>1. HubInv'
    BY DEF Inv, HubInv, writerVars, hubVars
  <1>2. ASSUME NEW p \in Viewers \ {v} PROVE ViewerInv(p)'
    <2>1. ViewerInv(p) /\ Same(p)
      BY DEF Inv
    <2> QED
      BY <2>1 DEF ViewerInv, PiecesHold, PhaseHolds, Started, Final, Same, writerVars, hubVars
  <1> QED
    BY <1>1, <1>2 DEF Inv
-----------------------------------------------------------------------------
\* What the types say of one viewer.
ViewerTypes(v) ==
    /\ lastSeen[v] \in Nat /\ got[v] \in Nat /\ target[v] \in Nat
    /\ next[v] \in Nat
    /\ pending[v] \in Seq(1..MaxEvents) /\ wire[v] \in Seq(1..MaxEvents)
    /\ Len(pending[v]) \in Nat /\ Len(wire[v]) \in Nat /\ Len(sent) \in Nat
    /\ events \in Nat /\ events <= MaxEvents /\ MaxEvents \in Nat
LEMMA Known ==
  ASSUME Inv, NEW v \in Viewers
  PROVE  TypeOK /\ HubInv /\ ViewerInv(v) /\ ViewerTypes(v)
  <1>1. TypeOK /\ HubInv /\ ViewerInv(v) /\ MaxEvents \in Nat
    BY StreamAssumption DEF Inv, StreamAssumption
  <1>2. sent \in Seq(1..MaxEvents) /\ pending[v] \in Seq(1..MaxEvents)
        /\ wire[v] \in Seq(1..MaxEvents) /\ events \in 0..MaxEvents
        /\ lastSeen[v] \in 0..MaxEvents /\ got[v] \in 0..MaxEvents /\ target[v] \in 0..MaxEvents
        /\ next[v] \in 0..(MaxEvents + 1)
    BY <1>1 DEF TypeOK
  <1> QED
    BY <1>1, <1>2 DEF ViewerTypes

LEMMA HeadTail ==
  ASSUME NEW S, NEW s \in Seq(S), s # <<>>
  PROVE  /\ Head(s) = s[1] /\ Len(s) \in Nat \ {0}
         /\ Tail(s) \in Seq(S) /\ Len(Tail(s)) = Len(s) - 1
         /\ \A i \in 1..(Len(s) - 1) : Tail(s)[i] = s[i + 1]
  OBVIOUS

\* A stretch of consecutive numbers grows at its end and shrinks at its start.
LEMMA Grows ==
  ASSUME NEW S, NEW s \in Seq(S), NEW x \in S, NEW base \in Nat,
         Consecutive(s, base), x = base + Len(s) + 1
  PROVE  /\ Append(s, x) \in Seq(S) /\ Len(Append(s, x)) = Len(s) + 1
         /\ Consecutive(Append(s, x), base)
  <1>1. Len(s) \in Nat /\ Append(s, x) \in Seq(S) /\ Len(Append(s, x)) = Len(s) + 1
    OBVIOUS
  <1>2. ASSUME NEW i \in 1..(Len(s) + 1) PROVE Append(s, x)[i] = base + i
    <2>1. CASE i \in 1..Len(s)
      BY <2>1 DEF Consecutive
    <2>2. CASE i = Len(s) + 1
      BY <1>1, <2>2
    <2> QED
      BY <1>1, <2>1, <2>2
  <1> QED
    BY <1>1, <1>2 DEF Consecutive
LEMMA Shrinks ==
  ASSUME NEW S, NEW s \in Seq(S), s # <<>>, NEW base \in Nat, Consecutive(s, base)
  PROVE  /\ Head(s) = base + 1 /\ Len(s) \in Nat \ {0}
         /\ Tail(s) \in Seq(S) /\ Len(Tail(s)) = Len(s) - 1
         /\ Consecutive(Tail(s), base + 1)
  <1>1. /\ Head(s) = s[1] /\ Len(s) \in Nat \ {0}
        /\ Tail(s) \in Seq(S) /\ Len(Tail(s)) = Len(s) - 1
        /\ \A i \in 1..(Len(s) - 1) : Tail(s)[i] = s[i + 1]
    BY HeadTail
  <1>2. Head(s) = base + 1
    BY <1>1 DEF Consecutive
  <1>3. ASSUME NEW i \in 1..(Len(s) - 1) PROVE Tail(s)[i] = base + 1 + i
    <2>1. i + 1 \in 1..Len(s)
      BY <1>1
    <2>2. Tail(s)[i] = s[i + 1] /\ s[i + 1] = base + (i + 1)
      BY <1>1, <2>1 DEF Consecutive
    <2>3. i \in Int
      BY <1>1
    <2> QED
      BY <2>2, <2>3
  <1> QED
    BY <1>1, <1>2, <1>3 DEF Consecutive

\* The next envelope is handed to the response body.
LEMMA Yielded ==
  ASSUME Inv, NEW v \in Viewers, sphase[v] # "Off", Yield(v, lastSeen[v] + 1), lastSeen[v] < events
  PROVE  /\ lastSeen' \in [Viewers -> 0..MaxEvents] /\ wire' \in [Viewers -> Seq(1..MaxEvents)]
         /\ lastSeen'[v] = lastSeen[v] + 1 /\ lastSeen'[v] = got[v] + Len(wire'[v])
         /\ Consecutive(wire'[v], got[v])
         /\ \A p \in Viewers \ {v} : lastSeen'[p] = lastSeen[p] /\ wire'[p] = wire[p]
  <1>1. TypeOK /\ ViewerInv(v) /\ ViewerTypes(v)
    BY Known
  <1>2. lastSeen[v] + 1 \in 1..MaxEvents /\ lastSeen[v] + 1 \in 0..MaxEvents
    BY <1>1 DEF ViewerTypes
  <1>3. /\ wire'[v] = Append(wire[v], lastSeen[v] + 1) /\ lastSeen'[v] = lastSeen[v] + 1
        /\ \A p \in Viewers \ {v} : lastSeen'[p] = lastSeen[p] /\ wire'[p] = wire[p]
    BY <1>1 DEF Yield, TypeOK
  <1>4. /\ wire[v] \in Seq(1..MaxEvents) /\ Consecutive(wire[v], got[v]) /\ got[v] \in Nat
        /\ lastSeen[v] = got[v] + Len(wire[v]) /\ Len(wire[v]) \in Nat
    BY <1>1 DEF ViewerTypes, ViewerInv, PiecesHold
  <1>5. /\ wire'[v] \in Seq(1..MaxEvents) /\ Len(wire'[v]) = Len(wire[v]) + 1
        /\ Consecutive(wire'[v], got[v])
    <2>1. lastSeen[v] + 1 = got[v] + Len(wire[v]) + 1 /\ lastSeen[v] + 1 \in 1..MaxEvents
      BY <1>2, <1>4
    <2> DEFINE C == 1..MaxEvents
               x == lastSeen[v] + 1
               old == wire[v]
               new == Append(old, x)
    <2>2. /\ old \in Seq(C) /\ x \in C /\ got[v] \in Nat
          /\ Consecutive(old, got[v]) /\ x = got[v] + Len(old) + 1
      BY <1>4, <2>1
    <2>3. wire'[v] = new
      BY <1>3
    <2> HIDE DEF C, x, old
    <2>4. new \in Seq(C) /\ Len(new) = Len(old) + 1 /\ Consecutive(new, got[v])
      BY <2>2, Grows
    <2> QED
      BY <2>3, <2>4 DEF C, old
  <1>6. lastSeen' \in [Viewers -> 0..MaxEvents] /\ wire' \in [Viewers -> Seq(1..MaxEvents)]
    BY <1>1, <1>2, <1>3, <1>5 DEF Yield, TypeOK
  <1>7. lastSeen'[v] = got[v] + Len(wire'[v])
    <2>1. lastSeen'[v] = lastSeen[v] + 1
      BY <1>3
    <2>2. Len(wire'[v]) = Len(wire[v]) + 1
      BY <1>5
    <2>3. lastSeen[v] = got[v] + Len(wire[v]) /\ got[v] \in Nat /\ Len(wire[v]) \in Nat
      BY <1>4
    <2> QED
      BY ONLY <2>1, <2>2, <2>3
  <1> QED
    BY <1>3, <1>5, <1>6, <1>7

LEMMA PopInv ==
  ASSUME Inv, NEW v \in Viewers, PopPending(v)
  PROVE  Inv'
  <1> USE DEF writerVars, hubVars, browserVars
  <1>0. TypeOK /\ ViewerInv(v) /\ ViewerTypes(v) /\ sphase[v] # "Off"
    BY Known DEF PopPending
  <1>1. /\ Head(pending[v]) = lastSeen[v] + 1 /\ Len(pending[v]) \in Nat \ {0}
        /\ Tail(pending[v]) \in Seq(1..MaxEvents) /\ Len(Tail(pending[v])) = Len(pending[v]) - 1
        /\ Consecutive(Tail(pending[v]), lastSeen[v] + 1)
    BY <1>0, Shrinks DEF PopPending, ViewerTypes, ViewerInv, PiecesHold
  <1>2. lastSeen[v] < events /\ lastSeen[v] + 1 + Len(Tail(pending[v])) = lastSeen[v] + Len(pending[v])
    <2>1. lastSeen[v] + Len(pending[v]) <= events /\ lastSeen[v] \in Nat /\ events \in Nat
      BY <1>0 DEF ViewerTypes, ViewerInv, PiecesHold
    <2> QED
      BY <1>1, <2>1
  <1>3. pending'[v] = Tail(pending[v]) /\ pending' \in [Viewers -> Seq(1..MaxEvents)]
        /\ \A p \in Viewers \ {v} : pending'[p] = pending[p]
    BY <1>0, <1>1 DEF PopPending, TypeOK
  <1>4. /\ lastSeen' \in [Viewers -> 0..MaxEvents] /\ wire' \in [Viewers -> Seq(1..MaxEvents)]
        /\ lastSeen'[v] = lastSeen[v] + 1 /\ lastSeen'[v] = got[v] + Len(wire'[v])
        /\ Consecutive(wire'[v], got[v])
        /\ \A p \in Viewers \ {v} : lastSeen'[p] = lastSeen[p] /\ wire'[p] = wire[p]
    BY <1>0, <1>1, <1>2, Yielded DEF PopPending
  <1>5. TypeOK' /\ \A p \in Viewers \ {v} : Same(p)
    BY <1>0, <1>3, <1>4 DEF PopPending, TypeOK, Same
  <1>6. lastSeen'[v] + Len(pending'[v]) = lastSeen[v] + Len(pending[v])
        /\ Consecutive(pending'[v], lastSeen'[v])
    BY <1>1, <1>2, <1>3, <1>4
  <1>7. PiecesHold(v)'
    BY <1>0, <1>4, <1>6 DEF PopPending, ViewerInv, PiecesHold
  <1>8. PhaseHolds(v)'
    BY <1>0, <1>4, <1>6 DEF PopPending, ViewerInv, PhaseHolds, Started, Final
  <1> QED
    BY <1>5, <1>7, <1>8, ViewerStep DEF PopPending, ViewerInv

\* The channel: a message that continues what was seen, one that was seen, a
\* gap or a lag, or the end.
LEMMA RecvInv ==
  ASSUME Inv, NEW v \in Viewers, Recv(v)
  PROVE  Inv'
  <1> USE DEF writerVars, hubVars, browserVars
  <1>0. TypeOK /\ HubInv /\ ViewerInv(v) /\ ViewerTypes(v) /\ sphase[v] = "Live"
    BY Known DEF Recv
  <1>1. /\ next[v] \in 1..(Len(sent) + 1) /\ Started /\ pending[v] = <<>>
        /\ next[v] <= Len(sent) => sent[next[v]] = next[v] /\ next[v] <= events
    BY <1>0 DEF ViewerTypes, ViewerInv, PhaseHolds, PiecesHold, HubInv
  <1>2. CASE sphase' = sphase /\ next[v] <= Len(sent) /\ sent[next[v]] <= lastSeen[v] + 1
             /\ next' = [next EXCEPT ![v] = @ + 1]
             /\ IF sent[next[v]] = lastSeen[v] + 1 THEN Yield(v, sent[next[v]])
                ELSE UNCHANGED <<lastSeen, wire>>
    <2>1. next' \in [Viewers -> 0..(MaxEvents + 1)] /\ next'[v] = next[v] + 1
          /\ \A p \in Viewers \ {v} : next'[p] = next[p]
      <3>1. next[v] + 1 \in 0..(MaxEvents + 1)
        BY <1>0, <1>1, <1>2 DEF ViewerTypes
      <3> QED
        BY <1>0, <1>2, <3>1 DEF TypeOK
    <2>2. CASE sent[next[v]] = lastSeen[v] + 1
      <3>1. Yield(v, lastSeen[v] + 1) /\ lastSeen[v] < events
        BY <1>0, <1>1, <1>2, <2>2 DEF ViewerTypes
      <3>2. /\ lastSeen' \in [Viewers -> 0..MaxEvents] /\ wire' \in [Viewers -> Seq(1..MaxEvents)]
            /\ lastSeen'[v] = lastSeen[v] + 1 /\ lastSeen'[v] = got[v] + Len(wire'[v])
            /\ Consecutive(wire'[v], got[v])
            /\ \A p \in Viewers \ {v} : lastSeen'[p] = lastSeen[p] /\ wire'[p] = wire[p]
        BY <1>0, <3>1, Yielded
      <3>3. TypeOK' /\ \A p \in Viewers \ {v} : Same(p)
        BY <1>0, <1>2, <2>1, <3>2 DEF Recv, TypeOK, Same
      <3>4. pending'[v] = <<>> /\ lastSeen[v] + 1 <= events
        BY <1>0, <1>1, <3>1 DEF Recv, ViewerTypes
      <3>5. PiecesHold(v)'
        BY <1>0, <1>2, <3>2, <3>4 DEF Recv, ViewerTypes, ViewerInv, PiecesHold, Consecutive
      <3>6. PhaseHolds(v)'
        BY <1>0, <1>1, <1>2, <2>1, <3>2
        DEF Recv, ViewerTypes, ViewerInv, PhaseHolds, Started, Final
      <3> QED
        BY <3>3, <3>5, <3>6, ViewerStep DEF Recv, ViewerInv
    <2>3. CASE sent[next[v]] # lastSeen[v] + 1
      <3>1. TypeOK' /\ \A p \in Viewers \ {v} : Same(p)
        BY <1>0, <1>2, <2>1, <2>3 DEF Recv, TypeOK, Same
      <3>2. ViewerInv(v)'
        BY <1>0, <1>1, <1>2, <2>1, <2>3, SMTT(30)
        DEF Recv, ViewerTypes, ViewerInv, PiecesHold, PhaseHolds, Started, Final
      <3> QED
        BY <3>1, <3>2, ViewerStep DEF Recv
    <2> QED
      BY <2>2, <2>3
  <1>3. ASSUME NEW there \in {"Subscribe", "FinalCatchUp"}, SetPhase(v, there),
               there = "FinalCatchUp" => ~hubOpen, UNCHANGED <<next, lastSeen, wire>>
        PROVE  Inv'
    <2>1. TypeOK' /\ \A p \in Viewers \ {v} : Same(p)
      BY <1>0, <1>3 DEF Recv, SetPhase, TypeOK, Same
    <2>2. ViewerInv(v)'
      BY <1>0, <1>1, <1>3
      DEF Recv, SetPhase, TypeOK, HubInv, ViewerInv, PiecesHold, PhaseHolds, Started, Final
    <2> QED
      BY <2>1, <2>2, ViewerStep DEF Recv
  <1> QED
    BY <1>2, <1>3 DEF Recv

LEMMA SubscribeInv ==
  ASSUME Inv, NEW v \in Viewers, Subscribe(v)
  PROVE  Inv'
  <1> USE DEF writerVars, hubVars, browserVars
  <1>0. TypeOK /\ HubInv /\ ViewerInv(v) /\ ViewerTypes(v) /\ sphase[v] = "Subscribe"
    BY Known DEF Subscribe
  <1>1. pending[v] = <<>> /\ conn[v] = "open" /\ wphase # "New" /\ target[v] <= events
    BY <1>0 DEF ViewerInv, PiecesHold, PhaseHolds
  <1>2. Len(sent) + 1 \in 0..(MaxEvents + 1) /\ Len(sent) \in Nat
    BY <1>0 DEF ViewerTypes, HubInv
  <1>3. CASE hubOpen
    <2>1. TypeOK' /\ \A p \in Viewers \ {v} : Same(p)
      BY <1>0, <1>2, <1>3 DEF Subscribe, SetPhase, TypeOK, Same
    <2>2. /\ sphase'[v] = "Snapshot" /\ next'[v] = Len(sent) + 1 /\ Started
      BY <1>0, <1>3 DEF Subscribe, SetPhase, TypeOK, HubInv, Started
    <2>3. PiecesHold(v)'
      BY <1>0, <1>1, <2>2 DEF Subscribe, ViewerInv, PiecesHold
    <2>4. PhaseHolds(v)'
      BY <1>0, <1>1, <1>2, <2>2 DEF Subscribe, ViewerInv, PhaseHolds, Started
    <2> QED
      BY <2>1, <2>3, <2>4, ViewerStep DEF Subscribe, ViewerInv
  <1>4. CASE ~hubOpen
    <2>1. TypeOK' /\ \A p \in Viewers \ {v} : Same(p)
      BY <1>0, <1>4 DEF Subscribe, SetPhase, TypeOK, Same
    <2>2. sphase'[v] = "FinalCatchUp" /\ early'[v] = (wphase = "Created")
      BY <1>0, <1>4 DEF Subscribe, SetPhase, TypeOK
    <2>3. early'[v] \/ Final
      BY <1>0, <1>1, <1>4, <2>2 DEF TypeOK, HubInv, Final
    <2>4. PiecesHold(v)'
      BY <1>0, <1>1, <2>2 DEF Subscribe, ViewerInv, PiecesHold
    <2>5. PhaseHolds(v)'
      BY <1>0, <1>1, <2>2, <2>3 DEF Subscribe, ViewerInv, PhaseHolds, Started, Final
    <2> QED
      BY <2>1, <2>4, <2>5, ViewerStep DEF Subscribe, ViewerInv
  <1> QED
    BY <1>3, <1>4

LEMMA SnapshotInv ==
  ASSUME Inv, NEW v \in Viewers, Snapshot(v)
  PROVE  Inv'
  <1> USE DEF writerVars, hubVars, browserVars
  <1>0. TypeOK /\ HubInv /\ ViewerInv(v) /\ ViewerTypes(v) /\ sphase[v] = "Snapshot"
    BY Known DEF Snapshot
  <1>1. TypeOK' /\ \A p \in Viewers \ {v} : Same(p)
    BY <1>0 DEF Snapshot, SetPhase, TypeOK, Same
  <1>2. sphase'[v] = "CatchUp" /\ target'[v] = lastSequence /\ lastSequence <= events
    BY <1>0 DEF Snapshot, SetPhase, TypeOK, HubInv
  <1>3. PiecesHold(v)'
    BY <1>0, <1>2 DEF Snapshot, ViewerInv, PiecesHold
  <1>4. PhaseHolds(v)'
    BY <1>0, <1>2 DEF Snapshot, ViewerInv, PhaseHolds, Started
  <1> QED
    BY <1>1, <1>3, <1>4, ViewerStep DEF Snapshot, ViewerInv

LEMMA EnterLiveInv ==
  ASSUME Inv, NEW v \in Viewers, EnterLive(v)
  PROVE  Inv'
  <1> USE DEF writerVars, hubVars, browserVars
  <1>0. TypeOK /\ ViewerInv(v) /\ ViewerTypes(v) /\ sphase[v] = "CatchUp" /\ pending[v] = <<>>
    BY Known DEF EnterLive
  <1>1. TypeOK' /\ \A p \in Viewers \ {v} : Same(p)
    BY <1>0 DEF EnterLive, SetPhase, TypeOK, Same
  <1>2. sphase'[v] = "Live"
    BY <1>0 DEF EnterLive, SetPhase, TypeOK
  <1>3. PiecesHold(v)'
    BY <1>0, <1>2 DEF EnterLive, ViewerInv, PiecesHold
  <1>4. PhaseHolds(v)'
    BY <1>0, <1>2 DEF EnterLive, ViewerInv, PhaseHolds, Started
  <1> QED
    BY <1>1, <1>3, <1>4, ViewerStep DEF EnterLive, ViewerInv

LEMMA EndInv ==
  ASSUME Inv, NEW v \in Viewers, EndAfterPending(v)
  PROVE  Inv'
  <1> USE DEF writerVars, hubVars, browserVars
  <1>0. TypeOK /\ ViewerInv(v) /\ ViewerTypes(v) /\ sphase[v] = "DoneAfterPending"
        /\ pending[v] = <<>>
    BY Known DEF EndAfterPending
  <1>1. TypeOK' /\ \A p \in Viewers \ {v} : Same(p)
    BY <1>0 DEF EndAfterPending, SetPhase, TypeOK, Same
  <1>2. sphase'[v] = "Done"
    BY <1>0 DEF EndAfterPending, SetPhase, TypeOK
  <1>3. early[v] \/ (Final /\ lastSeen[v] = events)
    BY <1>0 DEF ViewerTypes, ViewerInv, PhaseHolds
  <1>4. PiecesHold(v)'
    BY <1>0, <1>2 DEF EndAfterPending, ViewerInv, PiecesHold
  <1>5. PhaseHolds(v)'
    BY <1>0, <1>2, <1>3 DEF EndAfterPending, ViewerInv, PhaseHolds, Final
  <1> QED
    BY <1>1, <1>4, <1>5, ViewerStep DEF EndAfterPending, ViewerInv

\* What a store page holds: it continues what was seen, it stays in the store,
\* it is empty or short only at its end, and never empty below the boundary.
LEMMA PageFacts ==
  ASSUME Inv, NEW v \in Viewers
  PROVE  /\ Page(v) \in Seq(1..MaxEvents) /\ Len(Page(v)) \in Nat
         /\ Consecutive(Page(v), lastSeen[v])
         /\ lastSeen[v] + Len(Page(v)) <= events
         /\ LastPage(v) => lastSeen[v] + Len(Page(v)) = events
         /\ Page(v) = <<>> => lastSeen[v] = events
         /\ BadPage(v) => Page(v) = <<>> /\ sphase[v] = "CatchUp"
  <1>1. /\ lastSeen[v] \in Nat /\ events \in Nat /\ events <= MaxEvents /\ MaxEvents \in Nat
        /\ PageSize \in Nat \ {0} /\ lastSeen[v] <= events
    <2>1. ViewerInv(v) /\ ViewerTypes(v)
      BY Known
    <2>2. lastSeen[v] + Len(pending[v]) <= events /\ Len(pending[v]) \in Nat
      BY <2>1 DEF ViewerTypes, ViewerInv, PiecesHold
    <2> QED
      BY <2>1, <2>2, StreamAssumption DEF ViewerTypes, StreamAssumption
  <1> DEFINE size == IF events - lastSeen[v] < PageSize THEN events - lastSeen[v] ELSE PageSize
             page == [i \in 1..size |-> lastSeen[v] + i]
  <1>2. Page(v) = page
    BY DEF Page
  <1>3. /\ size \in Nat /\ size <= PageSize /\ lastSeen[v] + size <= events
        /\ size < PageSize => lastSeen[v] + size = events
        /\ size = 0 => lastSeen[v] = events
    BY <1>1
  <1> HIDE DEF size
  <1>4. \A i \in 1..size : lastSeen[v] + i \in 1..MaxEvents
    BY <1>1, <1>3
  <1>5. page \in Seq(1..MaxEvents) /\ Len(page) = size /\ DOMAIN page = 1..size
        /\ \A i \in 1..size : page[i] = lastSeen[v] + i
    BY <1>3, <1>4
  <1> HIDE DEF page
  <1>6. page = <<>> => size = 0
    BY <1>5
  <1>7. Consecutive(page, lastSeen[v])
    BY <1>5 DEF Consecutive
  <1>8. BadPage(v) => page = <<>> /\ sphase[v] = "CatchUp"
    BY <1>2, <1>5 DEF BadPage
  <1>9. LastPage(v) => lastSeen[v] + Len(page) = events
    BY <1>2, <1>3, <1>5 DEF LastPage
  <1> QED
    BY <1>2, <1>3, <1>5, <1>6, <1>7, <1>8, <1>9

\* The boundary is in the store, so a page behind it is never empty.
LEMMA LoadInv ==
  ASSUME Inv, NEW v \in Viewers, LoadPage(v)
  PROVE  Inv'
  <1> USE DEF writerVars, hubVars, browserVars
  <1>0. TypeOK /\ ViewerInv(v) /\ ViewerTypes(v) /\ pending[v] = <<>>
        /\ sphase[v] \in {"CatchUp", "FinalCatchUp"}
    BY Known DEF LoadPage
  <1>1. /\ Page(v) \in Seq(1..MaxEvents) /\ Len(Page(v)) \in Nat
        /\ Consecutive(Page(v), lastSeen[v])
        /\ lastSeen[v] + Len(Page(v)) <= events
        /\ LastPage(v) => lastSeen[v] + Len(Page(v)) = events
        /\ Page(v) = <<>> => lastSeen[v] = events
        /\ BadPage(v) => Page(v) = <<>> /\ sphase[v] = "CatchUp"
    BY PageFacts
  <1>2. ~BadPage(v)
    <2>1. SUFFICES ASSUME BadPage(v) PROVE FALSE
      OBVIOUS
    <2>2. sphase[v] = "CatchUp" /\ lastSeen[v] = events /\ ~CaughtUp(v)
      BY <1>1, <2>1 DEF LoadPage
    <2>3. target[v] <= events /\ target[v] \in Nat /\ events \in Nat
      BY <1>0 DEF ViewerTypes, ViewerInv, PhaseHolds
    <2> QED
      BY <2>2, <2>3 DEF CaughtUp
  <1>3. \A p \in Viewers \ {v} : Same(p)
    BY <1>0 DEF LoadPage, Fail, SetPhase, TypeOK, Same
  <1>4. CASE Fail(v, "Store")
    <2>1. TypeOK'
      BY <1>0, <1>4 DEF LoadPage, Fail, SetPhase, TypeOK
    <2>2. sphase'[v] = "Done" /\ failure'[v] = "Store" /\ pending'[v] = <<>>
      BY <1>0, <1>4 DEF Fail, SetPhase, TypeOK
    <2>3. PiecesHold(v)'
      BY <1>0, <2>2 DEF LoadPage, ViewerInv, PiecesHold
    <2>4. PhaseHolds(v)'
      BY <1>0, <2>2 DEF LoadPage, ViewerInv, PhaseHolds
    <2> QED
      BY <1>3, <2>1, <2>3, <2>4, ViewerStep DEF LoadPage, ViewerInv
  <1>5. CASE /\ Page(v) # <<>> /\ pending' = [pending EXCEPT ![v] = Page(v)]
             /\ SetPhase(v, IF sphase[v] = "FinalCatchUp" /\ LastPage(v)
                            THEN "DoneAfterPending" ELSE sphase[v])
             /\ UNCHANGED failure
    <2>1. TypeOK'
      BY <1>0, <1>1, <1>5 DEF LoadPage, SetPhase, TypeOK
    <2>2. pending'[v] = Page(v) /\ lastSeen' = lastSeen /\ events' = events
      BY <1>0, <1>5 DEF LoadPage, TypeOK
    <2>3. \/ sphase'[v] = sphase[v]
          \/ sphase[v] = "FinalCatchUp" /\ LastPage(v) /\ sphase'[v] = "DoneAfterPending"
      BY <1>0, <1>5 DEF SetPhase, TypeOK
    <2>4. PiecesHold(v)'
      BY <1>0, <1>1, <2>2, <2>3 DEF LoadPage, ViewerInv, PiecesHold
    <2>5. PhaseHolds(v)'
      <3>1. CASE sphase'[v] = sphase[v]
        BY <1>0, <1>5, <3>1 DEF LoadPage, ViewerInv, PhaseHolds, Started, Final
      <3>2. CASE sphase[v] = "FinalCatchUp" /\ LastPage(v) /\ sphase'[v] = "DoneAfterPending"
        <4>1. lastSeen'[v] + Len(pending'[v]) = events'
          BY <1>1, <2>2, <3>2
        <4> QED
          BY <1>0, <1>5, <3>2, <4>1 DEF LoadPage, ViewerInv, PhaseHolds, Started, Final
      <3> QED
        BY <2>3, <3>1, <3>2
    <2> QED
      BY <1>3, <2>1, <2>4, <2>5, ViewerStep DEF LoadPage, ViewerInv
  <1>6. CASE Page(v) = <<>> /\ SetPhase(v, "Done") /\ UNCHANGED <<pending, failure>>
    <2>1. TypeOK'
      BY <1>0, <1>6 DEF LoadPage, SetPhase, TypeOK
    <2>2. sphase'[v] = "Done" /\ sphase[v] = "FinalCatchUp" /\ lastSeen[v] = events
      BY <1>0, <1>1, <1>2, <1>6 DEF SetPhase, TypeOK, BadPage
    <2>3. early[v] \/ Final
      BY <1>0, <2>2 DEF ViewerInv, PhaseHolds
    <2>4. PiecesHold(v)'
      BY <1>0, <1>6, <2>2 DEF LoadPage, ViewerInv, PiecesHold
    <2>5. PhaseHolds(v)'
      BY <1>0, <1>6, <2>2, <2>3 DEF LoadPage, ViewerInv, PhaseHolds, Final
    <2> QED
      BY <1>3, <2>1, <2>4, <2>5, ViewerStep DEF LoadPage, ViewerInv
  <1> QED
    BY <1>2, <1>4, <1>5, <1>6 DEF LoadPage
-----------------------------------------------------------------------------
\* Browser

LEMMA OpenInv ==
  ASSUME Inv, NEW v \in Viewers, Open(v)
  PROVE  Inv'
  <1> USE DEF writerVars, hubVars, streamVars
  <1>0. TypeOK /\ ViewerInv(v) /\ conn[v] = "idle" /\ wphase # "New"
    BY Known DEF Open
  <1>1. TypeOK' /\ conn'[v] = "connecting" /\ \A p \in Viewers \ {v} : Same(p)
    BY <1>0 DEF Open, SetConn, TypeOK, Same
  <1>2. PiecesHold(v)'
    BY <1>0 DEF Open, ViewerInv, PiecesHold
  <1>3. PhaseHolds(v)'
    BY <1>0, <1>1 DEF Open, ViewerInv, PhaseHolds, Started, Final
  <1> QED
    BY <1>1, <1>2, <1>3, ViewerStep DEF Open, ViewerInv

LEMMA ConnectInv ==
  ASSUME Inv, NEW v \in Viewers, Connect(v)
  PROVE  Inv'
  <1> USE DEF writerVars, hubVars, streamVars
  <1>0. TypeOK /\ ViewerInv(v) /\ ViewerTypes(v) /\ conn[v] \in {"connecting", "reconnecting"}
    BY Known DEF Connect
  <1>1. sphase[v] = "Off" /\ wire[v] = <<>> /\ pending[v] = <<>> /\ wphase # "New"
    BY <1>0 DEF ViewerInv, PiecesHold, PhaseHolds
  <1>2. connections' \in [Viewers -> 0..MaxConnections]
    <2>1. connections[v] + 1 \in 0..MaxConnections
      BY <1>0, StreamAssumption DEF Connect, TypeOK, StreamAssumption
    <2> QED
      BY <1>0, <2>1 DEF Connect, TypeOK
  <1>3. CASE sphase' # sphase
    <2>0. /\ SetConn(v, "open") /\ SetPhase(v, "Subscribe")
          /\ lastSeen' = [lastSeen EXCEPT ![v] = got[v]]
          /\ failure' = [failure EXCEPT ![v] = "None"]
          /\ early' = [early EXCEPT ![v] = FALSE]
          /\ UNCHANGED <<target, next, pending>>
      BY <1>3 DEF Connect, ResumeCursor
    <2>1. TypeOK' /\ \A p \in Viewers \ {v} : Same(p)
      <3>1. TypeOK'
        BY <1>0, <1>2, <2>0 DEF Connect, SetConn, SetPhase, TypeOK
      <3>2. \A p \in Viewers \ {v} : Same(p)
        BY <1>0, <2>0 DEF Connect, SetConn, SetPhase, TypeOK, Same
      <3> QED
        BY <3>1, <3>2
    <2>2. /\ conn'[v] = "open" /\ sphase'[v] = "Subscribe" /\ lastSeen'[v] = got[v]
          /\ failure'[v] = "None"
      BY <1>0, <2>0 DEF SetConn, SetPhase, TypeOK
    <2>3. /\ got[v] \in Nat /\ got[v] <= events /\ envelopes[v] = 1..got[v]
          /\ wire'[v] = <<>> /\ pending'[v] = <<>>
      BY <1>0, <1>1, <1>3 DEF Connect, ViewerTypes, ViewerInv, PiecesHold
    <2>4. PiecesHold(v)'
      BY <2>2, <2>3 DEF Connect, PiecesHold, Consecutive
    <2>5. PhaseHolds(v)'
      BY <1>0, <1>1, <1>3, <2>2 DEF Connect, ViewerInv, PhaseHolds, Started, Final
    <2> QED
      BY <2>1, <2>4, <2>5, ViewerStep DEF Connect, ViewerInv
  <1>4. CASE sphase' = sphase
    <2>1. SetConn(v, "dead") /\ UNCHANGED streamVars
      BY <1>0, <1>1, <1>4 DEF Connect, SetPhase, TypeOK
    <2>2. TypeOK' /\ conn'[v] = "dead" /\ \A p \in Viewers \ {v} : Same(p)
      BY <1>0, <1>2, <2>1 DEF Connect, SetConn, TypeOK, Same
    <2>3. PiecesHold(v)'
      BY <1>0, <2>1 DEF Connect, ViewerInv, PiecesHold
    <2>4. PhaseHolds(v)'
      BY <1>0, <1>1, <2>1, <2>2 DEF Connect, ViewerInv, PhaseHolds, Started, Final
    <2> QED
      BY <2>2, <2>3, <2>4, ViewerStep DEF Connect, ViewerInv
  <1> QED
    BY <1>3, <1>4

\* A response that is dropped leaves what the page has.
LEMMA DropInv ==
  ASSUME Inv, NEW v \in Viewers, conn[v] = "open", DropStream(v), NEW c, SetConn(v, c),
         c \in {"reconnecting", "closed"}, UNCHANGED <<sawTerminal, connections, writerVars, hubVars>>,
         \A p \in Viewers \ {v} : got'[p] = got[p] /\ envelopes'[p] = envelopes[p],
         got' \in [Viewers -> 0..MaxEvents], envelopes' \in [Viewers -> SUBSET (1..MaxEvents)],
         envelopes'[v] = 1..got'[v], got'[v] <= events
  PROVE  Inv'
  <1> USE DEF writerVars, hubVars
  <1>0. TypeOK /\ ViewerInv(v) /\ ViewerTypes(v)
    BY Known
  <1>1. <<>> \in Seq(1..MaxEvents)
    OBVIOUS
  <1>2. TypeOK' /\ \A p \in Viewers \ {v} : Same(p)
    BY <1>0, <1>1 DEF DropStream, SetPhase, SetConn, TypeOK, Same
  <1>3. /\ sphase'[v] = "Off" /\ wire'[v] = <<>> /\ pending'[v] = <<>>
        /\ conn'[v] = c /\ lastSeen' = lastSeen /\ UNCHANGED <<target, next, failure, early>>
    BY <1>0 DEF DropStream, SetPhase, SetConn, TypeOK
  <1>4. lastSeen'[v] + Len(pending'[v]) <= events'
    <2>1. lastSeen[v] + Len(pending[v]) <= events /\ Len(pending[v]) \in Nat
          /\ lastSeen[v] \in Nat /\ events \in Nat
      BY <1>0 DEF ViewerTypes, ViewerInv, PiecesHold
    <2>2. lastSeen[v] + 0 <= events
      BY <2>1
    <2> QED
      BY <1>3, <2>2
  <1>5. PiecesHold(v)'
    BY <1>3, <1>4 DEF PiecesHold, Consecutive
  <1>6. PhaseHolds(v)'
    BY <1>0, <1>3 DEF ViewerInv, PhaseHolds
  <1> QED
    BY <1>2, <1>5, <1>6, ViewerStep DEF ViewerInv

LEMMA EnvelopeInv ==
  ASSUME Inv, NEW v \in Viewers, OnEnvelope(v)
  PROVE  Inv'
  <1> USE DEF writerVars, hubVars
  <1>0. TypeOK /\ ViewerInv(v) /\ ViewerTypes(v) /\ conn[v] = "open" /\ wire[v] # <<>>
    BY Known DEF OnEnvelope
  <1>1. /\ Head(wire[v]) = got[v] + 1 /\ Len(wire[v]) \in Nat \ {0}
        /\ Tail(wire[v]) \in Seq(1..MaxEvents) /\ Len(Tail(wire[v])) = Len(wire[v]) - 1
        /\ Consecutive(Tail(wire[v]), got[v] + 1)
    BY <1>0, Shrinks DEF ViewerTypes, ViewerInv, PiecesHold
  <1>2. /\ sphase[v] # "Off" /\ lastSeen[v] = got[v] + Len(wire[v])
        /\ lastSeen[v] + Len(pending[v]) <= events /\ envelopes[v] = 1..got[v]
    BY <1>0 DEF ViewerInv, PiecesHold, PhaseHolds
  <1>3. got[v] \in Nat /\ Len(pending[v]) \in Nat /\ events \in Nat /\ events <= MaxEvents
        /\ MaxEvents \in Nat
    BY <1>0 DEF ViewerTypes
  <1>4. got[v] + 1 <= events /\ got[v] + 1 \in 1..MaxEvents /\ got[v] + 1 \in 0..MaxEvents
        /\ 1..(got[v] + 1) = 1..got[v] \cup {got[v] + 1}
    BY <1>1, <1>2, <1>3, SMTT(30)
  <1>5. /\ got' = [got EXCEPT ![v] = got[v] + 1]
        /\ envelopes' = [envelopes EXCEPT ![v] = @ \cup {got[v] + 1}]
    BY <1>1 DEF OnEnvelope
  <1>6. /\ got' \in [Viewers -> 0..MaxEvents] /\ envelopes' \in [Viewers -> SUBSET (1..MaxEvents)]
        /\ got'[v] = got[v] + 1 /\ envelopes'[v] = 1..got'[v] /\ got'[v] <= events
        /\ \A p \in Viewers \ {v} : got'[p] = got[p] /\ envelopes'[p] = envelopes[p]
    BY <1>0, <1>2, <1>4, <1>5 DEF TypeOK
  <1>7. CASE Head(wire[v]) = terminal
    BY <1>0, <1>6, <1>7, DropInv DEF OnEnvelope
  <1>8. CASE Head(wire[v]) # terminal
    <2>1. wire' = [wire EXCEPT ![v] = Tail(@)] /\ UNCHANGED <<conn, streamVars>>
      BY <1>8 DEF OnEnvelope
    <2>2. TypeOK' /\ \A p \in Viewers \ {v} : Same(p)
      BY <1>0, <1>1, <1>6, <2>1 DEF OnEnvelope, streamVars, TypeOK, Same
    <2>3. wire'[v] = Tail(wire[v]) /\ wire'[v] \in Seq(1..MaxEvents)
      BY <1>0, <1>1, <2>1 DEF TypeOK
    <2>4. lastSeen[v] = got[v] + 1 + Len(Tail(wire[v]))
      BY <1>1, <1>2, <1>3
    <2>5. PiecesHold(v)'
      BY <1>0, <1>1, <1>2, <1>6, <2>1, <2>3, <2>4
      DEF OnEnvelope, streamVars, ViewerInv, PiecesHold
    <2>6. PhaseHolds(v)'
      BY <1>0, <2>1 DEF OnEnvelope, streamVars, ViewerInv, PhaseHolds, Started, Final
    <2> QED
      BY <2>2, <2>5, <2>6, ViewerStep DEF OnEnvelope, ViewerInv
  <1> QED
    BY <1>7, <1>8

LEMMA BreakInv ==
  ASSUME Inv, NEW v \in Viewers, OnEof(v) \/ Disconnect(v)
  PROVE  Inv'
  <1>0. TypeOK /\ ViewerInv(v)
    BY Known
  <1>1. /\ conn[v] = "open" /\ SetConn(v, "reconnecting") /\ DropStream(v)
        /\ UNCHANGED <<got, envelopes, sawTerminal, connections, writerVars, hubVars>>
    BY DEF OnEof, Disconnect
  <1>2. /\ got \in [Viewers -> 0..MaxEvents] /\ envelopes \in [Viewers -> SUBSET (1..MaxEvents)]
        /\ envelopes[v] = 1..got[v] /\ got[v] <= events
    BY <1>0 DEF TypeOK, ViewerInv, PiecesHold
  <1> QED
    BY <1>1, <1>2, DropInv

LEMMA PollInv ==
  ASSUME Inv, NEW v \in Viewers, PollRun(v)
  PROVE  Inv'
  <1> USE DEF writerVars, hubVars, streamVars
  <1>0. TypeOK /\ ViewerInv(v)
    BY Known
  <1>1. TypeOK' /\ \A p \in Viewers \ {v} : Same(p)
    BY <1>0 DEF PollRun, TypeOK, Same
  <1>2. PiecesHold(v)'
    BY <1>0 DEF PollRun, ViewerInv, PiecesHold
  <1>3. PhaseHolds(v)'
    BY <1>0 DEF PollRun, ViewerInv, PhaseHolds, Started, Final
  <1> QED
    BY <1>1, <1>2, <1>3, ViewerStep DEF PollRun, ViewerInv

LEMMA CloseInv ==
  ASSUME Inv, NEW v \in Viewers, CloseOnTerminal(v)
  PROVE  Inv'
  <1> USE DEF writerVars, hubVars, streamVars
  <1>0. TypeOK /\ ViewerInv(v) /\ conn[v] \in {"reconnecting", "dead"}
    BY Known DEF CloseOnTerminal
  <1>1. TypeOK' /\ conn'[v] = "closed" /\ \A p \in Viewers \ {v} : Same(p)
    BY <1>0 DEF CloseOnTerminal, SetConn, TypeOK, Same
  <1>2. PiecesHold(v)'
    BY <1>0 DEF CloseOnTerminal, ViewerInv, PiecesHold
  <1>3. PhaseHolds(v)'
    BY <1>0, <1>1 DEF CloseOnTerminal, ViewerInv, PhaseHolds, Started, Final
  <1> QED
    BY <1>1, <1>2, <1>3, ViewerStep DEF CloseOnTerminal, ViewerInv
-----------------------------------------------------------------------------
LEMMA StutterInv ==
  ASSUME Inv, UNCHANGED vars
  PROVE  Inv'
  <1> USE DEF vars, writerVars, hubVars, streamVars, browserVars
  <1>1. TypeOK'
    BY DEF Inv, TypeOK
  <1>2. HubInv'
    BY DEF Inv, HubInv
  <1>3. ASSUME NEW v \in Viewers PROVE ViewerInv(v)'
    BY DEF Inv, ViewerInv, PiecesHold, PhaseHolds, Started, Final
  <1> QED
    BY <1>1, <1>2, <1>3 DEF Inv

LEMMA NextInv == Inv /\ [Next]_vars => Inv'
  <1> SUFFICES ASSUME Inv, [Next]_vars PROVE Inv'
    OBVIOUS
  <1>1. CASE Writer
    BY <1>1, WriterInv
  <1>2. ASSUME NEW v \in Viewers, Stream(v) PROVE Inv'
    BY <1>2, SubscribeInv, SnapshotInv, PopInv, EnterLiveInv, LoadInv, RecvInv, EndInv
    DEF Stream
  <1>3. ASSUME NEW v \in Viewers, Open(v) \/ Browser(v) \/ Disconnect(v) PROVE Inv'
    BY <1>3, OpenInv, ConnectInv, EnvelopeInv, BreakInv, PollInv, CloseInv DEF Browser
  <1>4. CASE UNCHANGED vars
    BY <1>4, StutterInv
  <1> QED
    BY <1>1, <1>2, <1>3, <1>4 DEF Next

LEMMA InvHolds == Spec => []Inv
  <1>1. Init => Inv
    BY InitInv
  <1>2. Inv /\ [Next]_vars => Inv'
    BY NextInv
  <1> QED
    BY <1>1, <1>2, PTL DEF Spec

\* Types, for any number of viewers and events: in particular no boundary, page
\* or message number leaves the stored events.
THEOREM StreamTypeCorrect == Spec => []TypeOK
  <1>1. Inv => TypeOK
    BY DEF Inv
  <1> QED
    BY <1>1, InvHolds, PTL

LEMMA ConsecutiveFunction ==
  ASSUME NEW S, NEW s \in Seq(S), NEW base, Consecutive(s, base)
  PROVE  s = [i \in 1..Len(s) |-> base + i]
  BY DEF Consecutive

\* Whatever the interleaving of writer, responses and browsers, with lags,
\* lost frames, failures of the store and reconnections, the page of a viewer
\* holds events 1..got and what is under way continues it without a gap or a
\* repetition; the stream's sequence check never fails.
THEOREM ViewersHoldPrefix == Spec => []ViewerHoldsPrefix
  <1>1. ASSUME Inv, NEW v \in Viewers
        PROVE  /\ envelopes[v] = 1..got[v]
               /\ got[v] <= events
               /\ conn[v] = "open" =>
                      /\ wire[v] = [i \in 1..Len(wire[v]) |-> got[v] + i]
                      /\ lastSeen[v] = got[v] + Len(wire[v])
                      /\ pending[v] = [i \in 1..Len(pending[v]) |-> lastSeen[v] + i]
               /\ failure[v] # "SequenceInvariant"
    <2>1. ViewerInv(v) /\ wire[v] \in Seq(1..MaxEvents) /\ pending[v] \in Seq(1..MaxEvents)
      BY <1>1, Known DEF ViewerTypes
    <2>2. /\ wire[v] = [i \in 1..Len(wire[v]) |-> got[v] + i]
          /\ pending[v] = [i \in 1..Len(pending[v]) |-> lastSeen[v] + i]
      BY <2>1, ConsecutiveFunction DEF ViewerInv, PiecesHold
    <2>3. conn[v] = "open" => lastSeen[v] = got[v] + Len(wire[v])
      BY <2>1 DEF ViewerInv, PiecesHold, PhaseHolds
    <2>4. envelopes[v] = 1..got[v] /\ got[v] <= events /\ failure[v] # "SequenceInvariant"
      BY <2>1 DEF ViewerInv, PiecesHold, PhaseHolds
    <2> QED
      BY <2>2, <2>3, <2>4
  <1>2. Inv => ViewerHoldsPrefix
    BY <1>1 DEF ViewerHoldsPrefix
  <1> QED
    BY <1>2, InvHolds, PTL

\* A response that ends without failure, and whose request did not come before
\* the run was registered, has read every event of a closed run.
THEOREM EndIsComplete == Spec => []EofIsComplete
  <1>1. ASSUME Inv, NEW v \in Viewers, sphase[v] = "Done", failure[v] = "None", ~early[v]
        PROVE  ~hubOpen /\ lastSeen[v] = events
    <2>1. ViewerInv(v) /\ HubInv
      BY <1>1, Known
    <2>2. Final /\ lastSeen[v] = events
      BY <1>1, <2>1 DEF ViewerInv, PhaseHolds
    <2> QED
      BY <2>1, <2>2 DEF HubInv, Final
  <1>2. Inv => EofIsComplete
    BY <1>1 DEF EofIsComplete
  <1> QED
    BY <1>2, InvHolds, PTL
=============================================================================
