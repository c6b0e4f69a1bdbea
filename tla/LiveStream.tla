----------------------------- MODULE LiveStream -----------------------------
(***************************************************************************)
(* How the events of one run reach a browser: the recorder's writer         *)
(* persists an event and then publishes it to the live hub                  *)
(* (explainability/live_hub.rs), the SSE endpoint of graphloom-studio       *)
(* (explainability/sse.rs) merges store pages with the hub's broadcast      *)
(* channel, and the EventSource of studio/src/hooks/                        *)
(* use-explainability-stream.ts receives, reconnects and closes.            *)
(*                                                                         *)
(* Event n of the run is the number n.  One action is one step between two  *)
(* points where another task can run; subscribe and publish touch two       *)
(* shared words each and take two steps.                                    *)
(***************************************************************************)
EXTENDS Integers, Sequences, FiniteSets

CONSTANTS Viewers,
          MaxEvents,       \* bound of the model: events the run may persist
          RingCapacity,    \* of the broadcast channel (tokio rounds up to 2^k)
          PageSize,        \* SSE_REPLAY_PAGE_SIZE
          MaxConnections   \* bound of the model: connections per viewer

ASSUME StreamAssumption ==
    /\ MaxEvents \in Nat
    /\ RingCapacity \in Nat \ {0}
    /\ PageSize \in Nat \ {0}
    /\ MaxConnections \in Nat

VARIABLES
    wphase,        \* the writer: "New" ... "Closed"
    events,        \* envelopes in the store
    terminal,      \* number of the run_completed or run_failed event, or 0
    runStatus,     \* status of the run in the store, abstracted
    hubOpen,       \* the hub has a channel for the run
    lastSequence,  \* that channel's atomic
    sent,          \* what was sent through it
    \* per viewer, the server's EnvelopeStreamState and response body
    sphase, lastSeen, target, next, pending, failure, early, wire,
    \* per viewer, the browser
    conn,          \* StreamStatus; "dead" is shown as reconnecting but is not
    got,           \* EventSource's last event id
    envelopes,     \* what the page has merged
    sawTerminal,   \* useRun has fetched a terminal run
    connections

writerVars == <<wphase, events, terminal, runStatus>>
hubVars == <<hubOpen, lastSequence, sent>>
streamVars == <<sphase, lastSeen, target, next, pending, failure, early>>
browserVars == <<conn, got, envelopes, sawTerminal, connections>>
vars == <<writerVars, hubVars, streamVars, wire, browserVars>>

Init ==
    /\ wphase = "New" /\ events = 0 /\ terminal = 0 /\ runStatus = "None"
    /\ hubOpen = FALSE /\ lastSequence = 0 /\ sent = <<>>
    /\ sphase = [v \in Viewers |-> "Off"]
    /\ lastSeen = [v \in Viewers |-> 0]
    /\ target = [v \in Viewers |-> 0]
    /\ next = [v \in Viewers |-> 0]
    /\ pending = [v \in Viewers |-> <<>>]
    /\ failure = [v \in Viewers |-> "None"]
    /\ early = [v \in Viewers |-> FALSE]
    /\ wire = [v \in Viewers |-> <<>>]
    /\ conn = [v \in Viewers |-> "idle"]
    /\ got = [v \in Viewers |-> 0]
    /\ envelopes = [v \in Viewers |-> {}]
    /\ sawTerminal = [v \in Viewers |-> FALSE]
    /\ connections = [v \in Viewers |-> 0]
-----------------------------------------------------------------------------
\* Recorder writer and hub

CreateRun ==
    /\ wphase = "New"
    /\ wphase' = "Created"
    /\ runStatus' = "Running"
    /\ UNCHANGED <<events, terminal, hubVars, streamVars, wire, browserVars>>

register_run ==
    /\ wphase = "Created"
    /\ wphase' = "Idle"
    /\ hubOpen' = TRUE
    /\ UNCHANGED <<events, terminal, runStatus, lastSequence, sent, streamVars, wire, browserVars>>

\* The terminal event is the last one a query session emits.
AppendEvent ==
    /\ wphase = "Idle"
    /\ events < MaxEvents /\ terminal = 0
    /\ events' = events + 1
    /\ terminal' \in {0, events + 1}
    /\ wphase' = "Appended"
    /\ UNCHANGED <<runStatus, hubVars, streamVars, wire, browserVars>>

\* publish: first the replay boundary, then the send.
AdvanceBoundary ==
    /\ wphase = "Appended"
    /\ lastSequence' = events
    /\ wphase' = "Advanced"
    /\ UNCHANGED <<events, terminal, runStatus, hubOpen, sent, streamVars, wire, browserVars>>
Publish ==
    /\ wphase = "Advanced"
    /\ sent' = Append(sent, events)
    /\ wphase' = "Idle"
    /\ UNCHANGED <<events, terminal, runStatus, hubOpen, lastSequence, streamVars, wire, browserVars>>

\* close_run at finish_run, shutdown or writer failure; the map's shard lock
\* waits for a subscribe that is reading the channel.
\* Mutant: the map entry survives.
CloseKeepsChannel ==
    /\ wphase = "Idle"
    /\ \A v \in Viewers : sphase[v] # "Snapshot"
    /\ wphase' = "Closed"
    /\ UNCHANGED <<events, terminal, runStatus, hubVars, streamVars, wire, browserVars>>
close_run ==
    /\ wphase = "Idle"
    /\ \A v \in Viewers : sphase[v] # "Snapshot"
    /\ hubOpen' = FALSE
    /\ wphase' = "Closed"
    /\ UNCHANGED <<events, terminal, runStatus, lastSequence, sent, streamVars, wire, browserVars>>

\* complete_run, after a finish_run that followed the terminal event.
CompleteRun ==
    /\ wphase = "Closed" /\ terminal # 0
    /\ runStatus' = "Terminal"
    /\ wphase' = "Completed"
    /\ UNCHANGED <<events, terminal, hubVars, streamVars, wire, browserVars>>

Writer == CreateRun \/ register_run \/ AppendEvent \/ AdvanceBoundary \/ Publish
          \/ close_run \/ CompleteRun
-----------------------------------------------------------------------------
\* SSE stream

SetPhase(v, p) == sphase' = [sphase EXCEPT ![v] = p]

\* subscribe: register the receiver, then read the boundary.  early is history:
\* the run was not registered with the hub yet.
Subscribe(v) ==
    /\ sphase[v] = "Subscribe"
    /\ IF hubOpen
       THEN /\ next' = [next EXCEPT ![v] = Len(sent) + 1]
            /\ SetPhase(v, "Snapshot")
            /\ UNCHANGED early
       ELSE /\ SetPhase(v, "FinalCatchUp")
            /\ early' = [early EXCEPT ![v] = wphase = "Created"]
            /\ UNCHANGED next
    /\ UNCHANGED <<lastSeen, target, pending, failure, writerVars, hubVars, wire, browserVars>>

Snapshot(v) ==
    /\ sphase[v] = "Snapshot"
    /\ target' = [target EXCEPT ![v] = lastSequence]
    /\ SetPhase(v, "CatchUp")
    /\ UNCHANGED <<lastSeen, next, pending, failure, early, writerVars, hubVars, wire, browserVars>>

\* Hand envelope n to the response body.
Yield(v, n) ==
    /\ lastSeen' = [lastSeen EXCEPT ![v] = n]
    /\ wire' = [wire EXCEPT ![v] = Append(@, n)]

PopPending(v) ==
    /\ sphase[v] \in {"CatchUp", "FinalCatchUp", "DoneAfterPending"}
    /\ pending[v] # <<>>
    /\ Yield(v, Head(pending[v]))
    /\ pending' = [pending EXCEPT ![v] = Tail(@)]
    /\ UNCHANGED <<sphase, target, next, failure, early, writerVars, hubVars, browserVars>>

\* Live starts when the boundary read at subscription has been replayed.
\* Mutant: it is not replayed at all.
NoCatchUp(v) == TRUE
CaughtUp(v) == lastSeen[v] >= target[v]

EnterLive(v) ==
    /\ sphase[v] = "CatchUp" /\ pending[v] = <<>> /\ CaughtUp(v)
    /\ SetPhase(v, "Live")
    /\ UNCHANGED <<lastSeen, target, next, pending, failure, early, writerVars, hubVars,
                   wire, browserVars>>

Fail(v, error) ==
    /\ failure' = [failure EXCEPT ![v] = error]
    /\ pending' = [pending EXCEPT ![v] = <<>>]
    /\ SetPhase(v, "Done")

\* load_store_page: events after lastSeen, at most a page.
\* Mutant: the page is always full.
PageUnbounded(v) == [i \in 1..PageSize |-> lastSeen[v] + i]
Page(v) ==
    LET size == IF events - lastSeen[v] < PageSize THEN events - lastSeen[v] ELSE PageSize
    IN  [i \in 1..size |-> lastSeen[v] + i]

\* A short page is the last one.  Mutant: so is a full one.
AnyPageIsLast(v) == Len(Page(v)) <= PageSize
LastPage(v) == Len(Page(v)) < PageSize

\* A page must not be empty while the boundary is ahead, and must continue
\* what was seen.
BadPage(v) ==
    \/ Page(v) = <<>> /\ sphase[v] = "CatchUp"
    \/ \E i \in DOMAIN Page(v) : Page(v)[i] # lastSeen[v] + i

LoadPage(v) ==
    /\ pending[v] = <<>>
    /\ \/ sphase[v] = "CatchUp" /\ ~CaughtUp(v)
       \/ sphase[v] = "FinalCatchUp"
    /\ \/ Fail(v, IF BadPage(v) THEN "SequenceInvariant" ELSE "Store")
       \/ /\ ~BadPage(v) /\ Page(v) # <<>>
          /\ pending' = [pending EXCEPT ![v] = Page(v)]
          /\ SetPhase(v, IF sphase[v] = "FinalCatchUp" /\ LastPage(v)
                         THEN "DoneAfterPending" ELSE sphase[v])
          /\ UNCHANGED failure
       \/ /\ ~BadPage(v) /\ Page(v) = <<>>
          /\ SetPhase(v, "Done")
          /\ UNCHANGED <<pending, failure>>
    /\ UNCHANGED <<lastSeen, target, next, early, writerVars, hubVars, wire, browserVars>>

Lagged(v) == Len(sent) - (next[v] - 1) > RingCapacity
Gap(v) == next[v] <= Len(sent) /\ sent[next[v]] > lastSeen[v] + 1

\* recv: a gap or a lag subscribes again; Closed only behind the last message.
Recv(v) ==
    /\ sphase[v] = "Live"
    /\ \/ /\ next[v] <= Len(sent) /\ ~Lagged(v)
          /\ sent[next[v]] <= lastSeen[v] + 1
          /\ next' = [next EXCEPT ![v] = @ + 1]
          /\ IF sent[next[v]] = lastSeen[v] + 1
             THEN Yield(v, sent[next[v]])
             ELSE UNCHANGED <<lastSeen, wire>>
          /\ UNCHANGED sphase
       \/ /\ Lagged(v) \/ Gap(v)
          /\ SetPhase(v, "Subscribe")
          /\ UNCHANGED <<next, lastSeen, wire>>
       \/ /\ next[v] > Len(sent) /\ ~hubOpen
          /\ SetPhase(v, "FinalCatchUp")
          /\ UNCHANGED <<next, lastSeen, wire>>
    /\ UNCHANGED <<target, pending, failure, early, writerVars, hubVars, browserVars>>

EndAfterPending(v) ==
    /\ sphase[v] = "DoneAfterPending" /\ pending[v] = <<>>
    /\ SetPhase(v, "Done")
    /\ UNCHANGED <<lastSeen, target, next, pending, failure, early, writerVars, hubVars,
                   wire, browserVars>>

Stream(v) == Subscribe(v) \/ Snapshot(v) \/ PopPending(v) \/ EnterLive(v) \/ LoadPage(v)
             \/ Recv(v) \/ EndAfterPending(v)
-----------------------------------------------------------------------------
\* Browser

SetConn(v, c) == conn' = [conn EXCEPT ![v] = c]

\* The response body and its stream state are dropped.
DropStream(v) ==
    /\ SetPhase(v, "Off")
    /\ pending' = [pending EXCEPT ![v] = <<>>]
    /\ wire' = [wire EXCEPT ![v] = <<>>]
    /\ UNCHANGED <<lastSeen, target, next, failure, early>>

\* The page selects the run.
Open(v) ==
    /\ conn[v] = "idle" /\ wphase # "New"
    /\ SetConn(v, "connecting")
    /\ UNCHANGED <<got, envelopes, sawTerminal, connections, writerVars, hubVars, streamVars, wire>>

\* resolve_cursor.  Mutant: a reconnection replays from the start.
ResumeFromStart(v) == 0
ResumeCursor(v) == got[v]

\* events_handler, with the Last-Event-ID of the viewer as its cursor.  An HTTP
\* error (here: the store failed) ends an EventSource for good.
Connect(v) ==
    /\ conn[v] \in {"connecting", "reconnecting"}
    /\ connections[v] < MaxConnections
    /\ connections' = [connections EXCEPT ![v] = @ + 1]
    /\ \/ /\ ResumeCursor(v) <= events
          /\ SetConn(v, "open")
          /\ SetPhase(v, "Subscribe")
          /\ lastSeen' = [lastSeen EXCEPT ![v] = ResumeCursor(v)]
          /\ failure' = [failure EXCEPT ![v] = "None"]
          /\ early' = [early EXCEPT ![v] = FALSE]
          /\ UNCHANGED <<target, next, pending>>
       \/ SetConn(v, "dead") /\ UNCHANGED streamVars
    /\ UNCHANGED <<got, envelopes, sawTerminal, writerVars, hubVars, wire>>

\* The id of a frame becomes the Last-Event-ID and its envelope is merged; a
\* terminal event closes the source.
OnEnvelope(v) ==
    /\ conn[v] = "open" /\ wire[v] # <<>>
    /\ got' = [got EXCEPT ![v] = Head(wire[v])]
    /\ envelopes' = [envelopes EXCEPT ![v] = @ \cup {Head(wire[v])}]
    /\ IF Head(wire[v]) = terminal
       THEN SetConn(v, "closed") /\ DropStream(v)
       ELSE wire' = [wire EXCEPT ![v] = Tail(@)] /\ UNCHANGED <<conn, streamVars>>
    /\ UNCHANGED <<sawTerminal, connections, writerVars, hubVars>>

\* The body has ended and was read to its end.
OnEof(v) ==
    /\ conn[v] = "open" /\ sphase[v] = "Done" /\ wire[v] = <<>>
    /\ SetConn(v, "reconnecting")
    /\ DropStream(v)
    /\ UNCHANGED <<got, envelopes, sawTerminal, connections, writerVars, hubVars>>

\* The connection breaks; frames under way are lost.
Disconnect(v) ==
    /\ conn[v] = "open"
    /\ SetConn(v, "reconnecting")
    /\ DropStream(v)
    /\ UNCHANGED <<got, envelopes, sawTerminal, connections, writerVars, hubVars>>

\* useRun polls the run until it is terminal ...
PollRun(v) ==
    /\ conn[v] # "idle" /\ ~sawTerminal[v] /\ runStatus = "Terminal"
    /\ sawTerminal' = [sawTerminal EXCEPT ![v] = TRUE]
    /\ UNCHANGED <<conn, got, envelopes, connections, writerVars, hubVars, streamVars, wire>>
\* ... and then a source that is reconnecting is closed.
CloseOnTerminal(v) ==
    /\ sawTerminal[v] /\ conn[v] \in {"reconnecting", "dead"}
    /\ SetConn(v, "closed")
    /\ UNCHANGED <<got, envelopes, sawTerminal, connections, writerVars, hubVars, streamVars, wire>>

Browser(v) == Connect(v) \/ OnEnvelope(v) \/ OnEof(v) \/ PollRun(v) \/ CloseOnTerminal(v)
-----------------------------------------------------------------------------
Next ==
    \/ Writer
    \/ \E v \in Viewers : Stream(v) \/ Open(v) \/ Browser(v) \/ Disconnect(v)

Spec == Init /\ [][Next]_vars

\* hyper polls a body while its client reads, the browser reads and polls, and
\* a publish that has begun ends.  Nobody has to emit, close or disconnect.
Fairness ==
    /\ WF_vars(register_run \/ AdvanceBoundary \/ Publish)
    /\ \A v \in Viewers : WF_vars(Stream(v)) /\ WF_vars(OnEnvelope(v) \/ OnEof(v))
FairSpec == Spec /\ Fairness
-----------------------------------------------------------------------------
TypeOK ==
    /\ wphase \in {"New", "Created", "Idle", "Appended", "Advanced", "Closed", "Completed"}
    /\ events \in 0..MaxEvents
    /\ terminal \in 0..MaxEvents
    /\ runStatus \in {"None", "Running", "Terminal"}
    /\ hubOpen \in BOOLEAN
    /\ lastSequence \in 0..MaxEvents
    /\ sent \in Seq(1..MaxEvents)
    /\ sphase \in [Viewers -> {"Off", "Subscribe", "Snapshot", "CatchUp", "Live",
                               "FinalCatchUp", "DoneAfterPending", "Done"}]
    /\ lastSeen \in [Viewers -> 0..MaxEvents]
    /\ target \in [Viewers -> 0..MaxEvents]
    /\ next \in [Viewers -> 0..MaxEvents + 1]
    /\ pending \in [Viewers -> Seq(1..MaxEvents)]
    /\ failure \in [Viewers -> {"None", "Store", "SequenceInvariant"}]
    /\ early \in [Viewers -> BOOLEAN]
    /\ wire \in [Viewers -> Seq(1..MaxEvents)]
    /\ conn \in [Viewers -> {"idle", "connecting", "open", "reconnecting", "dead", "closed"}]
    /\ got \in [Viewers -> 0..MaxEvents]
    /\ envelopes \in [Viewers -> SUBSET (1..MaxEvents)]
    /\ sawTerminal \in [Viewers -> BOOLEAN]
    /\ connections \in [Viewers -> 0..MaxConnections]

\* Across replay, live delivery, lag, resubscription, lost frames and
\* reconnection the page holds exactly the events 1..got, all of them in the
\* store: none missed or out of order, and what is under way continues it
\* without a gap or a repetition; the boundary read at subscription can always
\* be replayed, so no connection ends with the stream's sequence invariant error.
ViewerHoldsPrefix ==
    \A v \in Viewers :
        /\ envelopes[v] = 1..got[v]
        /\ got[v] <= events
        /\ conn[v] = "open" =>
               /\ wire[v] = [i \in 1..Len(wire[v]) |-> got[v] + i]
               /\ lastSeen[v] = got[v] + Len(wire[v])
               /\ pending[v] = [i \in 1..Len(pending[v]) |-> lastSeen[v] + i]
        /\ failure[v] # "SequenceInvariant"

\* A response that ends without failure has delivered every event, and the run
\* is closed, unless its request came before the run was registered.
EofIsComplete ==
    \A v \in Viewers :
        sphase[v] = "Done" /\ failure[v] = "None" /\ ~early[v]
            => ~hubOpen /\ lastSeen[v] = events

\* A viewer that stays connected receives every persisted event.
ConnectedViewerGetsEvent ==
    \A v \in Viewers, n \in 1..MaxEvents :
        (conn[v] = "open" /\ events >= n) ~> (got[v] >= n \/ conn[v] # "open")

\* After the run is closed every open response ends.
ResponseEnds ==
    \A v \in Viewers : (wphase = "Closed" /\ conn[v] = "open") ~> conn[v] # "open"

\* "a client recovers through the Store and Last-Event-ID": a source that is
\* reconnecting is not closed while events of the run are still missing.
ReconnectRecoversTail ==
    [][\A v \in Viewers :
          conn[v] = "reconnecting" /\ conn'[v] = "closed" => envelopes[v] = 1..events]_vars
=============================================================================
