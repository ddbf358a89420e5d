------------------------------- MODULE Streams -------------------------------
(***************************************************************************)
(* The event hub and one runtime stream (internal/server/event_hub.go,     *)
(* runtime_activity.go, serving_observation.go) between the operation      *)
(* manager and the page that folds the stream in (webui/workflow.js).  Of  *)
(* the manager it knows what Lifecycle says and Operations implements.     *)
(*                                                                         *)
(* The hub pushes to every stream's queue alone, so one stream stands for  *)
(* each.  A write to the response and the page's reading of it are one     *)
(* step: what is between them keeps its order, and a slow reader is a      *)
(* stream that does not take its next step.                                *)
(***************************************************************************)
EXTENDS Lifecycle, Sequences, FiniteSetsExt, Functions

CONSTANTS
  MaxTransitions, \* bound: notifications about all operations
  MaxServings,    \* bound: serving observations recorded
  MaxConnections  \* bound: how often the page connects

ASSUME StreamsAssumption ==
  /\ Limit \in Nat \ {0}
  /\ MaxTransitions \in Nat /\ MaxServings \in Nat /\ MaxConnections \in Nat
  /\ "admitted" \in Active /\ Active \cap Settled = {} /\ GivesWay \subseteq Settled
  /\ "none" \notin Active \cup Settled
  /\ {"completed", "cancelled", "failed"} \cap (Active \cup GivesWay) = {}

VARIABLES
  hubOpen,   \* ~eventHub.closed
  queue,     \* the stream's bounded queue
  token,     \* eventHub.sessionsChanged holds its one token
  computed,  \* the sessions snapshot the pump has taken and not published: whether
             \* it reflects every transition so far
  durable,   \* the serving observations in the store
  cursor,    \* servingEvents.cursor
  recording, \* how far the publication is that holds servingEvents.mu, if one does
  stream,    \* runtimeActivityStream: where it is and what it keeps
  page       \* what the page shows

operationVars == <<notified, retained>>
hubVars == <<hubOpen, queue, token, computed>>
servingVars == <<durable, cursor, recording>>
streamVars == <<hubVars, servingVars, stream, page>>
vars == <<operationVars, streamVars>>

------------------------------------------------------------------------------
(* What the page makes of an event *)

\* terminal(state) of the page, to which a blocked operation is not finished.
Finished(status) == status.state \in {"completed", "cancelled", "failed"}

\* Mutant: a transition queued before a snapshot undoes it.
FoldOperationLate(p, id, status) ==
  [p EXCEPT !.shown[id] = status]

\* publish("operation"): a finished operation stays finished.
FoldOperation(p, id, status) ==
  IF Finished(p.shown[id]) /\ ~Finished(status) THEN p
  ELSE [p EXCEPT !.shown[id] = status]

\* Where the page lists an observation, or would if it followed all others.
PlaceOf(list, n) ==
  IF \E i \in 1 .. Len(list) : list[i] = n
  THEN CHOOSE i \in 1 .. Len(list) : list[i] = n ELSE Len(list) + 1

\* The observation goes to the front of the list, which is cut to the limit.
ToFront(list, n) ==
  LET at == PlaceOf(list, n)
  IN  [i \in 1 .. Min({Limit, Max({at, Len(list)})}) |->
         IF i = 1 THEN n ELSE IF i <= at THEN list[i - 1] ELSE list[i]]

\* publish("runtime.serving"): what the snapshot's cursor covers is in it.
FoldServing(p, n) ==
  IF n <= p.upto THEN p
  ELSE [p EXCEPT !.upto = n, !.activity = ToFront(@, n)]

\* runtimeActivityStream on one event of its queue, the page showing p.
Taken(p, e) ==
  CASE e.name = "resync" ->
         [stream |-> [stream EXCEPT !.at = "sessions", !.whole = TRUE], page |-> p]
    [] e.name = "records" ->
         [stream |-> [stream EXCEPT !.at = "cursor", !.whole = FALSE], page |-> p]
    [] e.name = "operation" ->
         [stream |-> stream, page |-> FoldOperation(p, e.id, e.status)]
    [] e.name = "sessions" ->
         [stream |-> stream, page |-> [p EXCEPT !.fresh = e.fresh]]
    [] e.name = "serving" ->
         IF e.cursor <= stream.cursor THEN [stream |-> stream, page |-> p]
         ELSE [stream |-> [stream EXCEPT !.cursor = e.cursor],
               page |-> FoldServing(p, e.cursor)]

------------------------------------------------------------------------------
(* The hub *)

\* Mutant: a full queue drops the new event.
PushDropping(q, e) == IF Len(q) < Limit THEN Append(q, e) ELSE q

\* publish to one queue: a full one is cleared for a resync.
Push(q, e) == IF Len(q) < Limit THEN Append(q, e) ELSE <<[name |-> "resync"]>>

Subscribed == hubOpen /\ stream.at # "away"

\* What is pushed on top of what was held reaches a subscribed stream.  It reads
\* on while a full queue is cleared, and may take one of what goes.
Broadcast(held, p, pushed) ==
  LET cleared == {held[i] : i \in 1 .. Len(held)} \ {pushed[i] : i \in 1 .. Len(pushed)}
  IN  IF Subscribed
      THEN /\ queue' = pushed
           /\ \/ stream' = stream /\ page' = p
              \/ /\ stream.at = "relay"
                 /\ \E e \in cleared :
                      stream' = Taken(p, e).stream /\ page' = Taken(p, e).page
      ELSE page' = p /\ UNCHANGED <<queue, stream>>

\* A sessions snapshot on its way is of the past once a transition follows it.
Aged(e) == IF e.name = "sessions" THEN [e EXCEPT !.fresh = FALSE] ELSE e

\* A transition of the manager, and observeOperation under the manager's lock.
OperationStep ==
  /\ LifecycleNext
  /\ LET id == CHOOSE i \in Ids : notified'[i] # notified[i]
         told == [name |-> "operation", id |-> id, status |-> notified'[id]]
         aged == [i \in 1 .. Len(queue) |-> Aged(queue[i])]
         pushed == Push(aged, told)
     IN  /\ MapThenSumSet(LAMBDA i : notified'[i].times, Ids) <= MaxTransitions
         /\ Broadcast(aged, [page EXCEPT !.fresh = FALSE],
                      IF notified'[id].state \in Settled THEN Push(pushed, [name |-> "records"])
                      ELSE pushed)
  /\ token' = TRUE
  /\ computed' = IF computed = "fresh" THEN "aged" ELSE computed
  /\ UNCHANGED <<hubOpen, servingVars>>

\* The pump takes the token and then the sessions snapshot ...
PumpTakes ==
  /\ hubOpen /\ token /\ computed = "none"
  /\ token' = FALSE
  /\ computed' = "fresh"
  /\ UNCHANGED <<operationVars, hubOpen, queue, servingVars, stream, page>>

\* Mutant: the token is drained once the snapshot is published.
PumpPublishesDraining ==
  /\ computed # "none"
  /\ Broadcast(queue, page, Push(queue, [name |-> "sessions", fresh |-> computed = "fresh"]))
  /\ computed' = "none" /\ token' = FALSE
  /\ UNCHANGED <<operationVars, hubOpen, servingVars>>

\* ... and publishes it, whatever moved in between.
PumpPublishes ==
  /\ computed # "none"
  /\ Broadcast(queue, page, Push(queue, [name |-> "sessions", fresh |-> computed = "fresh"]))
  /\ computed' = "none"
  /\ UNCHANGED <<operationVars, hubOpen, token, servingVars>>

\* Handler.Close: the hub closes; a queue ends once it is drained.
CloseHub ==
  /\ hubOpen
  /\ hubOpen' = FALSE
  /\ UNCHANGED <<operationVars, queue, token, computed, servingVars, stream, page>>

------------------------------------------------------------------------------
(* Serving observations *)

\* publishServing takes the mutex for what follows ...
BeginServing ==
  /\ recording = "none" /\ durable < MaxServings
  /\ recording' = "writing"
  /\ UNCHANGED <<operationVars, hubVars, durable, cursor, stream, page>>

\* ... makes the observation durable ...
RecordServing ==
  /\ recording = "writing"
  /\ recording' = "written"
  /\ durable' = durable + 1
  /\ UNCHANGED <<operationVars, hubVars, cursor, stream, page>>

\* ... or fails to and only counts the failure ...
ServingFails ==
  /\ recording = "writing"
  /\ recording' = "none"
  /\ UNCHANGED <<operationVars, hubVars, durable, cursor, stream, page>>

\* ... and gives it the next cursor.
PublishServing ==
  /\ recording = "written"
  /\ recording' = "none"
  /\ cursor' = cursor + 1
  /\ Broadcast(queue, page, Push(queue, [name |-> "serving", cursor |-> cursor']))
  /\ UNCHANGED <<operationVars, hubOpen, token, computed, durable>>

------------------------------------------------------------------------------
(* One stream *)

\* The page connects (again), and the stream subscribes before it looks.
Subscribe ==
  /\ stream.at = "away" /\ hubOpen
  /\ stream.connections < MaxConnections
  /\ stream' = [stream EXCEPT !.at = "sessions", !.whole = TRUE, !.cursor = 0,
                              !.connections = @ + 1]
  /\ UNCHANGED <<operationVars, hubVars, servingVars, page>>

\* The request ends, or the hub closed the queue and it is drained.
Unsubscribe ==
  /\ stream.at # "away"
  /\ ~hubOpen => stream.at # "relay" \/ queue = <<>>
  /\ stream' = [stream EXCEPT !.at = "away"]
  /\ queue' = <<>>
  /\ UNCHANGED <<operationVars, hubOpen, token, computed, servingVars, page>>

\* snapshots(): the sessions, the activity, the operations, in this order.
SendSessions ==
  /\ stream.at = "sessions"
  /\ page' = [page EXCEPT !.fresh = TRUE]
  /\ stream' = [stream EXCEPT !.at = "cursor"]
  /\ UNCHANGED <<operationVars, hubVars, servingVars>>

\* runtimeActivitySnapshot: first the serving cursor, under its lock ...
ReadCursor ==
  /\ stream.at = "cursor" /\ recording = "none"
  /\ stream' = [stream EXCEPT !.at = "activity", !.read = cursor]
  /\ UNCHANGED <<operationVars, hubVars, servingVars, page>>

\* The newest observations in the store, newest first, as many as the limit.
Newest == [i \in 1 .. Min({Limit, durable}) |-> durable + 1 - i]

\* ... then the store.
SendActivity ==
  /\ stream.at = "activity"
  /\ page' = [page EXCEPT !.activity = Newest, !.upto = stream.read]
  /\ stream' = [stream EXCEPT !.at = IF stream.whole THEN "list" ELSE "relay",
                              !.cursor = stream.read]
  /\ UNCHANGED <<operationVars, hubVars, servingVars>>

\* operation.snapshot: what the manager retains replaces what the page shows.
SendOperations ==
  /\ stream.at = "list"
  /\ page' = [page EXCEPT
       !.shown = [id \in Ids |-> IF id \in retained THEN notified[id] ELSE Unknown]]
  /\ stream' = [stream EXCEPT !.at = "relay"]
  /\ UNCHANGED <<operationVars, hubVars, servingVars>>

\* The next event of the queue.
Relay ==
  /\ stream.at = "relay" /\ queue # <<>>
  /\ queue' = Tail(queue)
  /\ stream' = Taken(page, Head(queue)).stream
  /\ page' = Taken(page, Head(queue)).page
  /\ UNCHANGED <<operationVars, hubOpen, token, computed, servingVars>>

------------------------------------------------------------------------------
StreamsInit ==
  /\ LifecycleInit
  /\ hubOpen = TRUE /\ queue = <<>> /\ token = FALSE /\ computed = "none"
  /\ durable = 0 /\ cursor = 0 /\ recording = "none"
  /\ stream = [at |-> "away", whole |-> TRUE, cursor |-> 0, read |-> 0,
               connections |-> 0]
  /\ page = [shown |-> [id \in Ids |-> Unknown], fresh |-> FALSE,
             activity |-> <<>>, upto |-> 0]

StreamStep == SendSessions \/ ReadCursor \/ SendActivity \/ SendOperations \/ Relay

StreamsNext ==
  \/ OperationStep
  \/ PumpTakes \/ PumpPublishes \/ CloseHub
  \/ BeginServing \/ RecordServing \/ ServingFails \/ PublishServing
  \/ Subscribe \/ Unsubscribe
  \/ StreamStep

\* The stream's goroutine, the pump and a publication under way keep running,
\* and the mutex does not starve who waits for it.
StreamsFairness ==
  /\ WF_vars(StreamStep) /\ SF_vars(ReadCursor)
  /\ WF_vars(PumpTakes \/ PumpPublishes)
  /\ WF_vars(RecordServing \/ ServingFails) /\ WF_vars(PublishServing)

StreamsSpec == StreamsInit /\ [][StreamsNext]_vars /\ StreamsFairness

------------------------------------------------------------------------------
(* Properties *)

\* Every variable keeps its shape, and the queue its bound.
StreamsTypeOK ==
  /\ DOMAIN notified = Ids /\ retained \subseteq Ids
  /\ hubOpen \in BOOLEAN /\ token \in BOOLEAN
  /\ recording \in {"none", "writing", "written"}
  /\ Len(queue) <= Limit
  /\ computed \in {"none", "fresh", "aged"}
  /\ durable \in 0 .. MaxServings /\ cursor = IF recording = "written" THEN durable - 1 ELSE durable
  /\ stream.at \in {"away", "sessions", "cursor", "activity", "list", "relay"}
  /\ stream.connections \in 0 .. MaxConnections
  /\ Range(page.activity) \subseteq 1 .. durable /\ Len(page.activity) <= Limit

\* Nothing is left to send.
Quiet == hubOpen /\ stream.at = "relay" /\ queue = <<>>

\* Something the page has missed is still being made up for.
Behind == stream.at # "relay" \/ \E i \in 1 .. Len(queue) : queue[i].name = "resync"

\* A page that is not behind lists no serving observation twice, and of those
\* at or before its cursor it lacks one only if its list is full of newer ones
\* (runtime_activity.go, runtimeActivitySnapshot).  While its queue is cleared
\* it may take a later one first.
ServingsComplete ==
  LET listed == Range(page.activity)
  IN  /\ IsInjective(page.activity)
      /\ ~Behind => \A n \in 1 .. page.upto :
           n \in listed \/ (Len(page.activity) = Limit /\ \A m \in listed : n < m)

\* A page nothing more is on its way to shows every retained operation as it
\* is, and no operation as active that is not, however many transitions were
\* cleared from its queue (event_hub.go: "a slow reader never loses a
\* transition"); of the serving observations it misses none it passed.
QuietPageIsCurrent ==
  /\ StreamsTypeOK
  /\ Quiet => \A id \in Ids :
       /\ id \in retained => page.shown[id] = notified[id]
       /\ page.shown[id].state \in Active => id \in retained
  /\ ServingsComplete

\* A finished operation stays finished on the page until a snapshot leaves it
\* out (workflow.js: "a finished operation stays finished").
FinishedStaysFinished ==
  [][\A id \in Ids : Finished(page.shown[id])
       => Finished(page'.shown[id]) \/ page'.shown[id] = Unknown]_vars

\* A page that stays connected comes to show the last of the operations, the
\* sessions and the serving observations, and keeps showing them.
PageCatchesUp ==
  <>[](Subscribed =>
         /\ \A id \in retained : page.shown[id] = notified[id]
         /\ page.fresh
         /\ page.activity = Newest)
=============================================================================
