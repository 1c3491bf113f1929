------------------------------ MODULE WebStreams ------------------------------
(***************************************************************************)
(* The two endless responses of the web server: the MJPEG preview          *)
(* (web/preview_routes.cpp, utils/preview_frame.h) and the transcript      *)
(* (web/transcript_routes.cpp). The preview's watcher thread and the       *)
(* whisper thread post deliveries to the io thread, which alone touches    *)
(* the clients; main takes the server down (web/web_server.cpp).           *)
(*                                                                         *)
(* A frame is its sequence number, an event the number of its window. A    *)
(* chunk that is being written to a socket is in flight until libsoup says *)
(* that it was written, which a stalled client may put off forever.        *)
(***************************************************************************)
EXTENDS Integers, Sequences, FiniteSets

CONSTANTS
  Viewers, Listeners,        \* who may connect to the preview, to the transcript
  MaxViewers, MaxListeners,  \* kMaxClients of either route
  MaxPending,                \* kMaxPending
  MaxFrames, MaxEvents       \* bounds: frames stored, windows transcribed

ASSUME WebAssumption ==
  /\ {MaxViewers, MaxListeners, MaxPending, MaxFrames} \subseteq Nat \ {0}
  /\ MaxEvents \in Nat
  /\ IsFiniteSet(Viewers) /\ IsFiniteSet(Listeners)

VARIABLES
  latest,             \* PreviewFrameBuffer: the newest sequence number, 0 if none
  watcherPc, lastSeen, stop,    \* the watcher thread, its local, its stop token
  events,             \* windows published by the whisper thread
  queue,              \* deliveries that wait in the GMainContext
  viewers,            \* PreviewRoutes::clients_
  listeners,          \* TranscriptRoutes::clients_
  gate,               \* preview_gate_.active
  ioPc, mainPc,       \* WebServer: Run, and main down to the destructor's end
  shown, heard        \* history: the newest frame and event delivered

preview    == <<latest, watcherPc, lastSeen, stop>>
transcript == <<events, listeners, heard>>
server     == <<ioPc, mainPc>>
vars == <<preview, transcript, queue, viewers, gate, server, shown>>

Nobody == [live |-> FALSE]

\* PreviewRoutes::Client; pending is a frame or 0.
Viewer(last, flying, pending) ==
  [live |-> TRUE, lastSent |-> last, inFlight |-> flying, pending |-> pending]

\* TranscriptRoutes::Client; sent is for the properties: the last event sent,
\* at first the last one before the client came.
Listener(sent, flying, backlog) ==
  [live |-> TRUE, sent |-> sent, inFlight |-> flying, backlog |-> backlog]

Live(clients) == {c \in DOMAIN clients : clients[c].live}

\* The placeholder is the first frame, if it could be encoded.
Init ==
  /\ latest \in {0, 1} /\ watcherPc = "check" /\ lastSeen = 0 /\ stop = FALSE
  /\ events = 0 /\ queue = <<>>
  /\ viewers = [v \in Viewers |-> Nobody] /\ listeners = [l \in Listeners |-> Nobody]
  /\ gate = FALSE /\ ioPc = "starting" /\ mainPc = "run" /\ shown = 0 /\ heard = 0

-----------------------------------------------------------------------------
(* The producers. *)

\* RunPreview; frames that were in the encoder arrive after the gate has closed.
Store ==
  /\ mainPc = "run" /\ latest < MaxFrames /\ latest' = latest + 1
  /\ UNCHANGED <<watcherPc, lastSeen, stop, transcript, queue, viewers, gate, server, shown>>

\* The head of the watcher's loop.
WatcherChecks ==
  /\ watcherPc = "check" /\ watcherPc' = IF stop THEN "off" ELSE "wait"
  /\ UNCHANGED <<latest, lastSeen, stop, transcript, queue, viewers, gate, server, shown>>

\* WaitNewer: a frame that is there counts, even when stop was requested.
Newer_Next == latest = lastSeen + 1
Newer == latest > lastSeen

\* The stop token wakes who waits on the condition variable.
StopWakes_Never == FALSE
StopWakes == stop

WatcherSees ==
  /\ watcherPc = "wait" /\ Newer
  /\ lastSeen' = latest /\ watcherPc' = "post"
  /\ UNCHANGED <<latest, stop, transcript, queue, viewers, gate, server, shown>>

WatcherPosts ==
  /\ watcherPc = "post" /\ watcherPc' = "check"
  /\ queue' = Append(queue, [kind |-> "frame", number |-> lastSeen])
  /\ UNCHANGED <<latest, lastSeen, stop, transcript, viewers, gate, server, shown>>

WatcherEnds ==
  /\ watcherPc = "wait" /\ StopWakes /\ ~Newer
  /\ watcherPc' = "off"
  /\ UNCHANGED <<latest, lastSeen, stop, transcript, queue, viewers, gate, server, shown>>

\* The whisper thread calls back; Stream::Stop has joined it before the server goes.
Publish ==
  /\ mainPc = "run" /\ events < MaxEvents /\ events' = events + 1
  /\ queue' = Append(queue, [kind |-> "event", number |-> events'])
  /\ UNCHANGED <<preview, listeners, heard, viewers, gate, server, shown>>

-----------------------------------------------------------------------------
(* Deliveries, on the io thread. *)

Serving == ioPc \in {"running", "draining"}

Send(client, frame) == Viewer(frame, TRUE, 0)

\* What a viewer makes of a frame: at most one is in flight and one waits.
OfferFrame_AnyOrder(client, frame) ==
  IF client.inFlight THEN [client EXCEPT !.pending = frame] ELSE Send(client, frame)
OfferFrame(client, frame) ==
  IF frame <= client.lastSent THEN client
  ELSE IF client.inFlight THEN [client EXCEPT !.pending = frame] ELSE Send(client, frame)

\* A stuck listener loses its oldest event.
Offered(client, event, kept) ==
  IF client.inFlight THEN Listener(client.sent, TRUE, Append(kept, event))
                     ELSE Listener(event, TRUE, client.backlog)
IsFull(client) == Len(client.backlog) >= MaxPending
OfferEvent_NoLimit(client, event) == Offered(client, event, client.backlog)
OfferEvent_DropsNewest(client, event) ==
  Offered(client, event,
          IF IsFull(client) THEN SubSeq(client.backlog, 1, MaxPending - 1) ELSE client.backlog)
OfferEvent(client, event) ==
  Offered(client, event, IF IsFull(client) THEN Tail(client.backlog) ELSE client.backlog)

DeliverFrame ==
  /\ Serving /\ queue # <<>> /\ Head(queue).kind = "frame"
  /\ queue' = Tail(queue) /\ shown' = Head(queue).number
  /\ viewers' = [v \in Viewers |->
                   IF viewers[v].live THEN OfferFrame(viewers[v], Head(queue).number)
                                      ELSE Nobody]
  /\ UNCHANGED <<preview, transcript, gate, server>>

DeliverEvent ==
  /\ Serving /\ queue # <<>> /\ Head(queue).kind = "event"
  /\ queue' = Tail(queue) /\ heard' = Head(queue).number
  /\ listeners' = [l \in Listeners |->
                     IF listeners[l].live THEN OfferEvent(listeners[l], Head(queue).number)
                                          ELSE Nobody]
  /\ UNCHANGED <<preview, events, viewers, gate, server, shown>>

-----------------------------------------------------------------------------
(* Requests and sockets, on the io thread. *)

\* The newest frame is sent at once; the first viewer starts the encoder.
HandleMjpeg(v) ==
  /\ Serving /\ ~viewers[v].live /\ Cardinality(Live(viewers)) < MaxViewers
  /\ viewers' = [viewers EXCEPT ![v] = Viewer(latest, latest # 0, 0)]
  /\ gate' = IF Cardinality(Live(viewers')) = 1 THEN TRUE ELSE gate
  /\ UNCHANGED <<preview, transcript, queue, server, shown>>

\* A comment line opens the stream.
HandleTranscript(l) ==
  /\ Serving /\ ~listeners[l].live /\ Cardinality(Live(listeners)) < MaxListeners
  /\ listeners' = [listeners EXCEPT ![l] = Listener(heard, TRUE, <<>>)]
  /\ UNCHANGED <<preview, events, heard, queue, viewers, gate, server, shown>>

\* OnWroteChunk of either route.
ViewerWrote(v) ==
  /\ Serving /\ viewers[v].live /\ viewers[v].inFlight
  /\ viewers' = [viewers EXCEPT ![v] =
                   IF @.pending = 0 THEN [@ EXCEPT !.inFlight = FALSE]
                                    ELSE Send(@, @.pending)]
  /\ UNCHANGED <<preview, transcript, queue, gate, server, shown>>

ListenerWrote(l) ==
  /\ Serving /\ listeners[l].live /\ listeners[l].inFlight
  /\ listeners' = [listeners EXCEPT ![l] =
                     IF @.backlog = <<>> THEN [@ EXCEPT !.inFlight = FALSE]
                     ELSE Listener(Head(@.backlog), TRUE, Tail(@.backlog))]
  /\ UNCHANGED <<preview, events, heard, queue, viewers, gate, server, shown>>

\* OnFinished: the last viewer stops the encoder.
GateAfter_AnyLeaves(left) == FALSE
GateAfter(left) == IF left = {} THEN FALSE ELSE gate

ViewerFinished(v) ==
  /\ Serving /\ viewers[v].live
  /\ viewers' = [viewers EXCEPT ![v] = Nobody]
  /\ gate' = GateAfter(Live(viewers'))
  /\ UNCHANGED <<preview, transcript, queue, server, shown>>

ListenerFinished(l) ==
  /\ Serving /\ listeners[l].live
  /\ listeners' = [listeners EXCEPT ![l] = Nobody]
  /\ UNCHANGED <<preview, events, heard, queue, viewers, gate, server, shown>>

-----------------------------------------------------------------------------
(* The server comes up, and goes after the stream has stopped. *)

\* Run enters its loop, some time after it reported that it listens.
LoopStarts ==
  /\ ioPc = "starting" /\ ioPc' = "running"
  /\ UNCHANGED <<preview, transcript, queue, viewers, gate, mainPc, shown>>

\* ~WebServer, PreviewRoutes::Stop.
RequestStop ==
  /\ mainPc = "run" /\ mainPc' = "watcher" /\ stop' = TRUE
  /\ UNCHANGED <<latest, watcherPc, lastSeen, transcript, queue, viewers, gate, ioPc, shown>>

\* The watcher is joined first. g_main_loop_quit has no effect on a loop that does
\* not run yet.
QuitLoop ==
  /\ mainPc = "watcher" /\ watcherPc = "off" /\ mainPc' = "join"
  /\ ioPc' = IF ioPc = "running" THEN "draining" ELSE ioPc
  /\ UNCHANGED <<preview, transcript, queue, viewers, gate, shown>>

\* What is queued has been run: soup_server_disconnect finishes every message.
Disconnect ==
  /\ ioPc = "draining" /\ queue = <<>> /\ ioPc' = "off"
  /\ viewers' = [v \in Viewers |-> Nobody] /\ listeners' = [l \in Listeners |-> Nobody]
  /\ gate' = IF Live(viewers) = {} THEN gate ELSE GateAfter({})
  /\ UNCHANGED <<preview, events, heard, queue, mainPc, shown>>

ServerGone ==
  /\ mainPc = "join" /\ ioPc = "off" /\ mainPc' = "done"
  /\ UNCHANGED <<preview, transcript, queue, viewers, gate, ioPc, shown>>

Watcher == WatcherChecks \/ WatcherSees \/ WatcherPosts \/ WatcherEnds
Deliver == DeliverFrame \/ DeliverEvent
Clients ==
  \/ \E v \in Viewers : HandleMjpeg(v) \/ ViewerWrote(v) \/ ViewerFinished(v)
  \/ \E l \in Listeners : HandleTranscript(l) \/ ListenerWrote(l) \/ ListenerFinished(l)
Shutdown == RequestStop \/ QuitLoop \/ Disconnect \/ ServerGone

Next == Store \/ Publish \/ Watcher \/ Deliver \/ Clients \/ LoopStarts \/ Shutdown

Spec == Init /\ [][Next]_vars

\* Threads run; nobody has to store a frame, to connect, to read or to leave.
FairSpec ==
  /\ Spec /\ WF_vars(Watcher) /\ WF_vars(Deliver) /\ WF_vars(LoopStarts)
  /\ WF_vars(QuitLoop) /\ WF_vars(Disconnect) /\ WF_vars(ServerGone)

-----------------------------------------------------------------------------
(* Properties. *)

Frames == 0 .. MaxFrames
Events == 0 .. MaxEvents

ViewerTypes ==
  [live : {TRUE}, lastSent : Frames, inFlight : BOOLEAN, pending : Frames]
ListenerTypes ==
  [live : {TRUE}, sent : Events, inFlight : BOOLEAN, backlog : Seq(Events)]

Deliveries ==
  [kind : {"frame"}, number : Frames] \union [kind : {"event"}, number : Events]

NumberTypes ==
  /\ {latest, lastSeen, shown} \subseteq Frames /\ {events, heard} \subseteq Events
  /\ queue \in Seq(Deliveries)

ControlTypes ==
  /\ watcherPc \in {"check", "wait", "post", "off"} /\ {stop, gate} \subseteq BOOLEAN
  /\ ioPc \in {"starting", "running", "draining", "off"}
  /\ mainPc \in {"run", "watcher", "join", "done"}

ClientTypes ==
  /\ viewers \in [Viewers -> {Nobody} \union ViewerTypes]
  /\ listeners \in [Listeners -> {Nobody} \union ListenerTypes]

Bounds ==
  /\ Cardinality(Live(viewers)) <= MaxViewers
  /\ Cardinality(Live(listeners)) <= MaxListeners
  /\ \A l \in Live(listeners) : Len(listeners[l].backlog) <= MaxPending

\* Every variable keeps its type, and every client list and backlog its bound
\* (kMaxClients, kMaxPending).
TypeOK == NumberTypes /\ ControlTypes /\ ClientTypes /\ Bounds

\* Every viewer has been sent the newest frame delivered, or is still busy
\* with an older one and gets the newest next; never one that is older than what
\* it already has, although a delivery may have been queued before the viewer came
\* and got its first frame from the buffer (HandleMjpeg, Deliver, OnWroteChunk).
NewestIsNext ==
  \A v \in Live(viewers) :
    LET client == viewers[v]
    IN  IF client.pending = 0 THEN shown <= client.lastSent
        ELSE client.inFlight /\ client.lastSent < client.pending /\ shown = client.pending

\* A listener's backlog is the latest events without a gap.
BacklogInOrder ==
  \A l \in Live(listeners) :
    LET client == listeners[l]
        size   == Len(client.backlog)
    IN  /\ \A i \in 1 .. size : client.backlog[i] = heard - size + i
        /\ client.sent <= heard - size
        /\ ~client.inFlight => client.sent = heard

\* What lies between the event a listener got last and its backlog is lost to it.
Lost(l) == heard - Len(listeners[l].backlog) - listeners[l].sent

\* What a listener waits for is, after every step, the latest events, in order, next
\* to what it was sent and never twice, and none is lost to it before its backlog is
\* full (transcript_routes.h: a log with holes is useless).
BacklogIsSound ==
  [][/\ BacklogInOrder'
     /\ \A l \in Listeners :
          listeners[l].live /\ listeners'[l].live /\ Lost(l)' > Lost(l)
            => Len(listeners[l].backlog) = MaxPending]_vars

\* The encoder runs exactly while somebody watches, also after refusals,
\* disconnects and the end of the server.
EncoderOnDemand == gate <=> Live(viewers) # {}

\* While the server runs every viewer catches up: whenever no frame is stored for
\* a while, the newest one has been sent to it, or waits for its socket alone.
FramesArrive ==
  \A v \in Viewers :
    []<>(mainPc = "run" /\ ioPc = "running" /\ viewers[v].live
           => latest = 0 \/ latest \in {viewers[v].lastSent, viewers[v].pending})

\* A server whose loop runs when it is told to stop is gone some time later,
\* whatever its clients do, with a frame on its way or none, and leaves no delivery
\* and no client on a context without a thread (~Implementation). A quit that comes
\* before the loop runs is lost, and main then waits for ever.
StopCompletes ==
  (mainPc = "watcher" /\ ioPc = "running") ~>
    (/\ mainPc = "done" /\ queue = <<>> /\ watcherPc = "off"
     /\ Live(viewers) = {} /\ Live(listeners) = {})

=============================================================================
