-------------------------------- MODULE Webrtc --------------------------------
(***************************************************************************)
(* The webrtc quiddity (plugins/webrtc/webrtc.cpp), driven by three kinds  *)
(* of threads: the user's, which sets the property "started"; that of the  *)
(* main loop each start makes anew, which runs the websocket's callbacks;  *)
(* and those of GStreamer, which run the continuations of promises.        *)
(*                                                                         *)
(* stop holds pipeline_mutex_ from its first look at the connection on and *)
(* connection_mutex_ as well while it polls; other threads hold them within *)
(* one step.  The handlers that add and remove peers take neither: each is *)
(* one step here.  The signalling server is the environment.               *)
(***************************************************************************)
EXTENDS Integers, FiniteSets

CONSTANTS
  Peers,      \* the other clients of the room
  MaxStarts   \* bound: main loops made

ASSUME WebrtcAssumption == MaxStarts \in Nat \ {0}

VARIABLES
  started,    \* Startable's flag
  stopping,   \* stopping_
  user,       \* the user's thread: idle, starting (waits), stopping, polling
  loop,       \* what the loop's thread is doing: a handler's message, or Idle
  gen,        \* how many loops were made; loop_ is the last one
  sources,    \* idle sources attached to loop_ and not dispatched
  connecting, \* the answer to the connection request is awaited
  conn,       \* connection_ and the state of its socket
  conn_gen,   \* the loop whose context the connection lives on
  failed,     \* loops whose start returned false
  phase,      \* server: what it was told, hello then room, and its answer
  room,       \* server: the peers it told us are in the room
  paths,      \* which of audio_shmpath_ and video_shmpath_ are set
  tees,       \* the tees in pipeline_
  bins,       \* peers whose webrtcbin and queues are in pipeline_
  peers,      \* peers_
  promises,   \* continuations that GStreamer will run: <<peer, which>>
  offered,    \* peers an offer was sent to since they were last called
  unanswered  \* peers whose webrtcbin made no offer since they were last called

vars == <<started, stopping, user, loop, gen, sources, connecting, conn,
          conn_gen, failed, phase, room, paths, tees, bins, peers, promises,
          offered, unanswered>>
userVars == <<started, user, failed>>
connVars == <<connecting, conn, conn_gen, phase, room>>
callVars == <<promises, offered, unanswered>>
mediaVars == <<tees, bins, peers, callVars>>

Media == {"audio", "video"}
Idle == [type |-> "idle"]
Messages ==
  [type : {"HELLO"}] \cup [type : {"ROOM_OK", "calls"}, peers : SUBSET Peers]
  \cup [type : {"JOINED", "LEFT", "OFFER", "WEB_OFFER", "ANSWER"}, peer : Peers]
\* server_connected with its connection, connection_closed before and after
\* it has reset the connection
Handlers == {[type |-> "connected"], [type |-> "closed"], [type |-> "reset"]}
Continuations ==
  {"offer_created", "local_offer_set", "remote_set", "answer_created", "local_answer_set"}

\* The variables keep their types: no handler loses track of a peer, of a
\* socket state or of a source, in any order of callbacks.
TypeOK ==
  /\ started \in BOOLEAN /\ stopping \in BOOLEAN /\ connecting \in BOOLEAN
  /\ user \in {"idle", "starting", "stopping", "polling"}
  /\ loop \in {Idle} \cup Handlers \cup Messages
  /\ gen \in 0 .. MaxStarts /\ conn_gen \in 0 .. gen /\ failed \subseteq 1 .. gen
  /\ sources \subseteq {"start", "stop"}
  /\ conn \in {"none", "open", "closing", "closed"}
  /\ phase \in {"new", "hello", "room", "joined"} /\ room \subseteq Peers
  /\ paths \subseteq Media /\ tees \subseteq Media
  /\ bins \subseteq Peers /\ peers \subseteq Peers
  /\ offered \subseteq Peers /\ unanswered \subseteq Peers
  /\ promises \subseteq Peers \X Continuations

Init ==
  /\ started = FALSE /\ stopping = FALSE /\ user = "idle" /\ loop = Idle
  /\ gen = 0 /\ sources = {} /\ failed = {}
  /\ connecting = FALSE /\ conn = "none" /\ conn_gen = 0
  /\ phase = "new" /\ room = {} /\ paths = {}
  /\ tees = {} /\ bins = {} /\ peers = {} /\ promises = {} /\ offered = {}
  /\ unanswered = {}

\* pipeline_mutex_ can be locked
PipelineFree == user \notin {"stopping", "polling"}
\* (mutant) the loop's handlers do not lock connection_mutex_
NoMutex == TRUE
ConnectionFree == user # "polling"
\* the callbacks of the connection run: its context is that of loop_
Served == conn # "none" /\ conn_gen = gen

-----------------------------------------------------------------------------
(* The user's thread.                                                      *)

\* on_shmdata_connect and on_shmdata_disconnect, at any time
SetPath(m, set) ==
  /\ user = "idle" /\ (m \in paths) # set
  /\ paths' = IF set THEN paths \cup {m} ELSE paths \ {m}
  /\ UNCHANGED <<userVars, stopping, loop, gen, sources, connVars, mediaVars>>

\* (mutant) start does not look at stopping_
CanAlwaysStart == TRUE
CanStart == ~stopping

\* start up to its wait: the former loop is joined, so its thread has ended
\* its callback; what was attached to that loop is never dispatched.
start ==
  /\ user = "idle" /\ ~started /\ CanStart
  /\ gen < MaxStarts /\ loop = Idle
  /\ gen' = gen + 1 /\ sources' = {"start"} /\ connecting' = FALSE
  /\ user' = "starting"
  /\ UNCHANGED <<started, failed, stopping, loop, conn, conn_gen, phase, room, paths, mediaVars>>

\* The wait ends with a connection, which may be closing already, or after
\* three seconds.  The idle source is dispatched long before that: only the
\* server's answer may be late.
StartReturns ==
  /\ user = "starting" /\ user' = "idle"
  /\ conn # "none" \/ "start" \notin sources
  /\ started' = (conn = "open")
  /\ failed' = IF conn = "open" THEN failed ELSE failed \cup {gen}
  /\ UNCHANGED <<stopping, loop, gen, sources, connVars, paths, mediaVars>>

\* stop up to the lock of connection_mutex_, with a connection: a new, empty
\* pipeline, and a source for the loop
stop ==
  /\ user = "idle" /\ started /\ ~stopping /\ conn # "none"
  /\ stopping' = TRUE /\ user' = "stopping"
  /\ sources' = sources \cup {"stop"}
  /\ tees' = {} /\ bins' = {}
  /\ UNCHANGED <<started, failed, loop, gen, connVars, paths, peers, callVars>>

\* stop when a former one goes on, or without a connection: it succeeds
StopAtOnce ==
  /\ user = "idle" /\ started /\ (stopping \/ conn = "none")
  /\ stopping' = TRUE /\ started' = FALSE
  /\ UNCHANGED <<user, failed, loop, gen, sources, connVars, paths, mediaVars>>

\* stop locks connection_mutex_.  The connection may have been reset since it
\* was looked at: its state is then not read, and stop fails.
StopLocks ==
  /\ user = "stopping"
  /\ user' = IF conn = "none" THEN "idle" ELSE "polling"
  /\ UNCHANGED <<started, failed, stopping, loop, gen, sources, connVars, paths, mediaVars>>

\* the poll sees the closed socket, or gives up and stop fails
StopReturns ==
  /\ user = "polling" /\ user' = "idle"
  /\ started' = (conn # "closed")
  /\ UNCHANGED <<failed, stopping, loop, gen, sources, connVars, paths, mediaVars>>

-----------------------------------------------------------------------------
(* Peers in the pipeline.                                                  *)

\* remove_peer_from_pipeline finds both tees and the webrtcbin, or fails
Removable(p) == p \in peers /\ tees = Media /\ p \in bins

\* It removes the webrtcbin, then the queues, then the registration; when a
\* queue or a pad is not found the peer stays registered, and as no webrtcbin
\* will be found under its name, for as long as it has that registration.
RemovePeer(p) ==
  \/ ~Removable(p) /\ UNCHANGED <<bins, peers>>
  \/ /\ Removable(p)
     /\ bins' = bins \ {p} /\ peers' \in {peers, peers \ {p}}

\* What add_peer_to_pipeline makes of a peer that is not registered: it is
\* added, or left in the pipeline unregistered when its pads do not link, or
\* removed again, perhaps half way, when a state cannot be set.
AddNewPeer(p, others, registered) ==
  \/ bins' = others \cup {p} /\ peers' \in {registered, registered \cup {p}}
  \/ bins' = others /\ peers' \in {registered, registered \cup {p}}

\* add_peer_to_pipeline: the scope guard removes a peer that was registered
AddPeer(p) ==
  \/ p \in peers /\ RemovePeer(p)
  \/ /\ p \notin peers /\ (tees # Media \/ p \in bins)
     /\ UNCHANGED <<bins, peers>>
  \/ /\ p \notin peers /\ tees = Media /\ p \notin bins
     /\ AddNewPeer(p, bins, peers)

\* an offer is created if the pipeline now has the webrtcbin
AskForOffer(p) ==
  /\ promises' = IF p \in bins' THEN promises \cup {<<p, "offer_created">>} ELSE promises
  /\ offered' = offered \ {p} /\ unanswered' = unanswered \ {p}

\* call_peer, which does not look at whether the peer was added
call_peer(p) ==
  /\ AddPeer(p)
  /\ AskForOffer(p)

-----------------------------------------------------------------------------
(* The loop's thread.                                                      *)

\* async_connect_to_wss
StartSource ==
  /\ loop = Idle /\ "start" \in sources
  /\ sources' = sources \ {"start"} /\ connecting' = TRUE
  /\ UNCHANGED <<userVars, stopping, loop, gen, conn, conn_gen, phase, room, paths, mediaVars>>

\* server_connected: a connection left by a former loop is kept, and the
\* answer is not even read.
ServerConnected(ok) ==
  /\ loop = Idle /\ connecting /\ ConnectionFree
  /\ connecting' = FALSE
  /\ IF conn = "none" /\ ok
       THEN /\ conn' = "open" /\ conn_gen' = gen /\ room' = {}
            /\ loop' = [type |-> "connected"]
       ELSE UNCHANGED <<conn, conn_gen, room, loop>>
  /\ UNCHANGED <<userVars, stopping, gen, sources, phase, paths, mediaVars>>

\* it locks again to subscribe; send_text drops the HELLO while stopping
Subscribed ==
  /\ loop.type = "connected" /\ ConnectionFree /\ loop' = Idle
  /\ phase' = IF stopping THEN phase ELSE "hello"
  /\ UNCHANGED <<userVars, stopping, gen, sources, connecting, conn, conn_gen, room,
                 paths, mediaVars>>

\* (mutant) the stop source does not close the socket
StaysOpen == conn
AfterClose == IF conn = "open" THEN "closing" ELSE conn

\* (mutant) the stop source keeps the pipeline
PipelineKept(elements) == elements
NewPipeline(elements) == {}

\* async_disconnect_from_wss.  stop has already replaced the pipeline, so that
\* peers are found, and removed, only if a handler has made another since.
\* peers_ loses elements while it is walked through, which is undefined.
StopSource ==
  /\ loop = Idle /\ "stop" \in sources /\ "start" \notin sources /\ PipelineFree
  /\ sources' = sources \ {"stop"}
  /\ \/ conn = "none" /\ UNCHANGED <<conn, tees, bins, peers>>
     \/ /\ conn # "none" /\ conn' = AfterClose
        /\ tees' = NewPipeline(tees) /\ bins' = NewPipeline(bins)
        /\ \E gone \in SUBSET {p \in peers : Removable(p)} : peers' = peers \ gone
  /\ UNCHANGED <<userVars, stopping, loop, gen, connecting, conn_gen, phase, room,
                 paths, callVars>>

\* The server closes the connection, or it breaks.
ServerCloses ==
  /\ loop = Idle /\ Served /\ conn = "open" /\ conn' = "closing"
  /\ UNCHANGED <<userVars, stopping, loop, gen, sources, connecting, conn_gen, phase,
                 room, paths, mediaVars>>

\* The closing handshake or its time-out ends; libsoup then emits "closed".
SocketClosed ==
  /\ loop = Idle /\ Served /\ conn = "closing"
  /\ conn' = "closed" /\ loop' = [type |-> "closed"]
  /\ UNCHANGED <<userVars, stopping, gen, sources, connecting, conn_gen, phase,
                 room, paths, mediaVars>>

\* connection_closed resets the connection with connection_mutex_, and
\* stopping_ without it.
connection_closed ==
  /\ loop.type = "closed" /\ ConnectionFree
  /\ conn' = "none" /\ loop' = [type |-> "reset"]
  /\ phase' = "new" /\ room' = {}
  /\ UNCHANGED <<userVars, stopping, gen, sources, connecting, conn_gen, paths, mediaVars>>

StoppingReset ==
  /\ loop.type = "reset" /\ stopping' = FALSE /\ loop' = Idle
  /\ UNCHANGED <<userVars, gen, sources, connVars, paths, mediaVars>>

\* A message the server may send now, and the room it then has.
FromServer(m, r) ==
  \/ m.type = "HELLO" /\ phase = "hello" /\ r = room
  \/ m.type = "ROOM_OK" /\ phase = "room" /\ r = m.peers
  \/ /\ phase = "joined"
     /\ \/ m.type = "JOINED" /\ m.peer \notin room /\ r = room \cup {m.peer}
        \/ m.type = "LEFT" /\ m.peer \in room /\ r = room \ {m.peer}
        \/ /\ m.type \in {"OFFER", "WEB_OFFER", "ANSWER"}
           /\ m.peer \in room /\ r = room

\* wss_message up to the dispatch: nothing is handled while stopping, and
\* messages of peers that are not registered are ignored.
wss_message(m) ==
  /\ loop = Idle /\ Served /\ conn = "open"
  /\ \E r \in SUBSET Peers : FromServer(m, r) /\ room' = r
  /\ phase' = CASE m.type = "HELLO" -> "new" [] m.type = "ROOM_OK" -> "joined"
                [] OTHER -> phase
  /\ loop' = IF \/ stopping
                \/ m.type \in {"LEFT", "OFFER", "WEB_OFFER", "ANSWER"} /\ m.peer \notin peers
               THEN Idle ELSE m
  /\ UNCHANGED <<userVars, stopping, gen, sources, connecting, conn, conn_gen,
                 paths, mediaVars>>

handlerVars == <<userVars, stopping, gen, sources, connecting, conn, conn_gen, room, paths>>

\* join_room
Registered ==
  /\ loop.type = "HELLO" /\ ConnectionFree /\ loop' = Idle
  /\ phase' = IF stopping THEN phase ELSE "room"
  /\ UNCHANGED <<handlerVars, mediaVars>>

\* start_pipeline, which needs a path and may not parse; it then has the mutex
RoomJoined ==
  /\ loop.type = "ROOM_OK"
  /\ \/ loop' = Idle /\ UNCHANGED mediaVars
     \/ /\ paths # {} /\ PipelineFree
        /\ tees' = paths /\ bins' = {} /\ loop' = [type |-> "calls", peers |-> loop.peers]
        /\ UNCHANGED <<peers, callVars>>
  /\ UNCHANGED <<handlerVars, phase>>

\* the loop over the peers that were in the room
CallNext ==
  /\ loop.type = "calls"
  /\ \/ loop.peers = {} /\ loop' = Idle /\ UNCHANGED mediaVars
     \/ \E p \in loop.peers :
          /\ call_peer(p) /\ loop' = [loop EXCEPT !.peers = @ \ {p}]
          /\ UNCHANGED tees
  /\ UNCHANGED <<handlerVars, phase>>

PeerJoined ==
  /\ loop.type = "JOINED" /\ AddPeer(loop.peer) /\ loop' = Idle
  /\ UNCHANGED <<handlerVars, phase, tees, callVars>>

PeerLeft ==
  /\ loop.type = "LEFT" /\ RemovePeer(loop.peer) /\ loop' = Idle
  /\ UNCHANGED <<handlerVars, phase, tees, callVars>>

\* peer_message: a web client's offer is returned by a call, after the peer
\* was removed; another's is handled; answers end in webrtcbin.
ReturnCall ==
  /\ loop.type = "WEB_OFFER" /\ loop' = Idle
  /\ LET p == loop.peer IN
       \/ ~stopping /\ Removable(p) /\ AddNewPeer(p, bins \ {p}, peers \ {p}) /\ AskForOffer(p)
       \/ ~stopping /\ RemovePeer(p) /\ peers' = peers /\ UNCHANGED callVars
       \/ stopping /\ UNCHANGED <<bins, peers, callVars>>
  /\ UNCHANGED <<handlerVars, phase, tees>>

RemoteSdp ==
  /\ loop.type \in {"OFFER", "ANSWER"} /\ loop' = Idle
  /\ promises' = IF loop.type = "OFFER" /\ loop.peer \in bins
                   THEN promises \cup {<<loop.peer, "remote_set">>} ELSE promises
  /\ UNCHANGED <<handlerVars, phase, tees, bins, peers, offered, unanswered>>

-----------------------------------------------------------------------------
(* GStreamer's threads.                                                    *)

\* A continuation runs; the ones that follow look for the webrtcbin by name.
Continued(p, which, next) ==
  /\ <<p, which>> \in promises
  /\ promises' = (promises \ {<<p, which>>})
                   \cup (IF ~stopping /\ p \in bins THEN {p} \X next ELSE {})
  /\ UNCHANGED <<handlerVars, phase, loop, tees, bins, peers>>

\* (mutant) the local description is not set
NothingSet == {}
OfferIsSet == {"local_offer_set"}

offer_created(p) ==
  \/ Continued(p, "offer_created", OfferIsSet) /\ UNCHANGED <<offered, unanswered>>
  \/ /\ ~stopping /\ Continued(p, "offer_created", {})   \* the promise has no reply
     /\ unanswered' = unanswered \cup {p} /\ UNCHANGED offered
remote_description_set(p) ==
  Continued(p, "remote_set", {"answer_created"}) /\ UNCHANGED <<offered, unanswered>>
answer_created(p) ==
  /\ \/ Continued(p, "answer_created", {"local_answer_set"})
     \/ Continued(p, "answer_created", {})                \* the promise has no reply
  /\ UNCHANGED <<offered, unanswered>>

\* send_sdp goes out if send_text does not drop it
Sent == ~stopping /\ conn = "open"
local_description_set(p, which) ==
  /\ Continued(p, which, {})
  /\ offered' = IF which = "local_offer_set" /\ Sent THEN offered \cup {p} ELSE offered
  /\ UNCHANGED unanswered

-----------------------------------------------------------------------------
UserNext ==
  \/ \E m \in Media, set \in BOOLEAN : SetPath(m, set)
  \/ start \/ StartReturns \/ stop \/ StopAtOnce \/ StopLocks \/ StopReturns
HandlerNext ==
  \/ Subscribed \/ Registered \/ RoomJoined \/ CallNext \/ PeerJoined \/ PeerLeft
  \/ ReturnCall \/ RemoteSdp
  \/ connection_closed \/ StoppingReset
LoopNext ==
  \/ StartSource \/ StopSource \/ HandlerNext
  \/ \E ok \in BOOLEAN : ServerConnected(ok)
  \/ ServerCloses \/ SocketClosed \/ \E m \in Messages : wss_message(m)
Promises(p) ==
  \/ offer_created(p) \/ remote_description_set(p) \/ answer_created(p)
  \/ local_description_set(p, "local_offer_set")
  \/ local_description_set(p, "local_answer_set")
PromiseNext == \E p \in Peers : Promises(p)

Next == UserNext \/ LoopNext \/ PromiseNext

Spec == Init /\ [][Next]_vars

\* Threads go on, a wait with a time-out ends, a closing handshake ends (the
\* library has a time-out for it).  Nothing makes the user or the server act.
Fairness ==
  /\ WF_vars(StartReturns) /\ WF_vars(StopLocks) /\ WF_vars(StopReturns)
  /\ WF_vars(StartSource) /\ WF_vars(StopSource) /\ WF_vars(HandlerNext)
  /\ WF_vars(SocketClosed)
  /\ \A p \in Peers : /\ WF_vars(offer_created(p))
                      /\ WF_vars(local_description_set(p, "local_offer_set"))
FairSpec == Spec /\ Fairness

-----------------------------------------------------------------------------
(* Properties.                                                             *)

\* Between its look at the connection and its lock of connection_mutex_ stop
\* may lose the connection to connection_closed (webrtc.cpp:149, :170); once
\* it polls, the connection is there and stopping_ set until it returns.
PolledConnectionLives == user = "polling" => stopping /\ conn # "none"

\* A connection is cut off from the loop that runs only when the start that
\* asked for it had reported a failure: its answer came after the three
\* seconds, or it was closing already (webrtc.cpp:246, :261, :343).
CutOffOnlyAfterFailure == conn # "none" /\ conn_gen # gen => conn_gen \in failed

\* Once the stop source has closed the connection nothing is transmitted, also
\* if the handler of a message made a pipeline and called peers after stop had
\* replaced the pipeline (webrtc.cpp:158, :220, :758).
StoppedIsSilent ==
  stopping /\ conn \in {"closing", "closed"} /\ "stop" \notin sources
    => tees = {} /\ bins = {}

\* A stop whose connection is served by the running loop ends: stopping_ is
\* reset by connection_closed, whatever handlers, peers and server do.
StopCompletes == ("stop" \in sources /\ Served) ~> ~stopping

\* A peer that is called is sent an offer, unless its webrtcbin makes none,
\* the client stops or loses its connection, or removes the peer meanwhile.
CalledPeerGetsOffer ==
  \A p \in Peers : <<p, "offer_created">> \in promises
    ~> (p \in offered \cup unanswered \/ stopping \/ conn # "open" \/ p \notin bins)
=============================================================================
