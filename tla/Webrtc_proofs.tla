---------------------------- MODULE Webrtc_proofs ----------------------------
(***************************************************************************)
(* The safety properties of Webrtc, proved for every set of peers and      *)
(* every number of starts.                                                 *)
(***************************************************************************)
EXTENDS Webrtc, TLAPS

-----------------------------------------------------------------------------
(* The inductive invariant, one conjunct per idea.                         *)

\* A start asks its loop for a connection once: the request waits, or the
\* answer is awaited, or the loop may have its connection.
AskedOnce ==
  /\ ~("start" \in sources /\ connecting)
  /\ Served => "start" \notin sources /\ ~connecting

\* A handler runs while the loop serves the connection it is about: of an open
\* socket, of the closed one that is to be reset, or when it was reset.
HandlersServed ==
  /\ conn = "closed" <=> loop.type = "closed"
  /\ loop.type = "reset" => conn = "none"
  /\ loop.type = "connected" \/ loop \in Messages => conn = "open"
  /\ conn = "closed" => conn_gen = gen

\* A stop that is queued or that has not locked yet is still going on, unless
\* the connection has been closed first.
StopGoesOn ==
  /\ "stop" \in sources => stopping \/ (conn = "none" /\ "start" \notin sources /\ ~connecting)
  /\ user = "stopping" => stopping \/ conn = "none"

\* Without a connection a client that is started or stopping asks for none.
NoneAskedFor ==
  /\ conn = "none" /\ (stopping \/ started) => "start" \notin sources /\ ~connecting
  /\ user \in {"stopping", "polling"} => started
  /\ user = "starting" => ~started /\ ~stopping

\* A start that has returned while its request was open has failed, or had
\* found the connection of a former loop.
FailureIsKnown ==
  user # "starting" /\ ("start" \in sources \/ connecting) =>
    gen \in failed \/ (conn # "none" /\ conn_gen # gen)

\* A connection of the loop that runs, which no start reported and no stop
\* ends, is one whose start failed.
ConnectionIsStarted ==
  user = "idle" /\ ~started /\ ~stopping /\ conn # "none" /\ conn_gen = gen
    => gen \in failed

\* Once the stop source has run, the connection is not open, and the pipeline
\* is empty.
StopSourceDone ==
  stopping /\ conn # "none" /\ "stop" \notin sources
    => conn # "open" /\ tees = {} /\ bins = {}

\* A start that waits has made its loop.
LoopIsMade == user = "starting" => gen > 0

\* Everything but the types.
Control ==
  /\ AskedOnce /\ HandlersServed /\ StopGoesOn /\ NoneAskedFor /\ FailureIsKnown
  /\ ConnectionIsStarted /\ StopSourceDone /\ LoopIsMade
  /\ PolledConnectionLives /\ CutOffOnlyAfterFailure

IInv == TypeOK /\ Control

USE WebrtcAssumption DEF TypeOK, Idle, Handlers, userVars, connVars, callVars, mediaVars,
      handlerVars, Served, PipelineFree, ConnectionFree

-----------------------------------------------------------------------------
(* Type correctness.                                                       *)

\* Removing and adding a peer keeps the types of both sets.
LEMMA PeerTypes ==
  ASSUME TypeOK, NEW p \in Peers, AddPeer(p) \/ RemovePeer(p)
  PROVE  bins' \subseteq Peers /\ peers' \subseteq Peers
BY DEF AddPeer, RemovePeer, AddNewPeer

\* Asking for an offer keeps the types of what is known of calls.
LEMMA CallTypes ==
  ASSUME TypeOK, NEW p \in Peers, AskForOffer(p)
  PROVE  /\ promises' \subseteq Peers \X Continuations
         /\ offered' \subseteq Peers /\ unanswered' \subseteq Peers
<1>1. <<p, "offer_created">> \in Peers \X Continuations
  BY DEF Continuations
<1>2. QED
  BY <1>1 DEF AskForOffer

\* The variables of the type invariant, without Messages unfolded.
LEMMA TypeStep ==
  ASSUME TypeOK, LoopIsMade, [Next]_vars
  PROVE  TypeOK'
<1>1. ASSUME NEW m \in Media, NEW set \in BOOLEAN, SetPath(m, set) PROVE TypeOK'
  BY <1>1 DEF SetPath
<1>2. CASE start
  <2>1. gen' \in 0 .. MaxStarts /\ conn_gen' \in 0 .. gen' /\ failed' \subseteq 1 .. gen'
    BY <1>2 DEF start
  <2>2. QED
    BY <1>2, <2>1 DEF start
<1>3. CASE StartReturns
  <2>1. failed' \subseteq 1 .. gen'
    <3>1. gen' = gen /\ gen \in 1 .. gen /\ failed' \subseteq failed \cup {gen}
      BY <1>3, gen \in Nat DEF StartReturns, LoopIsMade
    <3>2. QED
      BY <3>1
  <2>2. started' \in BOOLEAN
    BY <1>3 DEF StartReturns
  <2>3. QED
    BY <1>3, <2>1, <2>2 DEF StartReturns
<1>4. CASE stop
  BY <1>4 DEF stop
<1>5. CASE StopAtOnce
  BY <1>5 DEF StopAtOnce
<1>6. CASE StopLocks
  BY <1>6 DEF StopLocks
<1>7. CASE StopReturns
  BY <1>7 DEF StopReturns
<1>8. CASE StartSource
  BY <1>8 DEF StartSource
<1>9. CASE StopSource
  BY <1>9 DEF StopSource, AfterClose, NewPipeline
<1>10. ASSUME NEW ok \in BOOLEAN, ServerConnected(ok) PROVE TypeOK'
  <2>1. conn_gen' \in 0 .. gen'
    BY <1>10 DEF ServerConnected
  <2>2. QED
    BY <1>10, <2>1 DEF ServerConnected
<1>11. CASE ServerCloses \/ SocketClosed
  BY <1>11 DEF ServerCloses, SocketClosed
<1>12. CASE connection_closed \/ StoppingReset
  BY <1>12 DEF connection_closed, StoppingReset
<1>13. ASSUME NEW m \in Messages, wss_message(m) PROVE TypeOK'
  BY <1>13 DEF wss_message
<1>14. CASE Subscribed \/ Registered
  BY <1>14 DEF Subscribed, Registered
<1>15. CASE RoomJoined
  BY <1>15 DEF RoomJoined, Messages
<1>16. CASE CallNext
  <2>1. CASE UNCHANGED mediaVars
    BY <1>16, <2>1 DEF CallNext, Messages
  <2>2. ASSUME NEW p \in loop.peers, call_peer(p),
               loop' = [loop EXCEPT !.peers = @ \ {p}], UNCHANGED tees
        PROVE  TypeOK'
    <3>1. loop.peers \subseteq Peers /\ loop' \in Messages
      BY <1>16, <2>2 DEF CallNext, Messages
    <3>2. p \in Peers /\ AddPeer(p) /\ AskForOffer(p)
      BY <2>2, <3>1 DEF call_peer
    <3>3. bins' \subseteq Peers /\ peers' \subseteq Peers
      BY <3>2, PeerTypes
    <3>4. /\ promises' \subseteq Peers \X Continuations
          /\ offered' \subseteq Peers /\ unanswered' \subseteq Peers
      BY <3>2, CallTypes
    <3>5. UNCHANGED <<handlerVars, phase, tees>>
      BY <1>16, <2>2 DEF CallNext
    <3>6. QED
      BY <3>1, <3>3, <3>4, <3>5
  <2>3. QED
    BY <1>16, <2>1, <2>2 DEF CallNext
<1>17. CASE PeerJoined \/ PeerLeft
  <2>1. loop.peer \in Peers
    BY <1>17 DEF PeerJoined, PeerLeft, Messages
  <2>2. AddPeer(loop.peer) \/ RemovePeer(loop.peer)
    BY <1>17 DEF PeerJoined, PeerLeft
  <2>3. bins' \subseteq Peers /\ peers' \subseteq Peers
    BY <2>1, <2>2, PeerTypes
  <2>4. /\ loop' = Idle
        /\ UNCHANGED <<handlerVars, phase, tees, callVars>>
    BY <1>17 DEF PeerJoined, PeerLeft
  <2>5. QED
    BY <2>3, <2>4
<1>18. CASE ReturnCall
  <2>1. loop.peer \in Peers
    BY <1>18 DEF ReturnCall, Messages
  <2>2. bins' \subseteq Peers /\ peers' \subseteq Peers
    BY <1>18, <2>1 DEF ReturnCall, AddNewPeer, RemovePeer
  <2>3. /\ promises' \subseteq Peers \X Continuations
        /\ offered' \subseteq Peers /\ unanswered' \subseteq Peers
    BY <1>18, <2>1, CallTypes DEF ReturnCall
  <2>4. QED
    BY <1>18, <2>2, <2>3 DEF ReturnCall
<1>19. CASE RemoteSdp
  BY <1>19 DEF RemoteSdp, Messages, Continuations
<1>20. ASSUME NEW p \in Peers, Promises(p) PROVE TypeOK'
  <2>1. offered' \subseteq Peers /\ unanswered' \subseteq Peers
    BY <1>20 DEF Promises, offer_created, remote_description_set, answer_created,
                 local_description_set
  <2>2. PICK which \in Continuations, next \in SUBSET Continuations : Continued(p, which, next)
    BY <1>20 DEF Promises, offer_created, remote_description_set, answer_created,
                 local_description_set, OfferIsSet, Continuations
  <2>3. promises' \subseteq Peers \X Continuations
    BY <2>2 DEF Continued
  <2>4. UNCHANGED <<handlerVars, phase, loop, tees, bins, peers>>
    BY <2>2 DEF Continued
  <2>5. UNCHANGED <<started, stopping, connecting, user, gen, conn_gen, failed, sources, conn,
                    room, paths>>
    BY <2>4
  <2>6. QED
    BY <2>1, <2>3, <2>4, <2>5
<1>21. CASE UNCHANGED vars
  BY <1>21 DEF vars
<1> QED
  BY <1>1, <1>2, <1>3, <1>4, <1>5, <1>6, <1>7, <1>8, <1>9, <1>10, <1>11, <1>12,
     <1>13, <1>14, <1>15, <1>16, <1>17, <1>18, <1>19, <1>20, <1>21
     DEF Next, UserNext, LoopNext, HandlerNext, PromiseNext

-----------------------------------------------------------------------------
(* The rest of the invariant.                                              *)

\* The handlers of messages and the continuations of promises change neither
\* the connection nor the flags; a handler that changes the pipeline is about
\* a message, so that the connection is still open.
LEMMA ControlKept ==
  ASSUME Control, UNCHANGED <<userVars, stopping, gen, sources, connecting, conn, conn_gen>>,
         UNCHANGED <<tees, bins>> \/ loop \in Messages,
         \/ loop' = loop
         \/ loop' = Idle /\ loop.type # "closed"
         \/ loop' \in Messages /\ conn = "open"
  PROVE  Control'
<1>1. \A m \in Messages : m.type \notin {"connected", "closed", "reset"}
  BY DEF Messages
<1>2. Idle \notin Messages
  BY DEF Messages
<1>3. AskedOnce' /\ StopGoesOn' /\ NoneAskedFor' /\ FailureIsKnown' /\ ConnectionIsStarted'
        /\ LoopIsMade' /\ PolledConnectionLives' /\ CutOffOnlyAfterFailure'
  BY DEF Control, AskedOnce, StopGoesOn, NoneAskedFor, FailureIsKnown, ConnectionIsStarted,
         LoopIsMade, PolledConnectionLives, CutOffOnlyAfterFailure
<1>4. HandlersServed'
  BY <1>1, <1>2 DEF Control, HandlersServed
<1>5. StopSourceDone'
  BY <1>1 DEF Control, HandlersServed, StopSourceDone
<1>6. QED
  BY <1>3, <1>4, <1>5 DEF Control

\* Every step of the user, the loop and GStreamer preserves the control part.
LEMMA ControlStep ==
  ASSUME TypeOK, Control, [Next]_vars
  PROVE  Control'
<1>m. \A m \in Messages : m.type \notin {"idle", "connected", "closed", "reset"}
  BY DEF Messages
<1>n. /\ Idle \notin Messages
      /\ [type |-> "connected"] \notin Messages
      /\ [type |-> "closed"] \notin Messages
      /\ [type |-> "reset"] \notin Messages
  BY <1>m
<1> USE DEF Control, AskedOnce, HandlersServed, StopGoesOn, NoneAskedFor, FailureIsKnown,
            ConnectionIsStarted, StopSourceDone, LoopIsMade, PolledConnectionLives,
            CutOffOnlyAfterFailure
<1>1. ASSUME NEW m \in Media, NEW set \in BOOLEAN, SetPath(m, set) PROVE Control'
  BY <1>1 DEF SetPath
<1>2. CASE start
  <2>1. conn \in {"none", "open", "closing"}
    BY <1>2 DEF start, CanStart
  <2>2. conn # "none" => conn_gen \in failed /\ conn_gen # gen'
    BY <1>2, <2>1 DEF start, CanStart
  <2>3. QED
    BY <1>2, <2>1, <2>2 DEF start, CanStart
<1>3. CASE StartReturns
  BY <1>3 DEF StartReturns
<1>4. CASE stop
  BY <1>4 DEF stop
<1>5. CASE StopAtOnce
  BY <1>5 DEF StopAtOnce
<1>6. CASE StopLocks
  BY <1>6 DEF StopLocks
<1>7. CASE StopReturns
  BY <1>7 DEF StopReturns
<1>8. CASE StartSource
  BY <1>8 DEF StartSource
<1>9. CASE StopSource
  BY <1>9, <1>n DEF StopSource, AfterClose, NewPipeline
<1>10. ASSUME NEW ok \in BOOLEAN, ServerConnected(ok) PROVE Control'
  BY <1>10, <1>n DEF ServerConnected
<1>11. CASE ServerCloses
  BY <1>11, <1>n DEF ServerCloses
<1>12. CASE SocketClosed
  BY <1>12, <1>n DEF SocketClosed
<1>13. CASE connection_closed
  BY <1>13, <1>n DEF connection_closed
<1>14. CASE StoppingReset
  BY <1>14, <1>n DEF StoppingReset
<1>15. CASE Subscribed
  BY <1>15, <1>n DEF Subscribed
<1> HIDE DEF Control, AskedOnce, HandlersServed, StopGoesOn, NoneAskedFor, FailureIsKnown,
            ConnectionIsStarted, StopSourceDone, LoopIsMade, PolledConnectionLives,
            CutOffOnlyAfterFailure
<1>16. ASSUME NEW m \in Messages, wss_message(m) PROVE Control'
  BY <1>16, ControlKept DEF wss_message
<1>h. loop.type \notin {"idle", "connected", "closed", "reset"} => loop \in Messages
  BY DEF Messages
<1>o. loop \in Messages => conn = "open"
  BY DEF Control, HandlersServed
<1>17. CASE Registered
  BY <1>17, ControlKept DEF Registered
<1>18. CASE RoomJoined
  <2>1. loop \in Messages
    BY <1>18, <1>h DEF RoomJoined
  <2>2. loop' = Idle \/ loop' \in Messages
    BY <1>18, <2>1 DEF RoomJoined, Messages
  <2>3. QED
    BY <1>18, <1>m, <1>o, <2>1, <2>2, ControlKept DEF RoomJoined
<1>19. CASE CallNext
  <2>1. loop \in Messages
    BY <1>19, <1>h DEF CallNext
  <2>2. loop' = Idle \/ loop' \in Messages
    BY <1>19, <2>1 DEF CallNext, Messages
  <2>3. QED
    BY <1>19, <1>m, <1>o, <2>1, <2>2, ControlKept DEF CallNext
<1>20. CASE PeerJoined \/ PeerLeft \/ ReturnCall \/ RemoteSdp
  <2>1. loop \in Messages /\ loop' = Idle
    BY <1>20, <1>h DEF PeerJoined, PeerLeft, ReturnCall, RemoteSdp
  <2>2. UNCHANGED <<userVars, stopping, gen, sources, connecting, conn, conn_gen>>
    BY <1>20 DEF PeerJoined, PeerLeft, ReturnCall, RemoteSdp
  <2>3. QED
    BY <1>m, <2>1, <2>2, ControlKept
<1>21. ASSUME NEW p \in Peers, Promises(p) PROVE Control'
  BY <1>21, ControlKept DEF Promises, offer_created, remote_description_set,
       answer_created, local_description_set, Continued
<1>22. CASE UNCHANGED vars
  BY <1>22, ControlKept DEF vars
<1> QED
  BY <1>1, <1>2, <1>3, <1>4, <1>5, <1>6, <1>7, <1>8, <1>9, <1>10, <1>11, <1>12, <1>13,
     <1>14, <1>15, <1>16, <1>17, <1>18, <1>19, <1>20, <1>21, <1>22
     DEF Next, UserNext, LoopNext, HandlerNext, PromiseNext

-----------------------------------------------------------------------------
(* The theorems.                                                           *)

\* The invariant holds at first.
LEMMA Initially == Init => IInv
<1>1. ASSUME Init PROVE TypeOK
  <2>1. gen \in 0 .. MaxStarts /\ conn_gen \in 0 .. gen
    BY <1>1 DEF Init
  <2>2. QED
    BY <1>1, <2>1 DEF Init
<1>2. Idle \notin Messages
  BY DEF Messages
<1>3. Init => Control
  BY <1>2 DEF Init, Control, AskedOnce, HandlersServed, StopGoesOn, NoneAskedFor,
         FailureIsKnown, ConnectionIsStarted, StopSourceDone, LoopIsMade,
         PolledConnectionLives, CutOffOnlyAfterFailure
<1>4. QED
  BY <1>1, <1>3 DEF IInv

\* Every step preserves the invariant.
LEMMA Step == IInv /\ [Next]_vars => IInv'
<1>1. SUFFICES ASSUME IInv, [Next]_vars PROVE IInv'
  OBVIOUS
<1>2. TypeOK /\ Control /\ LoopIsMade
  BY <1>1 DEF IInv, Control
<1>3. QED
  BY <1>1, <1>2, TypeStep, ControlStep DEF IInv

\* The inductive invariant is one.
THEOREM Invariance == Spec => []IInv
BY Initially, Step, PTL DEF Spec

\* In every order of callbacks each handler keeps the variables in their types.
THEOREM TypeCorrect == Spec => []TypeOK
<1>1. IInv => TypeOK
  BY DEF IInv
<1>2. QED
  BY <1>1, Invariance, PTL

\* Once stop polls (webrtc.cpp:170) the connection is there and stopping_ set,
\* however the close of the socket, by either end, and its callback interleave.
THEOREM PolledConnectionAlwaysLives == Spec => []PolledConnectionLives
<1>1. IInv => PolledConnectionLives
  BY DEF IInv, Control
<1>2. QED
  BY <1>1, Invariance, PTL

\* A connection that the running loop does not serve is one whose start
\* reported a failure (webrtc.cpp:246, :261, :343): no other order of events
\* cuts one off.
THEOREM CutOffAlwaysAfterFailure == Spec => []CutOffOnlyAfterFailure
<1>1. IInv => CutOffOnlyAfterFailure
  BY DEF IInv, Control
<1>2. QED
  BY <1>1, Invariance, PTL

\* After the stop source has closed the connection the pipeline stays empty,
\* whatever handler was under way when stop began (webrtc.cpp:158, :220, :758).
THEOREM StoppedAlwaysSilent == Spec => []StoppedIsSilent
<1>1. IInv => StoppedIsSilent
  BY DEF IInv, Control, StopSourceDone, StoppedIsSilent
<1>2. QED
  BY <1>1, Invariance, PTL
=============================================================================
