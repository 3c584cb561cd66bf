---------------------------- MODULE V1Receiver ----------------------------
(***************************************************************************)
(* The v1 receiver's lifecycle (transport/receiver.go): the accept loop    *)
(* and its bounded handshakes, one handler per TCP connection, the UDP     *)
(* loop's sources, the registry of active streams with the mixer's list,   *)
(* and the shutdown that must leave none of them behind.                   *)
(***************************************************************************)
EXTENDS Integers, FiniteSets

CONSTANTS
  Conns,        \* TCP connections peers open
  Sources,      \* UDP source addresses
  MaxStreams,   \* maxStreams
  MaxPending    \* maxPendingHandshakes

ASSUME ReceiverAssumption ==
  IsFiniteSet(Conns) /\ Conns \cap Sources = {} /\ MaxPending \in Nat

VARIABLES
  run,          \* RunListeners: "up", "cancelled", "closed", "loops", "returned"
  listening,    \* the sockets are open
  conn,         \* per connection: where its handler is
  cut,          \* connections the receiver has closed
  tracked,      \* r.conns
  pending,      \* tokens in pendingHandshakes
  active,       \* activeStreams
  mixer,        \* the mixer's streams
  udp,          \* the sources of the UDP loop
  udpDone,      \* the UDP loop has ended
  closer        \* the goroutine waiting on runCtx has run closeActive

vars == <<run, listening, conn, cut, tracked, pending, active, mixer, udp, udpDone, closer>>

Init ==
  /\ run = "up" /\ listening = TRUE /\ conn = [c \in Conns |-> "dialled"]
  /\ cut = {} /\ tracked = {} /\ pending = 0 /\ active = {} /\ mixer = {}
  /\ udp = {} /\ udpDone = FALSE /\ closer = FALSE

cancelled == run # "up"

-----------------------------------------------------------------------------
(* The registry. *)
room == Cardinality(active) < MaxStreams

(* Mixer.AddStream, which refuses an id it already has, and RemoveStream.  *)
AddStream(id) == id \notin mixer /\ mixer' = mixer \cup {id}
RemoveStream(ids) == mixer' = mixer \ ids

(* registerStream adds to the mixer first, and to the registry if that     *)
(* succeeded.                                                              *)
registerStream(k) == AddStream(k) /\ active' = active \cup {k}

unregisterForgetsMixer(ks) == active' = active \ ks /\ UNCHANGED mixer

(* unregisterStream takes the stream out of the registry and the mixer. *)
unregisterStream(ks) == active' = active \ ks /\ RemoveStream(ks)

-----------------------------------------------------------------------------
(* runTCPAcceptLoop: Accept returns, then the connection is tracked, then  *)
(* it gets a handshake slot and a handler or is closed.                    *)
Accept(c) ==
  /\ listening /\ conn[c] = "dialled" /\ \A d \in Conns : conn[d] \notin {"accepted", "tracked"}
  /\ conn' = [conn EXCEPT ![c] = "accepted"]
  /\ UNCHANGED <<run, listening, cut, tracked, pending, active, mixer, udp, udpDone, closer>>

trackConn(c) ==
  /\ conn[c] = "accepted"
  /\ conn' = [conn EXCEPT ![c] = "tracked"] /\ tracked' = tracked \cup {c}
  /\ UNCHANGED <<run, listening, cut, pending, active, mixer, udp, udpDone, closer>>

Dispatch(c) ==
  /\ conn[c] = "tracked"
  /\ IF pending < MaxPending
     THEN /\ conn' = [conn EXCEPT ![c] = "handshake"] /\ pending' = pending + 1
          /\ UNCHANGED <<tracked, cut>>
     ELSE /\ conn' = [conn EXCEPT ![c] = "gone"] /\ UNCHANGED pending
          /\ tracked' = tracked \ {c} /\ cut' = cut \cup {c}
  /\ UNCHANGED <<run, listening, active, mixer, udp, udpDone, closer>>

(* Accept fails once the listener is closed. *)
acceptLoopEnded == ~listening /\ \A c \in Conns : conn[c] \notin {"accepted", "tracked"}

-----------------------------------------------------------------------------
(* handleConnection reads a valid handshake and registers the stream. *)
Handshake(c) ==
  /\ conn[c] = "handshake" /\ c \notin cut /\ room
  /\ registerStream(c)
  /\ conn' = [conn EXCEPT ![c] = "stream"] /\ pending' = pending - 1
  /\ UNCHANGED <<run, listening, cut, tracked, udp, udpDone, closer>>

releasePending(c) == pending' = pending - 1

(* No handshake within handshakeTimeout, an invalid one, another format,   *)
(* too many streams, or the connection closed: the deferred clean-up.      *)
HandshakeFails(c) ==
  /\ conn[c] = "handshake"
  /\ conn' = [conn EXCEPT ![c] = "gone"] /\ releasePending(c)
  /\ tracked' = tracked \ {c} /\ cut' = cut \cup {c}
  /\ UNCHANGED <<run, listening, active, mixer, udp, udpDone, closer>>

noContextCheck(c) == c \in cut

(* The read loop cannot go on: the connection is closed, or the context is *)
(* done, which it looks at before each frame.                              *)
mustEnd(c) == c \in cut \/ cancelled

(* The peer may stop at any time: it closed, or nothing came for           *)
(* readTimeout.                                                            *)
StreamEnds(c) ==
  /\ conn[c] = "stream"
  /\ conn' = [conn EXCEPT ![c] = "gone"]
  /\ unregisterStream({c})
  /\ tracked' = tracked \ {c} /\ cut' = cut \cup {c}
  /\ UNCHANGED <<run, listening, pending, udp, udpDone, closer>>

-----------------------------------------------------------------------------
(* handleUDPHello for a source that is not known. *)
Hello(s) ==
  /\ listening /\ ~udpDone /\ s \notin udp
  /\ room /\ registerStream(s) /\ udp' = udp \cup {s}
  /\ UNCHANGED <<run, listening, conn, cut, tracked, pending, udpDone, closer>>

(* cleanupIdleUDPSources. *)
Idle(s) ==
  /\ ~udpDone /\ s \in udp
  /\ unregisterStream({s}) /\ udp' = udp \ {s}
  /\ UNCHANGED <<run, listening, conn, cut, tracked, pending, udpDone, closer>>

(* runUDPReceiveLoop ends: the context, the closed socket or a read error, *)
(* which RunListeners answers by cancelling.                               *)
UdpEnds ==
  /\ ~udpDone /\ udpDone' = TRUE
  /\ unregisterStream(udp) /\ udp' = {}
  /\ run' = IF cancelled THEN run ELSE "cancelled"
  /\ UNCHANGED <<listening, conn, cut, tracked, pending, closer>>

-----------------------------------------------------------------------------
(* The caller's context, or the accept loop's error. *)
Cancel ==
  /\ run = "up" /\ run' = "cancelled"
  /\ UNCHANGED <<listening, conn, cut, tracked, pending, active, mixer, udp, udpDone, closer>>

closeActive == cut' = cut \cup tracked

(* The goroutine behind runCtx. *)
Closer ==
  /\ cancelled /\ ~closer /\ closer' = TRUE
  /\ listening' = FALSE /\ closeActive
  /\ UNCHANGED <<run, conn, tracked, pending, active, mixer, udp, udpDone>>

(* RunListeners' deferred clean-up, up to its waits. *)
CloseAll ==
  /\ run = "cancelled" /\ run' = "closed"
  /\ listening' = FALSE /\ closeActive
  /\ UNCHANGED <<conn, tracked, pending, active, mixer, udp, udpDone, closer>>

udpLoopDone == udpDone

(* loops.Wait *)
loopsDone == acceptLoopEnded /\ udpDone

LoopsWait ==
  /\ run = "closed" /\ loopsDone /\ run' = "loops"
  /\ UNCHANGED <<listening, conn, cut, tracked, pending, active, mixer, udp, udpDone, closer>>

(* handlers.Wait, then RunListeners returns. *)
HandlersWait ==
  /\ run = "loops" /\ \A c \in Conns : conn[c] \notin {"handshake", "stream"}
  /\ run' = "returned"
  /\ UNCHANGED <<listening, conn, cut, tracked, pending, active, mixer, udp, udpDone, closer>>

Handler(c) == Handshake(c) \/ HandshakeFails(c) \/ StreamEnds(c)

Next ==
  \/ Cancel \/ Closer \/ CloseAll \/ LoopsWait \/ HandlersWait \/ UdpEnds
  \/ \E c \in Conns : Accept(c) \/ trackConn(c) \/ Dispatch(c) \/ Handler(c)
  \/ \E s \in Sources : Hello(s) \/ Idle(s)

Spec == Init /\ [][Next]_vars

-----------------------------------------------------------------------------
TypeOK ==
  /\ run \in {"up", "cancelled", "closed", "loops", "returned"}
  /\ listening \in BOOLEAN /\ udpDone \in BOOLEAN /\ closer \in BOOLEAN
  /\ conn \in [Conns -> {"dialled", "accepted", "tracked", "handshake", "stream", "gone"}]
  /\ cut \subseteq Conns /\ tracked \subseteq Conns /\ pending \in Nat
  /\ udp \subseteq Sources /\ active \subseteq Conns \cup Sources
  /\ mixer \subseteq Conns \cup Sources

(* Every active stream has an owner that will remove it, a handler in its  *)
(* read loop or a source of the UDP loop; the mixer plays exactly the      *)
(* active streams; and a handshake slot is held by a handler that has not  *)
(* finished its handshake, so neither streams nor slots run out for good   *)
(* (registerStream, unregisterStream and every path that ends a handler).  *)
StreamsOwned ==
  /\ active = {c \in Conns : conn[c] = "stream"} \cup udp
  /\ mixer = active
  /\ pending = Cardinality({c \in Conns : conn[c] = "handshake"})

(* When RunListeners has returned, nothing of it is left: no handler, no   *)
(* tracked connection, no stream, whenever the accept loop got its last    *)
(* connection ("preventing goroutine/fd leaks", RunListeners).             *)
ReturnedClean ==
  run = "returned" =>
    /\ active = {} /\ mixer = {} /\ tracked = {} /\ pending = 0
    /\ \A c \in Conns : conn[c] \in {"dialled", "gone"}

(* A cancelled receiver returns, even with a connection that was tracked   *)
(* after closeActive and whose peer never stops sending.                   *)
CancelReturns == cancelled ~> run = "returned"

(* Loops and handlers go on; a handshake ends by its deadline; a handler   *)
(* whose context is done or whose connection was closed leaves its loop.   *)
Fairness ==
  /\ WF_vars(Closer) /\ WF_vars(CloseAll) /\ WF_vars(LoopsWait) /\ WF_vars(HandlersWait)
  /\ WF_vars(cancelled /\ UdpEnds)
  /\ \A c \in Conns :
       /\ WF_vars(trackConn(c)) /\ WF_vars(Dispatch(c)) /\ WF_vars(HandshakeFails(c))
       /\ WF_vars(mustEnd(c) /\ StreamEnds(c))
=============================================================================
