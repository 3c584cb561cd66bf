------------------------------ MODULE V1Proofs ------------------------------
(***************************************************************************)
(* Proofs about the v1 transport: who owns a stream (V1Receiver), for      *)
(* every set of connections and sources and every limit, and what is       *)
(* written to it (V1Stream), for every packet size, gap limit and network. *)
(***************************************************************************)
EXTENDS V1Receiver, V1Stream, FiniteSetTheorems, TLAPS

-----------------------------------------------------------------------------
(***************************************************************************)
(* The lifecycle.  ReturnedClean is not inductive: what is left when       *)
(* RunListeners returns depends on what each of its waits has established, *)
(* which Shutdown records, and on the owners StreamsOwned gives to every   *)
(* stream and every handshake slot.                                        *)
(***************************************************************************)

(* Handlers in their handshake: the owners of the pending slots. *)
Handshaking == {c \in Conns : conn[c] = "handshake"}

(* A tracked connection is one the accept loop or a handler still holds. *)
TrackedHeld == \A c \in tracked : conn[c] \in {"tracked", "handshake", "stream"}

(* What each stage of the shutdown leaves behind: closed sockets, ended    *)
(* loops, finished handlers.                                               *)
Shutdown ==
  /\ udpDone => udp = {}
  /\ run \in {"closed", "loops", "returned"} => ~listening
  /\ run \in {"loops", "returned"} =>
       udpDone /\ \A c \in Conns : conn[c] \notin {"accepted", "tracked"}
  /\ run = "returned" => \A c \in Conns : conn[c] \notin {"handshake", "stream"}

(* The inductive invariant. *)
IInv == TypeOK /\ StreamsOwned /\ TrackedHeld /\ Shutdown

-----------------------------------------------------------------------------
(* Handshakes are finitely many, so that their slots can be counted. *)
LEMMA HandshakingFinite == IsFiniteSet(Handshaking)
<1>1. Handshaking \subseteq Conns  BY DEF Handshaking
<1>. QED  BY <1>1, ReceiverAssumption, FS_Subset

(* A handler that enters its handshake takes one slot. *)
LEMMA SlotTaken ==
  ASSUME TypeOK, NEW c \in Conns, conn[c] # "handshake",
         conn' = [conn EXCEPT ![c] = "handshake"]
  PROVE  Cardinality(Handshaking') = Cardinality(Handshaking) + 1
<1>1. Handshaking' = Handshaking \cup {c}  BY DEF TypeOK, Handshaking
<1>2. c \notin Handshaking  BY DEF Handshaking
<1>. QED  BY <1>1, <1>2, HandshakingFinite, FS_AddElement

(* A handler that leaves its handshake returns one slot, and there is one  *)
(* to return.                                                              *)
LEMMA SlotReturned ==
  ASSUME TypeOK, NEW c \in Conns, conn[c] = "handshake",
         NEW s \in {"stream", "gone"}, conn' = [conn EXCEPT ![c] = s]
  PROVE  /\ Cardinality(Handshaking') = Cardinality(Handshaking) - 1
         /\ Cardinality(Handshaking) > 0
<1>1. Handshaking' = Handshaking \ {c}  BY DEF TypeOK, Handshaking
<1>2. c \in Handshaking  BY DEF Handshaking
<1>3. Handshaking # {}  BY <1>2
<1>4. Cardinality(Handshaking) \in Nat /\ Cardinality(Handshaking) # 0
  BY <1>3, HandshakingFinite, FS_CardinalityType, FS_EmptySet
<1>. QED  BY <1>1, <1>2, <1>4, HandshakingFinite, FS_RemoveElement

(* A receiver that has accepted nothing satisfies the invariant. *)
LEMMA InitIInv == Init => IInv
<1>. SUFFICES ASSUME Init PROVE IInv  OBVIOUS
<1>1. TypeOK  BY DEF Init, TypeOK
<1>2. StreamsOwned
  <2>1. {c \in Conns : conn[c] = "stream"} = {} /\ {c \in Conns : conn[c] = "handshake"} = {}
    BY DEF Init
  <2>. QED  BY <2>1, FS_EmptySet DEF Init, StreamsOwned
<1>3. TrackedHeld /\ Shutdown  BY DEF Init, TrackedHeld, Shutdown
<1>. QED  BY <1>1, <1>2, <1>3 DEF IInv

-----------------------------------------------------------------------------
(* The accept loop. *)
LEMMA AcceptIInv == ASSUME IInv, NEW c \in Conns, Accept(c) PROVE IInv'
<1>. USE DEF Accept, IInv
<1>1. TypeOK'  BY DEF TypeOK
<1>2. StreamsOwned'
  <2>1. /\ {d \in Conns : conn'[d] = "stream"} = {d \in Conns : conn[d] = "stream"}
        /\ {d \in Conns : conn'[d] = "handshake"} = {d \in Conns : conn[d] = "handshake"}
    BY DEF TypeOK
  <2>. QED  BY <2>1 DEF StreamsOwned
<1>3. TrackedHeld' /\ Shutdown'  BY DEF TypeOK, TrackedHeld, Shutdown
<1>. QED  BY <1>1, <1>2, <1>3

(* The connection enters r.conns. *)
LEMMA TrackIInv == ASSUME IInv, NEW c \in Conns, trackConn(c) PROVE IInv'
<1>. USE DEF trackConn, IInv
<1>1. TypeOK'  BY DEF TypeOK
<1>2. StreamsOwned'
  <2>1. /\ {d \in Conns : conn'[d] = "stream"} = {d \in Conns : conn[d] = "stream"}
        /\ {d \in Conns : conn'[d] = "handshake"} = {d \in Conns : conn[d] = "handshake"}
    BY DEF TypeOK
  <2>. QED  BY <2>1 DEF StreamsOwned
<1>3. TrackedHeld' /\ Shutdown'  BY DEF TypeOK, TrackedHeld, Shutdown
<1>. QED  BY <1>1, <1>2, <1>3

(* The connection gets a handshake slot, or is closed for want of one. *)
LEMMA DispatchIInv == ASSUME IInv, NEW c \in Conns, Dispatch(c) PROVE IInv'
<1>. USE DEF Dispatch, IInv
<1>1. TypeOK'  BY DEF TypeOK
<1>2. StreamsOwned'
  <2>1. {d \in Conns : conn'[d] = "stream"} = {d \in Conns : conn[d] = "stream"}
    BY DEF TypeOK
  <2>2. CASE pending < MaxPending
    <3>1. Cardinality(Handshaking') = Cardinality(Handshaking) + 1  BY <2>2, SlotTaken
    <3>2. pending' = pending + 1  BY <2>2
    <3>. QED  BY <2>1, <3>1, <3>2 DEF StreamsOwned, Handshaking
  <2>3. CASE ~(pending < MaxPending)
    <3>1. {d \in Conns : conn'[d] = "handshake"} = {d \in Conns : conn[d] = "handshake"}
      BY <2>3 DEF TypeOK
    <3>. QED  BY <2>1, <2>3, <3>1 DEF StreamsOwned
  <2>. QED  BY <2>2, <2>3
<1>3. TrackedHeld' /\ Shutdown'  BY DEF TypeOK, TrackedHeld, Shutdown
<1>. QED  BY <1>1, <1>2, <1>3

-----------------------------------------------------------------------------
(* A handshake that succeeds turns its slot into an active stream. *)
LEMMA HandshakeIInv == ASSUME IInv, NEW c \in Conns, Handshake(c) PROVE IInv'
<1>. USE DEF Handshake, registerStream, AddStream, IInv
<1>1. /\ Cardinality(Handshaking') = Cardinality(Handshaking) - 1
      /\ Cardinality(Handshaking) > 0
  BY SlotReturned
<1>2. pending = Cardinality(Handshaking)  BY DEF StreamsOwned, Handshaking
<1>3. TypeOK'  BY <1>1, <1>2 DEF TypeOK
<1>4. StreamsOwned'
  <2>1. {d \in Conns : conn'[d] = "stream"} = {d \in Conns : conn[d] = "stream"} \cup {c}
    BY DEF TypeOK
  <2>2. pending' = Cardinality(Handshaking')  BY <1>1, <1>2
  <2>. QED  BY <2>1, <2>2 DEF StreamsOwned, Handshaking
<1>5. TrackedHeld' /\ Shutdown'  BY DEF TypeOK, TrackedHeld, Shutdown
<1>. QED  BY <1>3, <1>4, <1>5

(* A handshake that fails returns its slot and leaves no stream. *)
LEMMA HandshakeFailsIInv == ASSUME IInv, NEW c \in Conns, HandshakeFails(c) PROVE IInv'
<1>. USE DEF HandshakeFails, releasePending, IInv
<1>1. /\ Cardinality(Handshaking') = Cardinality(Handshaking) - 1
      /\ Cardinality(Handshaking) > 0
  BY SlotReturned
<1>2. pending = Cardinality(Handshaking)  BY DEF StreamsOwned, Handshaking
<1>3. TypeOK'  BY <1>1, <1>2 DEF TypeOK
<1>4. StreamsOwned'
  <2>1. {d \in Conns : conn'[d] = "stream"} = {d \in Conns : conn[d] = "stream"}
    BY DEF TypeOK
  <2>2. pending' = Cardinality(Handshaking')  BY <1>1, <1>2
  <2>. QED  BY <2>1, <2>2 DEF StreamsOwned, Handshaking
<1>5. TrackedHeld' /\ Shutdown'  BY DEF TypeOK, TrackedHeld, Shutdown
<1>. QED  BY <1>3, <1>4, <1>5

(* A stream that ends leaves the registry, the mixer and r.conns. *)
LEMMA StreamEndsIInv == ASSUME IInv, NEW c \in Conns, StreamEnds(c) PROVE IInv'
<1>. USE DEF StreamEnds, unregisterStream, RemoveStream, IInv
<1>1. TypeOK'  BY DEF TypeOK
<1>2. StreamsOwned'
  <2>1. /\ {d \in Conns : conn'[d] = "stream"} = {d \in Conns : conn[d] = "stream"} \ {c}
        /\ {d \in Conns : conn'[d] = "handshake"} = {d \in Conns : conn[d] = "handshake"}
    BY DEF TypeOK
  <2>2. c \notin udp  BY ReceiverAssumption DEF TypeOK
  <2>. QED  BY <2>1, <2>2 DEF StreamsOwned
<1>3. TrackedHeld' /\ Shutdown'  BY DEF TypeOK, TrackedHeld, Shutdown
<1>. QED  BY <1>1, <1>2, <1>3

-----------------------------------------------------------------------------
(* The UDP loop: its sources come, go, and end with it. *)
LEMMA HelloIInv == ASSUME IInv, NEW s \in Sources, Hello(s) PROVE IInv'
<1>. USE DEF Hello, registerStream, AddStream, IInv
<1>1. TypeOK'  BY DEF TypeOK
<1>2. StreamsOwned'  BY DEF StreamsOwned
<1>3. TrackedHeld' /\ Shutdown'  BY DEF TrackedHeld, Shutdown
<1>. QED  BY <1>1, <1>2, <1>3

(* An idle source is removed with its stream, and no connection's stream   *)
(* goes with it.                                                           *)
LEMMA IdleIInv == ASSUME IInv, NEW s \in Sources, Idle(s) PROVE IInv'
<1>. USE DEF Idle, unregisterStream, RemoveStream, IInv
<1>1. TypeOK'  BY DEF TypeOK
<1>2. StreamsOwned'  BY ReceiverAssumption DEF StreamsOwned
<1>3. TrackedHeld' /\ Shutdown'  BY DEF TrackedHeld, Shutdown
<1>. QED  BY <1>1, <1>2, <1>3

(* The end of the loop removes every source's stream and only those. *)
LEMMA UdpEndsIInv == ASSUME IInv, UdpEnds PROVE IInv'
<1>. USE DEF UdpEnds, unregisterStream, RemoveStream, IInv
<1>1. TypeOK'  BY DEF TypeOK, cancelled
<1>2. StreamsOwned'  BY ReceiverAssumption DEF StreamsOwned, TypeOK
<1>3. TrackedHeld'  BY DEF TrackedHeld
<1>4. Shutdown'  BY DEF Shutdown, cancelled
<1>. QED  BY <1>1, <1>2, <1>3, <1>4

-----------------------------------------------------------------------------
(* The stages of the shutdown. *)
LEMMA ShutdownIInv ==
  ASSUME IInv, Cancel \/ Closer \/ CloseAll \/ LoopsWait \/ HandlersWait
  PROVE  IInv'
<1>. USE DEF Cancel, Closer, CloseAll, LoopsWait, HandlersWait, closeActive, IInv
<1>1. TypeOK'  BY DEF TypeOK
<1>2. StreamsOwned'  BY DEF StreamsOwned
<1>3. TrackedHeld'  BY DEF TrackedHeld
<1>4. Shutdown'  BY DEF Shutdown, loopsDone, acceptLoopEnded, cancelled
<1>. QED  BY <1>1, <1>2, <1>3, <1>4

(* Every step of the receiver keeps the invariant. *)
LEMMA NextIInv == IInv /\ [Next]_vars => IInv'
<1>. SUFFICES ASSUME IInv, [Next]_vars PROVE IInv'  OBVIOUS
<1>1. CASE Cancel \/ Closer \/ CloseAll \/ LoopsWait \/ HandlersWait
  BY <1>1, ShutdownIInv
<1>2. CASE UdpEnds  BY <1>2, UdpEndsIInv
<1>3. ASSUME NEW c \in Conns, Accept(c) \/ trackConn(c) \/ Dispatch(c) \/ Handler(c)
      PROVE  IInv'
  BY <1>3, AcceptIInv, TrackIInv, DispatchIInv, HandshakeIInv, HandshakeFailsIInv,
     StreamEndsIInv DEF Handler
<1>4. ASSUME NEW s \in Sources, Hello(s) \/ Idle(s) PROVE IInv'
  BY <1>4, HelloIInv, IdleIInv
<1>5. CASE UNCHANGED vars
  BY <1>5 DEF vars, IInv, TypeOK, StreamsOwned, TrackedHeld, Shutdown
<1>. QED  BY <1>1, <1>2, <1>3, <1>4, <1>5 DEF Next

(* Every reachable state satisfies the inductive invariant. *)
LEMMA IInvHolds == Spec => []IInv
BY InitIInv, NextIInv, PTL DEF Spec

(* Whatever connections, sources and limits there are, every active stream *)
(* has its owner, the mixer plays exactly the active streams, and every    *)
(* handshake slot is held by a handler (registerStream, unregisterStream,  *)
(* runTCPAcceptLoop, handleConnection).                                    *)
THEOREM NoStreamLeaks == Spec => []StreamsOwned
<1>1. IInv => StreamsOwned  BY DEF IInv
<1>. QED  BY <1>1, IInvHolds, PTL

(* RunListeners returns only when no handler, tracked connection, stream   *)
(* or handshake slot of it is left.                                        *)
THEOREM ReturnsClean == Spec => []ReturnedClean
<1>1. IInv => ReturnedClean
  <2>. SUFFICES ASSUME IInv, run = "returned"
                PROVE  /\ active = {} /\ mixer = {} /\ tracked = {} /\ pending = 0
                       /\ \A c \in Conns : conn[c] \in {"dialled", "gone"}
    BY DEF ReturnedClean
  <2>1. \A c \in Conns : conn[c] \in {"dialled", "gone"}
    BY DEF IInv, Shutdown, TypeOK
  <2>2. {c \in Conns : conn[c] = "stream"} = {} /\ {c \in Conns : conn[c] = "handshake"} = {}
    BY <2>1
  <2>3. udp = {}  BY DEF IInv, Shutdown
  <2>4. active = {} /\ mixer = {} /\ pending = 0
    BY <2>2, <2>3, FS_EmptySet DEF IInv, StreamsOwned
  <2>5. tracked = {}  BY <2>1 DEF IInv, TrackedHeld, TypeOK
  <2>. QED  BY <2>1, <2>4, <2>5
<1>. QED  BY <1>1, IInvHolds, PTL

-----------------------------------------------------------------------------
(***************************************************************************)
(* The stream.  Neither SoundInPlace nor SoundInOrder is inductive.  What  *)
(* keeps a packet in its place is a relation between sequence numbers and  *)
(* capture positions: the position less Chunk times the number, its Slip,  *)
(* only grows along the stream, and grows only when a dial throws a        *)
(* partial packet away.  So a packet that is not stale never lies before   *)
(* the end of what its stream was given, and on a TCP connection, which    *)
(* gets no silence, it begins exactly there.                               *)
(***************************************************************************)
Slip(n, c) == c - Chunk * n

Aired == {p \in net : p.kind = "audio"}

SenderSlip == Slip(seq, captureFrame - filled)
PacketSlip(p) == Slip(p.seq, p.at)
TrackerSlip(t) == Slip(t.expectedSeq, t.expectedCaptureFrame)

Packet == [kind : {"hello", "audio"}, src : Sockets, seq : Nat, at : Nat]
Tracker == [seen : BOOLEAN, expectedSeq : Nat, expectedCaptureFrame : Nat,
            first : Nat, capped : BOOLEAN]

StreamTypes ==
  /\ transport \in {"udp", "tcp"} /\ mode \in {"dial", "send", "sleep", "stopped"}
  /\ sock \in 0 .. MaxSockets /\ (mode = "send" => sock # 0)
  /\ seq \in Nat /\ captureFrame \in Nat /\ filled \in 0 .. Chunk - 1 /\ filled <= captureFrame
  /\ net \subseteq Packet
  /\ tracker \in [Sockets -> Tracker] /\ out \in [Sockets -> Seq(Int)]
  /\ known \subseteq Sockets /\ \A s \in Sockets : tracker[s].seen => s \in known

(* What is on its way is older than what the sender packs next, and in the *)
(* order of its numbers.                                                   *)
NetOrdered ==
  /\ \A p \in Aired : p.seq < seq /\ PacketSlip(p) <= SenderSlip
  /\ \A p, q \in Aired : p.seq < q.seq => PacketSlip(p) <= PacketSlip(q)

(* A tracker expects nothing beyond what the sender packs next, and a      *)
(* packet it will not call stale has not slipped back.                     *)
TrackersBehind ==
  \A s \in Sockets : tracker[s].seen =>
    /\ tracker[s].expectedSeq <= seq /\ TrackerSlip(tracker[s]) <= SenderSlip
    /\ \A p \in Aired : p.seq >= tracker[s].expectedSeq => PacketSlip(p) >= TrackerSlip(tracker[s])

Waiting(s, n) == \E p \in Aired : p.src = s /\ p.seq = n

(* On a TCP connection nothing slips and no number is missing: between two *)
(* packets, between a packet and the sender, between the receiver and      *)
(* either.                                                                 *)
PacketsInTurn ==
  \A p, q \in Aired : p.src = q.src =>
    PacketSlip(p) = PacketSlip(q) /\ \A n \in p.seq .. q.seq : Waiting(p.src, n)
SenderInTurn ==
  mode = "send" => \A p \in Aired : p.src = sock =>
    PacketSlip(p) = SenderSlip /\ \A n \in p.seq .. seq - 1 : Waiting(sock, n)
TrackersInTurn ==
  \A s \in Sockets : tracker[s].seen =>
    /\ s <= sock
    /\ \A p \in Aired : p.src = s =>
         /\ p.seq >= tracker[s].expectedSeq /\ PacketSlip(p) = TrackerSlip(tracker[s])
         /\ \A n \in tracker[s].expectedSeq .. p.seq : Waiting(s, n)
    /\ s = sock /\ mode = "send" =>
         /\ TrackerSlip(tracker[s]) = SenderSlip
         /\ \A n \in tracker[s].expectedSeq .. seq - 1 : Waiting(s, n)
InTurn ==
  /\ \A p \in net : p.src <= sock
  /\ transport = "tcp" => PacketsInTurn /\ SenderInTurn /\ TrackersInTurn

(* What was written to a stream with tracker t: nothing before its first   *)
(* packet; then, unless a gap was capped, everything from there to where   *)
(* the tracker is, each frame in its place; and always in order.           *)
WrittenTo(o, t) ==
  /\ ~t.seen => o = <<>>
  /\ \A i \in DOMAIN o : o[i] < t.expectedCaptureFrame
  /\ t.seen /\ ~t.capped => Len(o) = t.expectedCaptureFrame - t.first
  /\ ~t.capped => \A i \in DOMAIN o : o[i] \in {Silence, t.first + i - 1}
  /\ \A i, j \in DOMAIN o : i < j /\ o[i] # Silence /\ o[j] # Silence => o[i] < o[j]

Written == \A s \in Sockets : WrittenTo(out[s], tracker[s])

(* The inductive invariant. *)
StreamInv == StreamTypes /\ NetOrdered /\ TrackersBehind /\ InTurn /\ Written

-----------------------------------------------------------------------------
(* A packet of Chunk frames and one number goes on without a slip. *)
LEMMA SlipNext ==
  ASSUME NEW n \in Int, NEW c \in Int
  PROVE  Slip(n + 1, c + Chunk) = Slip(n, c)
<1>1. Chunk * (n + 1) = Chunk * n + Chunk  BY StreamAssumption
<1>. QED  BY <1>1, StreamAssumption DEF Slip

(* A later number that has not slipped back has a later position.          *)
LEMMA SlipAhead ==
  ASSUME NEW m \in Int, NEW n \in Int, NEW c \in Int, NEW d \in Int,
         n <= m, Slip(n, c) <= Slip(m, d)
  PROVE  /\ c <= d
         /\ n < m => c + Chunk <= d
         /\ n = m /\ Slip(n, c) = Slip(m, d) => c = d
<1>1. Chunk * m = Chunk * n + Chunk * (m - n)  BY StreamAssumption
<1>2. Chunk * (m - n) >= 0 /\ Chunk * n \in Int /\ Chunk * m \in Int  BY StreamAssumption
<1>3. n < m => Chunk * (m - n) >= Chunk
  <2>. SUFFICES ASSUME n < m PROVE Chunk * (m - n) >= Chunk  OBVIOUS
  <2>1. Chunk * (m - n) = Chunk + Chunk * (m - n - 1)  BY StreamAssumption
  <2>2. Chunk * (m - n - 1) >= 0  BY StreamAssumption
  <2>. QED  BY <2>1, <2>2, StreamAssumption
<1>. QED  BY <1>1, <1>2, <1>3, StreamAssumption DEF Slip

(* The elements of two sequences put together. *)
LEMMA ConcatElements ==
  ASSUME NEW a \in Seq(Int), NEW b \in Seq(Int)
  PROVE  /\ a \o b \in Seq(Int) /\ Len(a \o b) = Len(a) + Len(b)
         /\ Len(a) \in Nat /\ Len(b) \in Nat
         /\ \A i \in 1 .. Len(a) + Len(b) :
              (a \o b)[i] = IF i <= Len(a) THEN a[i] ELSE b[i - Len(a)]
OBVIOUS

(* What writeSilence and a packet append. *)
Appended(o, g, at) == o \o [i \in 1 .. g |-> Silence] \o [i \in 1 .. Chunk |-> at + i - 1]

(* Its frames one by one. *)
LEMMA AppendedFrames ==
  ASSUME NEW o \in Seq(Int), NEW g \in Nat, NEW at \in Nat
  PROVE  /\ Appended(o, g, at) \in Seq(Int) /\ Len(Appended(o, g, at)) = Len(o) + g + Chunk
         /\ DOMAIN Appended(o, g, at) = 1 .. Len(o) + g + Chunk
         /\ \A i \in 1 .. Len(o) + g + Chunk :
              Appended(o, g, at)[i] = IF i <= Len(o) THEN o[i]
                                      ELSE IF i <= Len(o) + g THEN Silence
                                      ELSE at + (i - Len(o) - g) - 1
<1>. DEFINE q == [i \in 1 .. g |-> Silence]
            w == [i \in 1 .. Chunk |-> at + i - 1]
<1>1. q \in Seq(Int) /\ Len(q) = g
  <2>1. Silence \in Int  BY DEF Silence
  <2>. QED  BY <2>1
<1>2. w \in Seq(Int) /\ Len(w) = Chunk  BY StreamAssumption
<1>3. /\ \A i \in 1 .. g : q[i] = Silence
      /\ \A i \in 1 .. Chunk : w[i] = at + i - 1
  OBVIOUS
<1>4. Appended(o, g, at) = (o \o q) \o w  BY DEF Appended
<1>. HIDE DEF q, w
<1>5. /\ o \o q \in Seq(Int) /\ Len(o \o q) = Len(o) + g
      /\ \A i \in 1 .. Len(o) + g : (o \o q)[i] = IF i <= Len(o) THEN o[i] ELSE q[i - Len(o)]
  BY <1>1, ConcatElements
<1>. DEFINE v == o \o q
<1>6. v \in Seq(Int) /\ Len(v) = Len(o) + g /\ Len(o) \in Nat  BY <1>5
<1>. HIDE DEF v
<1>7. /\ v \o w \in Seq(Int) /\ Len(v \o w) = Len(v) + Chunk
      /\ \A i \in 1 .. Len(v) + Chunk : (v \o w)[i] = IF i <= Len(v) THEN v[i] ELSE w[i - Len(v)]
  BY <1>2, <1>6, ConcatElements
<1>8. DOMAIN (v \o w) = 1 .. Len(o) + g + Chunk  BY <1>6, <1>7
<1>9. \A i \in 1 .. Len(o) + g + Chunk :
        (v \o w)[i] = IF i <= Len(o) THEN o[i]
                      ELSE IF i <= Len(o) + g THEN Silence
                      ELSE at + (i - Len(o) - g) - 1
  <2>. TAKE i \in 1 .. Len(o) + g + Chunk
  <2>1. CASE i <= Len(o) + g
    <3>1. (v \o w)[i] = v[i] /\ v[i] = IF i <= Len(o) THEN o[i] ELSE q[i - Len(o)]
      BY <1>5, <1>6, <1>7, <2>1, StreamAssumption DEF v
    <3>. QED  BY <1>3, <1>6, <2>1, <3>1
  <2>2. CASE ~(i <= Len(o) + g)
    <3>1. (v \o w)[i] = w[i - (Len(o) + g)] /\ i - (Len(o) + g) \in 1 .. Chunk
      BY <1>6, <1>7, <2>2, StreamAssumption
    <3>. QED  BY <1>3, <1>6, <2>2, <3>1
  <2>. QED  BY <2>1, <2>2
<1>10. v \o w = Appended(o, g, at)  BY <1>4 DEF v
<1>. QED  BY <1>6, <1>7, <1>8, <1>9, <1>10

(* Silence that fills the gap, or is capped, and then the packet, keep     *)
(* what was written in its place and in order.                             *)
LEMMA AppendKeepsWritten ==
  ASSUME NEW o \in Seq(Int), NEW t \in Tracker, NEW p \in Packet, NEW g \in Nat,
         WrittenTo(o, t),
         t.seen => t.expectedCaptureFrame <= p.at,
         ~t.seen => g = 0,
         t.seen /\ ~advanced(t, p).capped => g = p.at - t.expectedCaptureFrame
  PROVE  WrittenTo(Appended(o, g, p.at), advanced(t, p))
<1>. DEFINE b == Appended(o, g, p.at)
            u == advanced(t, p)
            at == p.at
            end == t.expectedCaptureFrame
<1>1. at \in Nat /\ end \in Nat /\ t.first \in Nat /\ t.seen \in BOOLEAN /\ t.capped \in BOOLEAN
  BY DEF Packet, Tracker
<1>2. /\ u.seen = TRUE /\ u.expectedCaptureFrame = at + Chunk
      /\ u.first = IF t.seen THEN t.first ELSE at
      /\ ~u.capped => ~t.capped
  BY DEF advanced
<1>3. /\ Len(o) \in Nat /\ Len(b) = Len(o) + g + Chunk /\ DOMAIN b = 1 .. Len(o) + g + Chunk
      /\ DOMAIN o = 1 .. Len(o)
      /\ \A i \in 1 .. Len(o) + g + Chunk :
           b[i] = IF i <= Len(o) THEN o[i]
                  ELSE IF i <= Len(o) + g THEN Silence
                  ELSE at + (i - Len(o) - g) - 1
  <2>1. Len(o) \in Nat /\ DOMAIN o = 1 .. Len(o)  OBVIOUS
  <2>. QED  BY <1>1, <2>1, AppendedFrames, Zenon
<1>4. /\ \A i \in 1 .. Len(o) : o[i] \in Int /\ o[i] < end
      /\ ~t.seen => Len(o) = 0
  BY <1>3 DEF WrittenTo
<1>5. Silence = -1 /\ Silence \in Int /\ Chunk \in Nat /\ Chunk > 0
  BY StreamAssumption DEF Silence
<1>6. t.seen => end <= at /\ (~u.capped => g = at - end)
  OBVIOUS
<1>7. ~u.capped /\ t.seen => Len(o) = end - t.first
  BY <1>2 DEF WrittenTo
<1>8. ~u.capped => \A i \in 1 .. Len(o) : o[i] \in {Silence, t.first + i - 1}
  BY <1>2, <1>3 DEF WrittenTo
<1>9. \A i, j \in 1 .. Len(o) : i < j /\ o[i] # Silence /\ o[j] # Silence => o[i] < o[j]
  BY <1>3 DEF WrittenTo
<1>. HIDE DEF b, u, at, end
<1>10. ASSUME NEW i \in DOMAIN b PROVE b[i] < u.expectedCaptureFrame
  <2>1. i \in Nat /\ i <= Len(o) + g + Chunk /\ i > 0  BY <1>3, <1>5
  <2>2. CASE i <= Len(o)
    <3>1. b[i] = o[i] /\ o[i] < end /\ t.seen /\ o[i] \in Int  BY <1>1, <1>3, <1>4, <2>1, <2>2
    <3>. QED  BY <1>1, <1>2, <1>5, <1>6, <3>1
  <2>3. CASE i > Len(o)
    <3>1. b[i] = Silence \/ b[i] = at + (i - Len(o) - g) - 1  BY <1>3, <2>1, <2>3
    <3>. QED  BY <1>1, <1>2, <1>3, <1>5, <2>1, <3>1
  <2>. QED  BY <1>3, <2>1, <2>2, <2>3
<1>11. ~u.capped => Len(b) = u.expectedCaptureFrame - u.first
  <2>. SUFFICES ASSUME ~u.capped PROVE Len(b) = u.expectedCaptureFrame - u.first  OBVIOUS
  <2>1. CASE t.seen
    <3>1. g = at - end /\ Len(o) = end - t.first /\ u.first = t.first
      BY <1>2, <1>6, <1>7, <2>1, Zenon
    <3>. QED  BY <1>1, <1>2, <1>3, <1>5, <3>1
  <2>2. CASE ~t.seen
    <3>1. g = 0 /\ Len(o) = 0 /\ u.first = at  BY <1>2, <1>4, <2>2
    <3>. QED  BY <1>1, <1>2, <1>3, <1>5, <3>1
  <2>. QED  BY <2>1, <2>2
<1>12. ASSUME ~u.capped, NEW i \in DOMAIN b PROVE b[i] \in {Silence, u.first + i - 1}
  <2>1. i \in Nat /\ i <= Len(o) + g + Chunk /\ i > 0  BY <1>3, <1>5
  <2>2. CASE i <= Len(o)
    <3>1. b[i] = o[i] /\ o[i] \in {Silence, t.first + i - 1} /\ t.seen
      BY <1>1, <1>3, <1>4, <1>8, <1>12, <2>1, <2>2
    <3>. QED  BY <1>2, <3>1
  <2>3. CASE i > Len(o) /\ i <= Len(o) + g  BY <1>3, <2>1, <2>3
  <2>4. CASE i > Len(o) + g
    <3>1. b[i] = at + (i - Len(o) - g) - 1  BY <1>3, <2>1, <2>4
    <3>2. at - Len(o) - g = u.first
      <4>1. CASE t.seen  BY <1>1, <1>2, <1>3, <1>6, <1>7, <1>12, <4>1
      <4>2. CASE ~t.seen
        <5>1. g = 0 /\ Len(o) = 0 /\ u.first = at  BY <1>2, <1>4, <4>2
        <5>. QED  BY <1>1, <5>1
      <4>. QED  BY <4>1, <4>2
    <3>3. b[i] = u.first + i - 1  BY <1>1, <1>3, <2>1, <3>1, <3>2
    <3>. QED  BY <3>3
  <2>. QED  BY <1>3, <2>1, <2>2, <2>3, <2>4
<1>13. ASSUME NEW i \in DOMAIN b, NEW j \in DOMAIN b, i < j, b[i] # Silence, b[j] # Silence
       PROVE  b[i] < b[j]
  <2>1. /\ i \in Nat /\ i <= Len(o) + g + Chunk /\ i > 0
        /\ j \in Nat /\ j <= Len(o) + g + Chunk /\ j > 0
    BY <1>3, <1>5
  <2>2. CASE j <= Len(o)
    <3>1. b[i] = o[i] /\ b[j] = o[j] /\ i \in 1 .. Len(o) /\ j \in 1 .. Len(o)
      BY <1>3, <1>13, <2>1, <2>2
    <3>. QED  BY <1>9, <1>13, <3>1
  <2>3. CASE j > Len(o)
    <3>1. j > Len(o) + g /\ b[j] = at + (j - Len(o) - g) - 1  BY <1>3, <1>13, <2>1, <2>3
    <3>2. CASE i <= Len(o)
      <4>1. b[i] = o[i] /\ o[i] < end /\ o[i] \in Int /\ t.seen
        BY <1>1, <1>3, <1>4, <2>1, <3>2
      <4>2. at <= b[j] /\ b[j] \in Int  BY <1>1, <1>3, <2>1, <3>1
      <4>. QED  BY <1>1, <1>6, <4>1, <4>2
    <3>3. CASE i > Len(o)
      <4>1. b[i] = at + (i - Len(o) - g) - 1  BY <1>3, <1>13, <2>1, <3>3
      <4>. QED  BY <1>1, <1>3, <1>13, <2>1, <3>1, <4>1
    <3>. QED  BY <1>3, <2>1, <3>2, <3>3
  <2>. QED  BY <1>3, <2>1, <2>2, <2>3
<1>14. WrittenTo(b, u)
  BY <1>2, <1>10, <1>11, <1>12, <1>13, Zenon DEF WrittenTo
<1>. QED  BY <1>14 DEF b, u, at

(* What Accept asks for is the whole gap unless it is longer than          *)
(* maxGapFrames: numbers missing without a gap in the capture clock, the   *)
(* second branch, do not come from a sender that counts both.              *)
LEMMA GapFills ==
  ASSUME NEW t \in Tracker, NEW p \in Packet, t.seen, ~stale(t, p),
         PacketSlip(p) >= TrackerSlip(t)
  PROVE  /\ t.expectedCaptureFrame <= p.at
         /\ gapFrames(t, p) \in Nat
         /\ ~advanced(t, p).capped => gapFrames(t, p) = p.at - t.expectedCaptureFrame
<1>1. /\ p.seq \in Nat /\ p.at \in Nat /\ t.expectedSeq \in Nat /\ t.expectedCaptureFrame \in Nat
      /\ t.expectedSeq <= p.seq
  BY DEF Packet, Tracker, stale
<1>2. /\ t.expectedCaptureFrame <= p.at
      /\ t.expectedSeq < p.seq => t.expectedCaptureFrame + Chunk <= p.at
  <2>1. Slip(t.expectedSeq, t.expectedCaptureFrame) <= Slip(p.seq, p.at)
    <3>1. Slip(t.expectedSeq, t.expectedCaptureFrame) \in Int /\ Slip(p.seq, p.at) \in Int
      BY <1>1, StreamAssumption DEF Slip
    <3>. QED  BY <3>1 DEF PacketSlip, TrackerSlip
  <2>2. p.seq \in Int /\ p.at \in Int /\ t.expectedSeq \in Int /\ t.expectedCaptureFrame \in Int
    BY <1>1
  <2>. QED  BY <1>1, <2>1, <2>2, SlipAhead
<1>3. MaxGap \in Nat /\ Chunk \in Nat /\ Chunk > 0  BY StreamAssumption
<1>4. CASE p.at > t.expectedCaptureFrame
  <2>1. gapFrames(t, p) = capGapFrames(p.at - t.expectedCaptureFrame)  BY <1>4 DEF gapFrames
  <2>2. ~advanced(t, p).capped => ~(p.at - t.expectedCaptureFrame > MaxGap)  BY DEF advanced
  <2>. QED  BY <1>1, <1>2, <1>3, <2>1, <2>2 DEF capGapFrames
<1>5. CASE ~(p.at > t.expectedCaptureFrame)
  <2>1. p.at = t.expectedCaptureFrame /\ ~(p.seq > t.expectedSeq)  BY <1>1, <1>2, <1>3, <1>5
  <2>2. gapFrames(t, p) = 0  BY <1>5, <2>1 DEF gapFrames
  <2>. QED  BY <1>1, <1>2, <2>1, <2>2
<1>. QED  BY <1>4, <1>5

-----------------------------------------------------------------------------
(* Slips, numbers and positions are numbers. *)
SlipFacts ==
  /\ SenderSlip \in Int /\ sock \in Int /\ Aired \subseteq Packet
  /\ \A p \in Packet : /\ p.seq \in Nat /\ p.at \in Nat /\ p.src \in Sockets /\ p.src \in Int
                       /\ PacketSlip(p) \in Int
  /\ \A s \in Sockets : s \in Int /\ tracker[s] \in Tracker
  /\ \A t \in Tracker : t.expectedSeq \in Nat /\ t.expectedCaptureFrame \in Nat /\ TrackerSlip(t) \in Int

(* They are for every state of the right types. *)
LEMMA SlipTypes == StreamTypes => SlipFacts
<1>. SUFFICES ASSUME StreamTypes PROVE SlipFacts  OBVIOUS
<1>1. \A n, c \in Int : Slip(n, c) \in Int  BY StreamAssumption DEF Slip
<1>2. SenderSlip \in Int
  <2>1. seq \in Int /\ captureFrame - filled \in Int  BY StreamAssumption DEF StreamTypes
  <2>. QED  BY <1>1, <2>1 DEF SenderSlip
<1>3. sock \in Int /\ Aired \subseteq Packet  BY StreamAssumption DEF StreamTypes, Aired
<1>4. \A p \in Packet : /\ p.seq \in Nat /\ p.at \in Nat /\ p.src \in Sockets /\ p.src \in Int
                        /\ PacketSlip(p) \in Int
  BY <1>1, StreamAssumption DEF Packet, PacketSlip, Sockets
<1>5. \A s \in Sockets : s \in Int /\ tracker[s] \in Tracker
  BY StreamAssumption DEF StreamTypes, Sockets
<1>6. \A t \in Tracker : /\ t.expectedSeq \in Nat /\ t.expectedCaptureFrame \in Nat
                         /\ TrackerSlip(t) \in Int
  BY <1>1 DEF Tracker, TrackerSlip
<1>. QED  BY <1>2, <1>3, <1>4, <1>5, <1>6 DEF SlipFacts

(* A step that neither packs nor plays anything: the sender may have given *)
(* up its connection or made a new one.                                    *)
LEMMA QuietStep ==
  ASSUME StreamInv, StreamTypes', Aired' = Aired,
         UNCHANGED <<transport, tracker, out, seq>>,
         SenderSlip' >= SenderSlip, sock' >= sock, \A p \in net' : p.src <= sock',
         mode' = "send" => \/ mode = "send" /\ sock' = sock /\ SenderSlip' = SenderSlip
                           \/ sock' > sock
  PROVE  StreamInv'
<1>. USE DEF StreamInv
<1>1. /\ SenderSlip \in Int /\ Aired \subseteq Packet /\ sock \in Int
      /\ \A p \in Packet : p.src \in Int /\ p.seq \in Nat /\ PacketSlip(p) \in Int
      /\ \A s \in Sockets : tracker[s] \in Tracker
      /\ \A t \in Tracker : TrackerSlip(t) \in Int
  BY SlipTypes DEF SlipFacts
<1>2. SenderSlip' \in Int /\ sock' \in Int
  <2>1. SlipFacts'  BY SlipTypes, PTL
  <2>. QED  BY <2>1 DEF SlipFacts
<1>3. NetOrdered'
  BY <1>1, <1>2 DEF NetOrdered
<1>4. TrackersBehind'
  BY <1>1, <1>2 DEF TrackersBehind
<1>5. \A s, n : Waiting(s, n)' <=> Waiting(s, n)
  BY DEF Waiting
<1>6. \A p \in Aired : p.src <= sock
  BY DEF InTurn, Aired
<1>7. InTurn'
  <2>. SUFFICES ASSUME transport = "tcp" PROVE PacketsInTurn' /\ SenderInTurn' /\ TrackersInTurn'
    BY DEF InTurn
  <2>1. PacketsInTurn'
    BY <1>5 DEF InTurn, PacketsInTurn
  <2>2. SenderInTurn'
    <3>1. CASE mode = "send" /\ sock' = sock /\ SenderSlip' = SenderSlip
      BY <1>5, <3>1 DEF InTurn, SenderInTurn
    <3>2. CASE sock' > sock
      BY <1>1, <1>2, <1>6, <3>2 DEF SenderInTurn
    <3>. QED  BY <3>1, <3>2 DEF SenderInTurn
  <2>3. TrackersInTurn'
    <3>1. CASE mode = "send" /\ sock' = sock /\ SenderSlip' = SenderSlip
      BY <1>5, <3>1 DEF InTurn, TrackersInTurn
    <3>2. ASSUME NEW s \in Sockets, tracker[s].seen
          PROVE  /\ s <= sock /\ s \in Int
                 /\ \A p \in Aired : p.src = s =>
                      /\ p.seq >= tracker[s].expectedSeq /\ PacketSlip(p) = TrackerSlip(tracker[s])
                      /\ \A n \in tracker[s].expectedSeq .. p.seq : Waiting(s, n)
      BY <3>2 DEF InTurn, TrackersInTurn, Sockets
    <3>3. CASE sock' > sock
      <4>1. \A s \in Sockets : tracker[s].seen => s <= sock' /\ s # sock'
        BY <1>1, <1>2, <3>2, <3>3
      <4>. QED  BY <1>5, <3>2, <4>1 DEF TrackersInTurn
    <3>4. CASE mode' # "send"
      <4>1. \A s \in Sockets : tracker[s].seen => s <= sock'
        BY <1>1, <1>2, <3>2
      <4>. QED  BY <1>5, <3>2, <3>4, <4>1 DEF TrackersInTurn
    <3>. QED  BY <3>1, <3>3, <3>4
  <2>. QED  BY <2>1, <2>2, <2>3
<1>8. Written'
  BY DEF Written, WrittenTo
<1>. QED  BY <1>3, <1>4, <1>7, <1>8

(* A number and its audio are used up, and nothing of it travels: a UDP    *)
(* datagram was lost or refused, or the TCP connection broke.              *)
LEMMA UsedUpStep ==
  ASSUME StreamInv, StreamTypes',
         UNCHANGED <<transport, tracker, out, sock>>,
         seq' = seq + 1, SenderSlip' = SenderSlip,
         \/ transport = "udp" /\ net' = net
         \/ net' = {} /\ mode' # "send"
  PROVE  StreamInv'
<1>. USE DEF StreamInv
<1>1. /\ SenderSlip \in Int /\ Aired \subseteq Packet /\ seq \in Nat
      /\ \A p \in Packet : p.seq \in Nat /\ PacketSlip(p) \in Int
      /\ \A s \in Sockets : tracker[s] \in Tracker
      /\ \A t \in Tracker : t.expectedSeq \in Nat /\ TrackerSlip(t) \in Int
  BY SlipTypes DEF SlipFacts, StreamTypes
<1>2. Aired' \subseteq Aired /\ net' \subseteq net  BY DEF Aired
<1>3. NetOrdered'
  BY <1>1, <1>2 DEF NetOrdered
<1>4. TrackersBehind'
  BY <1>1, <1>2 DEF TrackersBehind
<1>5. InTurn'
  <2>1. \A p \in net' : p.src <= sock'  BY <1>2 DEF InTurn
  <2>2. ASSUME transport = "tcp" PROVE PacketsInTurn' /\ SenderInTurn' /\ TrackersInTurn'
    <3>1. Aired' = {} /\ mode' # "send"  BY <2>2 DEF Aired
    <3>. QED  BY <2>2, <3>1 DEF PacketsInTurn, SenderInTurn, TrackersInTurn, InTurn
  <2>. QED  BY <2>1, <2>2 DEF InTurn
<1>6. Written'
  BY DEF Written, WrittenTo
<1>. QED  BY <1>3, <1>4, <1>5, <1>6

(* A packet goes out on the present connection. *)
LEMMA SentStep ==
  ASSUME StreamInv, StreamTypes', mode = "send",
         UNCHANGED <<transport, tracker, out, sock, mode>>,
         seq' = seq + 1, SenderSlip' = SenderSlip,
         net' = net \cup {Audio(sock, seq, captureFrame - filled)}
  PROVE  StreamInv'
<1>. USE DEF StreamInv
<1>. DEFINE new == Audio(sock, seq, captureFrame - filled)
<1>1. /\ SenderSlip \in Int /\ Aired \subseteq Packet /\ seq \in Nat /\ sock \in Int
      /\ \A p \in Packet : p.seq \in Nat /\ p.src \in Int /\ PacketSlip(p) \in Int
      /\ \A s \in Sockets : tracker[s] \in Tracker
      /\ \A t \in Tracker : t.expectedSeq \in Nat /\ TrackerSlip(t) \in Int
  BY SlipTypes DEF SlipFacts, StreamTypes
<1>2. /\ new.kind = "audio" /\ new.src = sock /\ new.seq = seq /\ PacketSlip(new) = SenderSlip
      /\ net' = net \cup {new}
  BY DEF Audio, PacketSlip, SenderSlip
<1>. HIDE DEF new
<1>3. Aired' = Aired \cup {new}  BY <1>2 DEF Aired
<1>4. \A p \in Aired : p.seq < seq /\ PacketSlip(p) <= SenderSlip  BY DEF NetOrdered
<1>5. NetOrdered'
  <2>1. \A p \in Aired' : p.seq < seq' /\ PacketSlip(p) <= SenderSlip'
    BY <1>1, <1>2, <1>3, <1>4
  <2>2. ASSUME NEW p \in Aired', NEW q \in Aired', p.seq < q.seq
        PROVE  PacketSlip(p) <= PacketSlip(q)
    <3>1. CASE p \in Aired /\ q \in Aired  BY <2>2, <3>1 DEF NetOrdered
    <3>2. CASE p = new
      <4>1. q \in Aired \/ q = new  BY <1>3
      <4>. QED  BY <1>1, <1>2, <1>4, <2>2, <3>2, <4>1
    <3>3. CASE q = new /\ p \in Aired  BY <1>2, <1>4, <3>3
    <3>. QED  BY <1>3, <3>1, <3>2, <3>3
  <2>. QED  BY <2>1, <2>2 DEF NetOrdered
<1>6. TrackersBehind'
  BY <1>1, <1>2, <1>3 DEF TrackersBehind
<1>7. InTurn'
  <2>1. \A p \in net' : p.src <= sock'  BY <1>1, <1>2 DEF InTurn
  <2>. SUFFICES ASSUME transport = "tcp" PROVE PacketsInTurn' /\ SenderInTurn' /\ TrackersInTurn'
    BY <2>1 DEF InTurn
  <2>. DEFINE Stays(s, n) == \E p \in Aired' : p.src = s /\ p.seq = n
  <2>2. \A s, n : Waiting(s, n)' <=> Stays(s, n)  BY DEF Waiting
  <2>3. \A s, n : Waiting(s, n) => Stays(s, n)
    BY <1>3 DEF Waiting
  <2>4. Stays(sock, seq)  BY <1>2, <1>3
  <2>. HIDE DEF Stays
  <2>5. \A p \in Aired : p.src = sock =>
          PacketSlip(p) = SenderSlip /\ \A n \in p.seq .. seq : Stays(sock, n)
    <3>. SUFFICES ASSUME NEW p \in Aired, p.src = sock
                  PROVE  PacketSlip(p) = SenderSlip /\ \A n \in p.seq .. seq : Stays(sock, n)
      OBVIOUS
    <3>1. PacketSlip(p) = SenderSlip /\ \A n \in p.seq .. seq - 1 : Waiting(sock, n)
      BY DEF InTurn, SenderInTurn
    <3>2. \A n \in p.seq .. seq : n \in p.seq .. seq - 1 \/ n = seq  BY <1>1
    <3>. QED  BY <2>3, <2>4, <3>1, <3>2
  <2>6. PacketsInTurn'
    <3>. SUFFICES ASSUME NEW p \in Aired', NEW q \in Aired', p.src = q.src
                  PROVE  PacketSlip(p) = PacketSlip(q) /\ \A n \in p.seq .. q.seq : Stays(p.src, n)
      BY <2>2 DEF PacketsInTurn
    <3>1. CASE p \in Aired /\ q \in Aired  BY <2>3, <3>1 DEF InTurn, PacketsInTurn
    <3>2. CASE p = new /\ q = new
      <4>1. \A n \in seq .. seq : n = seq  BY <1>1
      <4>. QED  BY <1>2, <2>4, <3>2, <4>1
    <3>3. CASE p = new /\ q \in Aired
      <4>1. q.seq < seq /\ q.seq \in Nat  BY <1>1, <1>4, <3>3
      <4>2. \A n \in seq .. q.seq : FALSE  BY <1>1, <4>1
      <4>. QED  BY <1>2, <2>5, <3>3, <4>2
    <3>4. CASE p \in Aired /\ q = new  BY <1>2, <2>5, <3>4
    <3>. QED  BY <1>3, <3>1, <3>2, <3>3, <3>4
  <2>7. SenderInTurn'
    <3>1. seq' - 1 = seq  BY <1>1
    <3>2. \A n \in seq .. seq : n = seq  BY <1>1
    <3>. QED  BY <1>2, <1>3, <2>2, <2>4, <2>5, <3>1, <3>2 DEF SenderInTurn
  <2>8. TrackersInTurn'
    <3>. SUFFICES ASSUME NEW s \in Sockets, tracker[s].seen
                  PROVE  /\ s <= sock
                         /\ \A p \in Aired' : p.src = s =>
                              /\ p.seq >= tracker[s].expectedSeq
                              /\ PacketSlip(p) = TrackerSlip(tracker[s])
                              /\ \A n \in tracker[s].expectedSeq .. p.seq : Stays(s, n)
                         /\ s = sock => /\ TrackerSlip(tracker[s]) = SenderSlip
                                       /\ \A n \in tracker[s].expectedSeq .. seq' - 1 : Stays(s, n)
      BY <2>2 DEF TrackersInTurn
    <3>. DEFINE t == tracker[s]
    <3>1. /\ s <= sock
          /\ \A p \in Aired : p.src = s =>
               /\ p.seq >= t.expectedSeq /\ PacketSlip(p) = TrackerSlip(t)
               /\ \A n \in t.expectedSeq .. p.seq : Waiting(s, n)
      BY DEF InTurn, TrackersInTurn
    <3>2. s = sock => /\ TrackerSlip(t) = SenderSlip
                      /\ \A n \in t.expectedSeq .. seq - 1 : Waiting(s, n)
      BY DEF InTurn, TrackersInTurn
    <3>3. t.expectedSeq <= seq /\ t.expectedSeq \in Nat  BY <1>1 DEF TrackersBehind
    <3>4. s = sock => \A n \in t.expectedSeq .. seq : Stays(s, n)
      <4>1. \A n \in t.expectedSeq .. seq : n \in t.expectedSeq .. seq - 1 \/ n = seq  BY <1>1, <3>3
      <4>. QED  BY <2>3, <2>4, <3>2, <4>1
    <3>5. seq' - 1 = seq  BY <1>1
    <3>6. ASSUME NEW p \in Aired', p.src = s
          PROVE  /\ p.seq >= t.expectedSeq /\ PacketSlip(p) = TrackerSlip(t)
                 /\ \A n \in t.expectedSeq .. p.seq : Stays(s, n)
      <4>1. CASE p \in Aired  BY <2>3, <3>1, <3>6, <4>1
      <4>2. CASE p = new
        <5>1. s = sock /\ p.seq = seq /\ PacketSlip(p) = SenderSlip  BY <1>2, <3>6, <4>2
        <5>. QED  BY <1>1, <3>2, <3>3, <3>4, <5>1
      <4>. QED  BY <1>3, <4>1, <4>2
    <3>. QED  BY <3>1, <3>2, <3>4, <3>5, <3>6
  <2>. QED  BY <2>6, <2>7, <2>8
<1>8. Written'
  BY DEF Written, WrittenTo
<1>. QED  BY <1>5, <1>6, <1>7, <1>8

(* A TCP connection delivers the packet with the smallest number: what     *)
(* stays behind it is as complete as before.                               *)
LEMMA TakenInTurn ==
  ASSUME StreamInv, transport = "tcp", NEW p \in Aired, deliverable(p), net' = net \ {p},
         UNCHANGED sender
  PROVE  /\ PacketsInTurn' /\ SenderInTurn'
         /\ \A q \in Aired : q.src = p.src => q = p \/ q.seq > p.seq
         /\ \A s : \A n \in Nat : Waiting(s, n) /\ (s # p.src \/ n > p.seq) => Waiting(s, n)'
<1>. USE DEF StreamInv
<1>1. /\ p \in Packet /\ Aired \subseteq Packet
      /\ \A q \in Packet : q.seq \in Nat /\ PacketSlip(q) \in Int
  BY SlipTypes DEF SlipFacts
<1>2. seq \in Nat /\ seq' = seq /\ sock' = sock /\ mode' = mode /\ SenderSlip' = SenderSlip
  BY DEF StreamTypes, sender, SenderSlip
<1>3. Aired' = Aired \ {p}  BY DEF Aired
<1>4. \A q \in Aired : q.src = p.src => q = p \/ q.seq > p.seq
  BY DEF deliverable, Aired
<1>. DEFINE Stays(s, n) == \E q \in Aired' : q.src = s /\ q.seq = n
<1>5. \A s, n : Waiting(s, n)' <=> Stays(s, n)  BY DEF Waiting
<1>6. \A s : \A n \in Nat : Waiting(s, n) /\ (s # p.src \/ n > p.seq) => Stays(s, n)
  BY <1>1, <1>3 DEF Waiting
<1>. HIDE DEF Stays
<1>7. ASSUME NEW q \in Aired', NEW n \in Int, n >= q.seq, Waiting(q.src, n)
      PROVE  Stays(q.src, n)
  <2>1. q \in Aired /\ q # p /\ q.seq \in Nat /\ p.seq \in Nat  BY <1>1, <1>3
  <2>2. n \in Nat  BY <1>7, <2>1
  <2>3. q.src = p.src => n > p.seq  BY <1>4, <1>7, <2>1
  <2>. QED  BY <1>6, <1>7, <2>2, <2>3
<1>8. PacketsInTurn'
  <2>. SUFFICES ASSUME NEW q \in Aired', NEW r \in Aired', q.src = r.src
                PROVE  PacketSlip(q) = PacketSlip(r) /\ \A n \in q.seq .. r.seq : Stays(q.src, n)
    BY <1>5 DEF PacketsInTurn
  <2>1. q \in Aired /\ r \in Aired  BY <1>3
  <2>2. PacketSlip(q) = PacketSlip(r) /\ \A n \in q.seq .. r.seq : Waiting(q.src, n)
    BY <2>1 DEF InTurn, PacketsInTurn
  <2>3. \A n \in q.seq .. r.seq : n \in Int /\ n >= q.seq  BY <1>1, <2>1
  <2>. QED  BY <1>7, <2>2, <2>3
<1>9. SenderInTurn'
  <2>. SUFFICES ASSUME mode = "send", NEW q \in Aired', q.src = sock
                PROVE  PacketSlip(q) = SenderSlip /\ \A n \in q.seq .. seq - 1 : Stays(sock, n)
    BY <1>2, <1>5 DEF SenderInTurn
  <2>1. q \in Aired  BY <1>3
  <2>2. PacketSlip(q) = SenderSlip /\ \A n \in q.seq .. seq - 1 : Waiting(sock, n)
    BY <2>1 DEF InTurn, SenderInTurn
  <2>3. \A n \in q.seq .. seq - 1 : n \in Int /\ n >= q.seq  BY <1>1, <1>2, <2>1
  <2>. QED  BY <1>7, <2>2, <2>3
<1>. QED  BY <1>4, <1>5, <1>6, <1>8, <1>9

(* Audio of an unknown source, and stale audio, goes nowhere.              *)
LEMMA DroppedStep ==
  ASSUME StreamInv, StreamTypes', NEW p \in Aired, deliverable(p), taken(p),
         p.src \notin known \/ stale(tracker[p.src], p),
         UNCHANGED <<transport, sender, known, tracker, out>>
  PROVE  StreamInv'
<1>. USE DEF StreamInv
<1>1. /\ seq' = seq /\ sock' = sock /\ mode' = mode /\ SenderSlip' = SenderSlip
      /\ transport' = transport /\ tracker' = tracker /\ out' = out /\ known' = known
  BY DEF sender, SenderSlip
<1>2. Aired' \subseteq Aired /\ net' \subseteq net  BY DEF Aired, taken
<1>3. NetOrdered'  BY <1>1, <1>2 DEF NetOrdered
<1>4. TrackersBehind'  BY <1>1, <1>2 DEF TrackersBehind
<1>5. Written'  BY <1>1 DEF Written, WrittenTo
<1>6. InTurn'
  <2>1. \A q \in net' : q.src <= sock'  BY <1>1, <1>2 DEF InTurn
  <2>. SUFFICES ASSUME transport = "tcp" PROVE PacketsInTurn' /\ SenderInTurn' /\ TrackersInTurn'
    BY <1>1, <2>1 DEF InTurn
  <2>2. net' = net \ {p}  BY DEF taken
  <2>3. Aired' = Aired \ {p}  BY <2>2 DEF Aired
  <2>4. /\ PacketsInTurn' /\ SenderInTurn'
        /\ \A s : \A n \in Nat : Waiting(s, n) /\ (s # p.src \/ n > p.seq) => Waiting(s, n)'
    BY <2>2, TakenInTurn
  <2>5. p.src \in Sockets /\ \A s \in Sockets : tracker[s] \in Tracker /\ s \in Int
    BY SlipTypes DEF SlipFacts
  <2>6. ~tracker[p.src].seen
    <3>. SUFFICES ASSUME tracker[p.src].seen PROVE FALSE  OBVIOUS
    <3>1. p.src \in known  BY <2>5 DEF StreamTypes
    <3>2. p.seq >= tracker[p.src].expectedSeq  BY <2>5 DEF InTurn, TrackersInTurn
    <3>3. p.seq \in Nat /\ tracker[p.src].expectedSeq \in Nat  BY <2>5, SlipTypes DEF SlipFacts
    <3>. QED  BY <3>1, <3>2, <3>3 DEF stale
  <2>7. TrackersInTurn'
    <3>. SUFFICES ASSUME NEW s \in Sockets, tracker[s].seen
                  PROVE  /\ s <= sock
                         /\ \A q \in Aired' : q.src = s =>
                              /\ q.seq >= tracker[s].expectedSeq
                              /\ PacketSlip(q) = TrackerSlip(tracker[s])
                              /\ \A n \in tracker[s].expectedSeq .. q.seq : Waiting(s, n)'
                         /\ s = sock /\ mode = "send" =>
                              /\ TrackerSlip(tracker[s]) = SenderSlip
                              /\ \A n \in tracker[s].expectedSeq .. seq - 1 : Waiting(s, n)'
      BY <1>1 DEF TrackersInTurn
    <3>1. s # p.src  BY <2>6
    <3>2. /\ s <= sock
          /\ \A q \in Aired : q.src = s =>
               /\ q.seq >= tracker[s].expectedSeq /\ PacketSlip(q) = TrackerSlip(tracker[s])
               /\ \A n \in tracker[s].expectedSeq .. q.seq : Waiting(s, n)
          /\ s = sock /\ mode = "send" =>
               /\ TrackerSlip(tracker[s]) = SenderSlip
               /\ \A n \in tracker[s].expectedSeq .. seq - 1 : Waiting(s, n)
      BY DEF InTurn, TrackersInTurn
    <3>3. tracker[s].expectedSeq \in Nat  BY <2>5, SlipTypes DEF SlipFacts
    <3>4. \A m \in Int : \A n \in tracker[s].expectedSeq .. m : Waiting(s, n) => Waiting(s, n)'
      BY <2>4, <3>1, <3>3
    <3>5. seq - 1 \in Int /\ \A q \in Aired : q.seq \in Int
      BY SlipTypes DEF SlipFacts, StreamTypes
    <3>. QED  BY <2>3, <3>2, <3>4, <3>5
  <2>. QED  BY <2>4, <2>7
<1>. QED  BY <1>3, <1>4, <1>5, <1>6

(* A source is forgotten, and its tracker with it. *)
LEMMA ForgetStep ==
  ASSUME StreamInv, StreamTypes', NEW s \in Sockets, Forget(s)
  PROVE  StreamInv'
<1>. USE DEF StreamInv
<1>1. /\ seq' = seq /\ sock' = sock /\ mode' = mode /\ SenderSlip' = SenderSlip
      /\ transport' = transport /\ net' = net
      /\ tracker' = [tracker EXCEPT ![s] = NoTracker] /\ out' = [out EXCEPT ![s] = <<>>]
  BY DEF Forget, forgetTracker, sender, SenderSlip
<1>2. /\ \A r \in Sockets : tracker'[r].seen => r # s /\ tracker'[r] = tracker[r] /\ tracker[r].seen
      /\ \A r \in Sockets : \/ r # s /\ tracker'[r] = tracker[r] /\ out'[r] = out[r]
                            \/ tracker'[r] = NoTracker /\ out'[r] = <<>>
  <2>1. tracker \in [Sockets -> Tracker] /\ out \in [Sockets -> Seq(Int)]  BY DEF StreamTypes
  <2>2. ~NoTracker.seen  BY DEF NoTracker
  <2>3. \A r \in Sockets : IF r = s THEN tracker'[r] = NoTracker /\ out'[r] = <<>>
                           ELSE tracker'[r] = tracker[r] /\ out'[r] = out[r]
    BY <1>1, <2>1
  <2>. QED  BY <2>2, <2>3, Zenon
<1>3. Aired' = Aired  BY <1>1 DEF Aired
<1>4. NetOrdered'  BY <1>1, <1>3 DEF NetOrdered
<1>5. TrackersBehind'
  BY <1>1, <1>2, <1>3 DEF TrackersBehind
<1>6. InTurn'
  <2>1. \A r, n : Waiting(r, n)' <=> Waiting(r, n)  BY <1>3 DEF Waiting
  <2>2. transport = "tcp" => PacketsInTurn' /\ SenderInTurn'
    BY <1>1, <1>3, <2>1 DEF InTurn, PacketsInTurn, SenderInTurn
  <2>3. transport = "tcp" => TrackersInTurn'
    BY <1>1, <1>2, <1>3, <2>1 DEF InTurn, TrackersInTurn
  <2>. QED  BY <1>1, <2>2, <2>3 DEF InTurn
<1>7. Written'
  <2>1. WrittenTo(<<>>, NoTracker)
    <3>1. Len(<<>>) = 0 /\ DOMAIN <<>> = {}  OBVIOUS
    <3>. QED  BY <3>1 DEF WrittenTo, NoTracker
  <2>. QED  BY <1>2, <2>1 DEF Written
<1>. QED  BY <1>4, <1>5, <1>6, <1>7

(* The next packet of a TCP connection begins where its stream stands.     *)
LEMMA ExactlyNext ==
  ASSUME StreamInv, transport = "tcp", NEW p \in Aired, deliverable(p), tracker[p.src].seen
  PROVE  p.at = tracker[p.src].expectedCaptureFrame
<1>. USE DEF StreamInv
<1>. DEFINE t == tracker[p.src]
<1>1. /\ p.seq \in Nat /\ p.at \in Nat /\ p.src \in Sockets
      /\ t.expectedSeq \in Nat /\ t.expectedCaptureFrame \in Nat
      /\ \A q \in Aired : q.seq \in Nat
  BY SlipTypes DEF SlipFacts
<1>2. /\ p.seq >= t.expectedSeq /\ PacketSlip(p) = TrackerSlip(t)
      /\ \A n \in t.expectedSeq .. p.seq : Waiting(p.src, n)
  BY <1>1 DEF InTurn, TrackersInTurn
<1>3. PICK q \in Aired : q.src = p.src /\ q.seq = t.expectedSeq
  BY <1>1, <1>2 DEF Waiting
<1>4. q = p \/ q.seq > p.seq  BY <1>3 DEF deliverable, Aired
<1>5. p.seq = t.expectedSeq  BY <1>1, <1>2, <1>3, <1>4
<1>6. Slip(t.expectedSeq, t.expectedCaptureFrame) = Slip(p.seq, p.at)
  BY <1>2 DEF PacketSlip, TrackerSlip
<1>7. Chunk * p.seq \in Int  BY <1>1, StreamAssumption
<1>. HIDE DEF t
<1>8. t.expectedCaptureFrame - Chunk * p.seq = p.at - Chunk * p.seq  BY <1>5, <1>6 DEF Slip
<1>9. p.at = t.expectedCaptureFrame  BY <1>1, <1>7, <1>8
<1>. QED  BY <1>9 DEF t

(* Audio is written to its stream, behind the silence Accept asks for.     *)
LEMMA PlayedStep ==
  ASSUME StreamInv, StreamTypes', NEW p \in Aired, deliverable(p), taken(p),
         ~stale(tracker[p.src], p), NEW g,
         g = IF tracker[p.src].seen /\ transport = "udp" THEN gapFrames(tracker[p.src], p) ELSE 0,
         tracker' = [tracker EXCEPT ![p.src] = advanced(tracker[p.src], p)],
         out' = [out EXCEPT ![p.src] = Appended(out[p.src], g, p.at)],
         UNCHANGED <<transport, sender, known>>
  PROVE  StreamInv'
<1>. USE DEF StreamInv
<1>. DEFINE src == p.src
            t == tracker[src]
            u == advanced(t, p)
<1>1. /\ seq' = seq /\ sock' = sock /\ mode' = mode /\ SenderSlip' = SenderSlip
      /\ transport' = transport /\ known' = known
  BY DEF sender, SenderSlip
<1>2. Aired' \subseteq Aired /\ net' \subseteq net  BY DEF Aired, taken
<1>3. /\ src \in Sockets /\ src \in Int /\ p \in Packet /\ t \in Tracker
      /\ p.seq \in Nat /\ p.at \in Nat /\ t.expectedSeq \in Nat /\ t.expectedCaptureFrame \in Nat
      /\ PacketSlip(p) \in Int /\ TrackerSlip(t) \in Int /\ SenderSlip \in Int
      /\ \A q \in Aired : q.seq \in Nat /\ PacketSlip(q) \in Int
      /\ \A s \in Sockets : tracker[s] \in Tracker
  BY SlipTypes DEF SlipFacts
<1>4. u.seen = TRUE /\ u.expectedSeq = p.seq + 1 /\ TrackerSlip(u) = PacketSlip(p)
  <2>1. Slip(p.seq + 1, p.at + Chunk) = Slip(p.seq, p.at)  BY <1>3, SlipNext
  <2>. QED  BY <2>1 DEF advanced, TrackerSlip, PacketSlip
<1>5. \A s \in Sockets : IF s = src THEN tracker'[s] = u /\ out'[s] = Appended(out[s], g, p.at)
                         ELSE tracker'[s] = tracker[s] /\ out'[s] = out[s]
  BY <1>3 DEF StreamTypes
<1>6. t.seen => PacketSlip(p) >= TrackerSlip(t)
  <2>1. t.seen => p.seq >= t.expectedSeq  BY <1>3 DEF stale
  <2>. QED  BY <1>3, <2>1 DEF TrackersBehind
<1>7. WrittenTo(Appended(out[src], g, p.at), u)
  <2>1. WrittenTo(out[src], t) /\ out[src] \in Seq(Int)  BY <1>3 DEF Written, StreamTypes
  <2>2. CASE ~t.seen  BY <1>3, <2>1, <2>2, AppendKeepsWritten
  <2>3. CASE t.seen /\ transport = "udp"
    <3>1. g = gapFrames(t, p)  BY <2>3
    <3>2. /\ t.expectedCaptureFrame <= p.at /\ g \in Nat
          /\ ~u.capped => g = p.at - t.expectedCaptureFrame
      BY <1>3, <1>6, <2>3, <3>1, GapFills
    <3>. QED  BY <1>3, <2>1, <2>3, <3>2, AppendKeepsWritten
  <2>4. CASE t.seen /\ transport = "tcp"
    <3>1. g = 0 /\ p.at = t.expectedCaptureFrame  BY <2>4, ExactlyNext
    <3>2. t.expectedCaptureFrame <= p.at /\ g = p.at - t.expectedCaptureFrame /\ g \in Nat
      BY <1>3, <3>1
    <3>. QED  BY <1>3, <2>1, <2>4, <3>2, AppendKeepsWritten
  <2>. QED  BY <2>2, <2>3, <2>4 DEF StreamTypes
<1>. HIDE DEF src, t, u
<1>8. Written'
  <2>. SUFFICES ASSUME NEW s \in Sockets PROVE WrittenTo(out'[s], tracker'[s])  BY DEF Written
  <2>1. CASE s = src  BY <1>5, <1>7, <2>1
  <2>2. CASE s # src  BY <1>5, <2>2 DEF Written
  <2>. QED  BY <2>1, <2>2
<1>9. NetOrdered'  BY <1>1, <1>2 DEF NetOrdered
<1>10. TrackersBehind'
  <2>. SUFFICES ASSUME NEW s \in Sockets, tracker'[s].seen
                PROVE  /\ tracker'[s].expectedSeq <= seq /\ TrackerSlip(tracker'[s]) <= SenderSlip
                       /\ \A q \in Aired : q.seq >= tracker'[s].expectedSeq =>
                            PacketSlip(q) >= TrackerSlip(tracker'[s])
    BY <1>1, <1>2 DEF TrackersBehind
  <2>1. CASE s # src  BY <1>5, <2>1 DEF TrackersBehind
  <2>2. CASE s = src
    <3>1. tracker'[s].expectedSeq = p.seq + 1 /\ TrackerSlip(tracker'[s]) = PacketSlip(p)
      BY <1>4, <1>5, <2>2
    <3>2. p.seq < seq /\ PacketSlip(p) <= SenderSlip /\ seq \in Nat  BY DEF NetOrdered, StreamTypes
    <3>3. \A q \in Aired : q.seq >= p.seq + 1 => PacketSlip(q) >= PacketSlip(p)
      BY <1>3 DEF NetOrdered
    <3>. QED  BY <1>3, <3>1, <3>2, <3>3
  <2>. QED  BY <2>1, <2>2
<1>11. InTurn'
  <2>1. \A q \in net' : q.src <= sock'  BY <1>1, <1>2 DEF InTurn
  <2>. SUFFICES ASSUME transport = "tcp" PROVE PacketsInTurn' /\ SenderInTurn' /\ TrackersInTurn'
    BY <1>1, <2>1 DEF InTurn
  <2>2. net' = net \ {p}  BY DEF taken
  <2>3. Aired' = Aired \ {p}  BY <2>2 DEF Aired
  <2>4. /\ PacketsInTurn' /\ SenderInTurn'
        /\ \A q \in Aired : q.src = src => q = p \/ q.seq > p.seq
        /\ \A s : \A n \in Nat : Waiting(s, n) /\ (s # src \/ n > p.seq) => Waiting(s, n)'
    BY <2>2, TakenInTurn DEF src
  <2>. SUFFICES ASSUME NEW s \in Sockets, tracker'[s].seen
                PROVE  /\ s <= sock
                       /\ \A q \in Aired' : q.src = s =>
                            /\ q.seq >= tracker'[s].expectedSeq
                            /\ PacketSlip(q) = TrackerSlip(tracker'[s])
                            /\ \A n \in tracker'[s].expectedSeq .. q.seq : Waiting(s, n)'
                       /\ s = sock /\ mode = "send" =>
                            /\ TrackerSlip(tracker'[s]) = SenderSlip
                            /\ \A n \in tracker'[s].expectedSeq .. seq - 1 : Waiting(s, n)'
    BY <1>1, <2>4 DEF TrackersInTurn
  <2>5. seq - 1 \in Int  BY DEF StreamTypes
  <2>6. CASE s # src
    <3>1. tracker'[s] = tracker[s]  BY <1>5, <2>6
    <3>2. /\ s <= sock
          /\ \A q \in Aired : q.src = s =>
               /\ q.seq >= tracker[s].expectedSeq /\ PacketSlip(q) = TrackerSlip(tracker[s])
               /\ \A n \in tracker[s].expectedSeq .. q.seq : Waiting(s, n)
          /\ s = sock /\ mode = "send" =>
               /\ TrackerSlip(tracker[s]) = SenderSlip
               /\ \A n \in tracker[s].expectedSeq .. seq - 1 : Waiting(s, n)
      BY <3>1 DEF InTurn, TrackersInTurn
    <3>3. tracker[s].expectedSeq \in Nat  BY SlipTypes DEF SlipFacts
    <3>4. \A m \in Int : \A n \in tracker[s].expectedSeq .. m : Waiting(s, n) => Waiting(s, n)'
      BY <2>4, <2>6, <3>3
    <3>. QED  BY <1>3, <2>3, <2>5, <3>1, <3>2, <3>4
  <2>7. CASE s = src
    <3>1. tracker'[s].expectedSeq = p.seq + 1 /\ TrackerSlip(tracker'[s]) = PacketSlip(p)
      BY <1>4, <1>5, <2>7
    <3>2. s <= sock  BY <2>7 DEF InTurn, Aired, src
    <3>3. \A m \in Int : \A n \in p.seq + 1 .. m : n \in p.seq .. m /\ n \in Nat /\ n > p.seq
      BY <1>3
    <3>4. ASSUME NEW q \in Aired', q.src = s
          PROVE  /\ q.seq >= p.seq + 1 /\ PacketSlip(q) = PacketSlip(p)
                 /\ \A n \in p.seq + 1 .. q.seq : Waiting(s, n)'
      <4>1. q \in Aired /\ q # p /\ q.src = src /\ p.src = src  BY <2>3, <2>7, <3>4 DEF src
      <4>2. q.seq > p.seq /\ q.seq \in Int  BY <1>3, <2>4, <4>1
      <4>3. PacketSlip(p) = PacketSlip(q) /\ \A n \in p.seq .. q.seq : Waiting(src, n)
        BY <4>1 DEF InTurn, PacketsInTurn
      <4>. QED  BY <1>3, <2>4, <2>7, <3>3, <4>2, <4>3
    <3>5. ASSUME s = sock, mode = "send"
          PROVE  PacketSlip(p) = SenderSlip /\ \A n \in p.seq + 1 .. seq - 1 : Waiting(s, n)'
      <4>1. p.src = sock  BY <2>7, <3>5 DEF src
      <4>2. PacketSlip(p) = SenderSlip /\ \A n \in p.seq .. seq - 1 : Waiting(s, n)
        BY <3>5, <4>1 DEF InTurn, SenderInTurn
      <4>. QED  BY <2>4, <2>5, <2>7, <3>3, <4>2
    <3>. QED  BY <3>1, <3>2, <3>4, <3>5
  <2>. QED  BY <2>6, <2>7
<1>. QED  BY <1>8, <1>9, <1>10, <1>11

-----------------------------------------------------------------------------
(* The silence asked for is a number of frames. *)
LEMMA GapIsNat ==
  ASSUME NEW t \in Tracker, NEW p \in Packet
  PROVE  gapFrames(t, p) \in Nat
<1>1. p.seq \in Nat /\ p.at \in Nat /\ t.expectedSeq \in Nat /\ t.expectedCaptureFrame \in Nat
  BY DEF Packet, Tracker
<1>2. MaxGap \in Nat /\ Chunk \in Nat  BY StreamAssumption
<1>3. \A k \in Nat : capGapFrames(k) \in Nat  BY <1>2 DEF capGapFrames
<1>4. p.at > t.expectedCaptureFrame => p.at - t.expectedCaptureFrame \in Nat  BY <1>1
<1>5. p.seq > t.expectedSeq => (p.seq - t.expectedSeq) * Chunk \in Nat
  <2>1. p.seq > t.expectedSeq => p.seq - t.expectedSeq \in Nat  BY <1>1
  <2>2. \A k \in Nat : k * Chunk \in Nat  BY <1>2
  <2>. QED  BY <2>1, <2>2
<1>. QED  BY <1>3, <1>4, <1>5 DEF gapFrames

(* The packets the sender makes. *)
LEMMA SentPackets ==
  ASSUME StreamTypes
  PROVE  /\ sock < MaxSockets => Greeting(sock + 1) \in Packet
         /\ mode = "send" => /\ Greeting(sock) \in Packet
                             /\ Audio(sock, seq, captureFrame - filled) \in Packet
<1>1. /\ sock \in Nat /\ sock <= MaxSockets /\ MaxSockets \in Nat /\ (mode = "send" => sock # 0)
      /\ seq \in Nat /\ captureFrame - filled \in Nat
  BY StreamAssumption DEF StreamTypes
<1>2. sock < MaxSockets => sock + 1 \in Sockets  BY <1>1 DEF Sockets
<1>3. mode = "send" => sock \in Sockets  BY <1>1 DEF Sockets
<1>. QED  BY <1>1, <1>2, <1>3 DEF Greeting, Audio, Packet

(* Every step keeps the types. *)
LEMMA NextStreamTypes == StreamTypes /\ [StreamNext]_streamVars => StreamTypes'
<1>. SUFFICES ASSUME StreamTypes, [StreamNext]_streamVars PROVE StreamTypes'  OBVIOUS
<1>. USE DEF StreamTypes
<1>1. /\ Chunk \in Nat /\ Chunk > 0 /\ MaxSockets \in Nat
      /\ seq \in Nat /\ captureFrame \in Nat /\ filled \in Nat /\ sock \in Nat
  BY StreamAssumption
<1>2. CASE DialFails
  BY <1>2 DEF DialFails, attemptFails, receiver
<1>3. CASE Dial
  <2>1. net' \subseteq Packet  BY <1>3, SentPackets DEF Dial, transmit
  <2>2. sock' \in 0 .. MaxSockets /\ sock' # 0 /\ filled' \in 0 .. Chunk - 1 /\ filled' <= captureFrame
    BY <1>1, <1>3 DEF Dial
  <2>. QED  BY <1>3, <2>1, <2>2 DEF Dial, receiver
<1>4. CASE helloTick
  <2>1. net' \subseteq Packet  BY <1>4, SentPackets DEF helloTick, transmit
  <2>. QED  BY <1>4, <2>1 DEF helloTick, attemptFails, sender, receiver
<1>5. CASE Wake  BY <1>5 DEF Wake, receiver
<1>6. CASE Stop  BY <1>6 DEF Stop, receiver
<1>7. ASSUME NEW n \in 1 .. Chunk, ReadCapture(n) PROVE StreamTypes'
  <2>1. net' \subseteq Packet
    BY <1>7, SentPackets DEF ReadCapture, transmit, broken
  <2>2. seq' \in Nat /\ captureFrame' \in Nat /\ filled' \in 0 .. Chunk - 1 /\ filled' <= captureFrame'
    BY <1>1, <1>7 DEF ReadCapture
  <2>3. /\ transport' = transport /\ sock' = sock /\ mode' \in {mode, "sleep"}
        /\ known' = known /\ tracker' = tracker /\ out' = out
    BY <1>7 DEF ReadCapture, attemptFails, receiver
  <2>. QED  BY <2>1, <2>2, <2>3
<1>8. ASSUME NEW p \in net, HandleHello(p) PROVE StreamTypes'
  <2>1. p.src \in Sockets  BY DEF Packet
  <2>2. /\ UNCHANGED <<transport, mode, sock, seq, captureFrame, filled, tracker, out>>
        /\ net' \subseteq net /\ known' = known \cup {p.src}
    BY <1>8 DEF HandleHello, taken, sender
  <2>. QED  BY <2>1, <2>2
<1>9. ASSUME NEW p \in net, HandleAudio(p) PROVE StreamTypes'
  <2>. DEFINE t   == tracker[p.src]
              gap == IF t.seen /\ transport = "udp" THEN gapFrames(t, p) ELSE 0
  <2>1. /\ p \in Packet /\ p.src \in Sockets /\ t \in Tracker /\ out[p.src] \in Seq(Int)
        /\ p.seq \in Nat /\ p.at \in Nat
    BY DEF Packet
  <2>2. UNCHANGED <<transport, mode, sock, seq, captureFrame, filled, known>> /\ net' \subseteq net
    BY <1>9 DEF HandleAudio, taken, sender
  <2>3. CASE tracker' = tracker /\ out' = out  BY <2>2, <2>3
  <2>4. CASE /\ tracker' = [tracker EXCEPT ![p.src] = advanced(t, p)]
             /\ out' = [out EXCEPT ![p.src] = Appended(out[p.src], gap, p.at)]
             /\ p.src \in known
    <3>1. gap \in Nat  BY <2>1, GapIsNat
    <3>2. Appended(out[p.src], gap, p.at) \in Seq(Int)  BY <2>1, <3>1, AppendedFrames
    <3>3. advanced(t, p) \in Tracker
      <4>1. /\ p.seq + 1 \in Nat /\ p.at + Chunk \in Nat /\ (IF t.seen THEN t.first ELSE p.at) \in Nat
        BY <1>1, <2>1 DEF Tracker
      <4>2. (t.capped \/ (t.seen /\ p.at - t.expectedCaptureFrame > MaxGap)) \in BOOLEAN
        BY Zenon
      <4>. QED  BY <4>1, <4>2 DEF advanced, Tracker
    <3>. HIDE DEF gap, t
    <3>4. tracker' \in [Sockets -> Tracker] /\ out' \in [Sockets -> Seq(Int)]
      BY <2>4, <3>2, <3>3
    <3>5. \A s \in Sockets : tracker'[s].seen => s \in known
      BY <2>1, <2>4, Zenon
    <3>. QED  BY <2>2, <3>4, <3>5
  <2>5. \/ tracker' = tracker /\ out' = out
        \/ /\ tracker' = [tracker EXCEPT ![p.src] = advanced(t, p)]
           /\ out' = [out EXCEPT ![p.src] = Appended(out[p.src], gap, p.at)]
           /\ p.src \in known
    BY <1>9 DEF HandleAudio, Appended
  <2>. QED  BY <2>3, <2>4, <2>5
<1>10. ASSUME NEW s \in Sockets, Forget(s) PROVE StreamTypes'
  <2>1. NoTracker \in Tracker /\ NoTracker.seen = FALSE  BY DEF NoTracker, Tracker
  <2>2. tracker' \in [Sockets -> Tracker] /\ out' \in [Sockets -> Seq(Int)]
    BY <1>10, <2>1 DEF Forget, forgetTracker
  <2>3. \A r \in Sockets : tracker'[r].seen => r \in known'
    <3>1. \A r \in Sockets : tracker'[r] = IF r = s THEN NoTracker ELSE tracker[r]
      BY <1>10 DEF Forget, forgetTracker
    <3>2. known' = known \ {s}  BY <1>10 DEF Forget
    <3>. TAKE r \in Sockets
    <3>3. CASE r = s  BY <2>1, <3>1, <3>3, Zenon
    <3>4. CASE r # s
      <4>1. tracker'[r] = tracker[r]  BY <3>1, <3>4
      <4>. QED  BY <3>2, <3>4, <4>1
    <3>. QED  BY <3>3, <3>4
  <2>. QED  BY <1>10, <2>2, <2>3 DEF Forget, sender
<1>11. CASE UNCHANGED streamVars  BY <1>11 DEF streamVars
<1>. QED
  BY <1>2, <1>3, <1>4, <1>5, <1>6, <1>7, <1>8, <1>9, <1>10, <1>11 DEF StreamNext

(* It holds at the start. *)
LEMMA StreamInitInv == StreamInit => StreamInv
<1>. SUFFICES ASSUME StreamInit PROVE StreamInv  OBVIOUS
<1>. USE DEF StreamInit
<1>1. NoTracker \in Tracker /\ NoTracker.seen = FALSE  BY DEF NoTracker, Tracker
<1>2. \A s \in Sockets : tracker[s] = NoTracker /\ out[s] = <<>>  OBVIOUS
<1>3. StreamTypes
  <2>1. tracker \in [Sockets -> Tracker] /\ out \in [Sockets -> Seq(Int)]  BY <1>1
  <2>2. \A s \in Sockets : tracker[s].seen => s \in known  BY <1>1, <1>2, Zenon
  <2>3. 0 \in 0 .. MaxSockets /\ 0 \in 0 .. Chunk - 1 /\ 0 \in Nat /\ 0 <= 0  BY StreamAssumption
  <2>. QED  BY <2>1, <2>2, <2>3 DEF StreamTypes
<1>4. Aired = {}  BY DEF Aired
<1>5. TrackersBehind /\ InTurn
  BY <1>1, <1>2, <1>4 DEF TrackersBehind, InTurn, PacketsInTurn, SenderInTurn, TrackersInTurn
<1>6. Written
  <2>1. Len(<<>>) = 0 /\ DOMAIN <<>> = {}  OBVIOUS
  <2>2. WrittenTo(<<>>, NoTracker)  BY <2>1 DEF WrittenTo, NoTracker
  <2>. QED  BY <1>2, <2>2 DEF Written
<1>. QED  BY <1>3, <1>4, <1>5, <1>6 DEF StreamInv, NetOrdered

(* Reading from the capture: into the packet, or a full packet out.        *)
LEMMA ReadStep ==
  ASSUME StreamInv, StreamTypes', NEW n \in 1 .. Chunk, ReadCapture(n)
  PROVE  StreamInv'
<1>1. /\ Chunk \in Nat /\ Chunk > 0 /\ seq \in Nat /\ captureFrame \in Nat /\ filled \in Nat
      /\ Chunk * seq \in Int /\ Chunk * (seq + 1) = Chunk * seq + Chunk
  BY StreamAssumption DEF StreamInv, StreamTypes
<1>2. /\ mode = "send" /\ transport' = transport /\ sock' = sock
      /\ captureFrame' = captureFrame + n /\ tracker' = tracker /\ out' = out
  BY DEF ReadCapture, attemptFails, receiver
<1>3. \A p \in net : p.src <= sock  BY DEF StreamInv, InTurn
<1>4. CASE filled + n < Chunk
  <2>1. filled' = filled + n /\ seq' = seq /\ net' = net /\ mode' = mode  BY <1>4 DEF ReadCapture
  <2>2. SenderSlip' = SenderSlip  BY <1>1, <1>2, <2>1 DEF SenderSlip, Slip
  <2>3. SenderSlip \in Int /\ sock \in Int  BY SlipTypes DEF StreamInv, SlipFacts
  <2>. QED  BY <1>2, <1>3, <2>1, <2>2, <2>3, QuietStep DEF Aired
<1>5. CASE ~(filled + n < Chunk)
  <2>1. filled' = 0 /\ seq' = seq + 1 /\ filled + n = Chunk  BY <1>1, <1>5 DEF ReadCapture
  <2>2. SenderSlip' = SenderSlip
    <3>1. captureFrame + n - Chunk * (seq + 1) = captureFrame - filled - Chunk * seq
      BY <1>1, <2>1
    <3>. QED  BY <1>1, <1>2, <2>1, <3>1 DEF SenderSlip, Slip
  <2>3. \/ transmit(Audio(sock, seq, captureFrame - filled)) /\ mode' = mode
        \/ broken /\ mode' = "sleep"
    BY <1>5 DEF ReadCapture, attemptFails
  <2>4. CASE net' = net \cup {Audio(sock, seq, captureFrame - filled)} /\ mode' = mode
    BY <1>2, <2>1, <2>2, <2>4, SentStep
  <2>5. CASE transport = "udp" /\ net' = net
    BY <1>2, <2>1, <2>2, <2>5, UsedUpStep
  <2>6. CASE net' = {} /\ mode' = "sleep"
    BY <1>2, <2>1, <2>2, <2>6, UsedUpStep
  <2>7. transport \in {"udp", "tcp"}  BY DEF StreamInv, StreamTypes
  <2>. QED  BY <2>3, <2>4, <2>5, <2>6, <2>7 DEF transmit, broken
<1>. QED  BY <1>4, <1>5

(* Every step keeps it. *)
LEMMA NextStreamInv == StreamInv /\ [StreamNext]_streamVars => StreamInv'
<1>. SUFFICES ASSUME StreamInv, [StreamNext]_streamVars PROVE StreamInv'  OBVIOUS
<1>1. StreamTypes'  BY NextStreamTypes DEF StreamInv
<1>2. /\ SenderSlip \in Int /\ sock \in Int /\ captureFrame \in Nat /\ filled \in Nat
      /\ Chunk * seq \in Int
  BY SlipTypes, StreamAssumption DEF StreamInv, StreamTypes, SlipFacts
<1>3. \A p \in net : p.src <= sock /\ p.src \in Int
  BY SlipTypes DEF StreamInv, InTurn, StreamTypes, SlipFacts
<1>4. CASE DialFails
  <2>1. /\ UNCHANGED <<transport, tracker, out, seq, sock, net, captureFrame, filled>>
        /\ mode' = "sleep"
    BY <1>4 DEF DialFails, attemptFails, receiver
  <2>2. Aired' = Aired /\ SenderSlip' = SenderSlip  BY <2>1 DEF Aired, SenderSlip
  <2>. QED  BY <1>1, <1>2, <1>3, <2>1, <2>2, QuietStep
<1>5. CASE Dial
  <2>1. /\ UNCHANGED <<transport, tracker, out, seq, captureFrame>>
        /\ sock' = sock + 1 /\ filled' = 0 /\ net' \subseteq net \cup {Greeting(sock + 1)}
        /\ net \subseteq net'
    BY <1>5 DEF Dial, transmit, receiver
  <2>2. Aired' = Aired  BY <2>1 DEF Aired, Greeting
  <2>3. SenderSlip' >= SenderSlip  BY <1>2, <2>1 DEF SenderSlip, Slip
  <2>4. \A p \in net' : p.src <= sock'  BY <1>2, <1>3, <2>1 DEF Greeting
  <2>. QED  BY <1>1, <1>2, <2>1, <2>2, <2>3, <2>4, QuietStep
<1>6. CASE helloTick
  <2>1. /\ UNCHANGED <<transport, tracker, out, seq, sock, captureFrame, filled>>
        /\ net' \subseteq net \cup {Greeting(sock)} /\ net \subseteq net'
        /\ mode = "send"
    BY <1>6 DEF helloTick, transmit, attemptFails, sender, receiver
  <2>2. Aired' = Aired /\ SenderSlip' = SenderSlip  BY <2>1 DEF Aired, Greeting, SenderSlip
  <2>3. \A p \in net' : p.src <= sock'  BY <1>2, <1>3, <2>1 DEF Greeting
  <2>. QED  BY <1>1, <1>2, <2>1, <2>2, <2>3, QuietStep
<1>7. CASE Wake
  <2>1. /\ UNCHANGED <<transport, tracker, out, seq, sock, net, captureFrame, filled>>
        /\ mode' = "dial"
    BY <1>7 DEF Wake, receiver
  <2>2. Aired' = Aired /\ SenderSlip' = SenderSlip  BY <2>1 DEF Aired, SenderSlip
  <2>. QED  BY <1>1, <1>2, <1>3, <2>1, <2>2, QuietStep
<1>8. CASE Stop
  <2>1. /\ UNCHANGED <<transport, tracker, out, seq, sock, net, captureFrame, filled>>
        /\ mode' = "stopped"
    BY <1>8 DEF Stop, receiver
  <2>2. Aired' = Aired /\ SenderSlip' = SenderSlip  BY <2>1 DEF Aired, SenderSlip
  <2>. QED  BY <1>1, <1>2, <1>3, <2>1, <2>2, QuietStep
<1>9. ASSUME NEW n \in 1 .. Chunk, ReadCapture(n) PROVE StreamInv'
  BY <1>1, <1>9, ReadStep
<1>10. ASSUME NEW p \in net, HandleHello(p) PROVE StreamInv'
  <2>1. /\ UNCHANGED <<transport, tracker, out, seq, sock, mode, captureFrame, filled>>
        /\ p.kind = "hello" /\ (net' = net \ {p} \/ net' = net)
    BY <1>10 DEF HandleHello, taken, sender
  <2>2. Aired' = Aired /\ SenderSlip' = SenderSlip  BY <2>1 DEF Aired, SenderSlip
  <2>. QED  BY <1>1, <1>2, <1>3, <2>1, <2>2, QuietStep
<1>11. ASSUME NEW p \in net, HandleAudio(p) PROVE StreamInv'
  <2>. DEFINE t   == tracker[p.src]
              gap == IF t.seen /\ transport = "udp" THEN gapFrames(t, p) ELSE 0
  <2>1. p \in Aired /\ deliverable(p) /\ taken(p) /\ UNCHANGED <<transport, sender, known>>
    BY <1>11 DEF HandleAudio, Aired
  <2>2. \/ /\ p.src \notin known \/ stale(t, p)
           /\ UNCHANGED <<tracker, out>>
        \/ /\ ~stale(t, p)
           /\ tracker' = [tracker EXCEPT ![p.src] = advanced(t, p)]
           /\ out' = [out EXCEPT ![p.src] = Appended(out[p.src], gap, p.at)]
    BY <1>11 DEF HandleAudio, Appended
  <2>3. CASE (p.src \notin known \/ stale(t, p)) /\ UNCHANGED <<tracker, out>>
    BY <1>1, <2>1, <2>3, DroppedStep
  <2>4. CASE /\ ~stale(t, p)
             /\ tracker' = [tracker EXCEPT ![p.src] = advanced(t, p)]
             /\ out' = [out EXCEPT ![p.src] = Appended(out[p.src], gap, p.at)]
    BY <1>1, <2>1, <2>4, PlayedStep
  <2>. QED  BY <2>2, <2>3, <2>4
<1>12. ASSUME NEW s \in Sockets, Forget(s) PROVE StreamInv'
  BY <1>1, <1>12, ForgetStep
<1>13. CASE UNCHANGED streamVars
  <2>1. UNCHANGED <<transport, tracker, out, seq, sock, mode, net, captureFrame, filled>>
    BY <1>13 DEF streamVars
  <2>2. Aired' = Aired /\ SenderSlip' = SenderSlip  BY <2>1 DEF Aired, SenderSlip
  <2>. QED  BY <1>1, <1>2, <1>3, <2>1, <2>2, QuietStep
<1>. QED
  BY <1>4, <1>5, <1>6, <1>7, <1>8, <1>9, <1>10, <1>11, <1>12, <1>13 DEF StreamNext

(* It always holds. *)
LEMMA StreamInvHolds == StreamSpec => []StreamInv
BY StreamInitInv, NextStreamInv, PTL DEF StreamSpec

(* Whatever the network loses, copies or reorders, and whenever a          *)
(* connection breaks, what is written to a stream stays in its place in    *)
(* the capture (Accept, writeSilence and the position send gives each      *)
(* packet).                                                                *)
THEOREM SoundKeepsItsPlace == StreamSpec => []SoundInPlace
<1>1. StreamInv => SoundInPlace
  <2>. SUFFICES ASSUME StreamInv, NEW s \in known, ~tracker[s].capped, NEW i \in DOMAIN out[s]
                PROVE  out[s][i] \in {Silence, tracker[s].first + i - 1}
    BY DEF SoundInPlace
  <2>1. s \in Sockets  BY DEF StreamInv, StreamTypes
  <2>. QED  BY <2>1 DEF StreamInv, Written, WrittenTo
<1>. QED  BY <1>1, StreamInvHolds, PTL

(* Nothing is heard twice or out of order, even across a gap that was cut  *)
(* to maxGapFrames (the stale check of Accept).                            *)
THEOREM SoundComesInOrder == StreamSpec => []SoundInOrder
<1>1. StreamInv => SoundInOrder
  <2>. SUFFICES ASSUME StreamInv, NEW s \in known, NEW i \in DOMAIN out[s], NEW j \in DOMAIN out[s],
                       i < j, out[s][i] # Silence, out[s][j] # Silence
                PROVE  out[s][i] < out[s][j]
    BY DEF SoundInOrder
  <2>1. s \in Sockets  BY DEF StreamInv, StreamTypes
  <2>. QED  BY <2>1 DEF StreamInv, Written, WrittenTo
<1>. QED  BY <1>1, StreamInvHolds, PTL

=============================================================================
