------------------------------ MODULE V1Stream ------------------------------
(***************************************************************************)
(* One v1 audio stream from end to end: the sender's reconnect loop and    *)
(* packetiser (transport/sender.go), the network between, and the          *)
(* receiver's per-source tracking and gap filling (transport/receiver.go). *)
(* A UDP datagram may be lost, duplicated or reordered; a TCP connection   *)
(* delivers in order until it breaks.  An audio frame is named by its      *)
(* position in the capture.                                                *)
(***************************************************************************)
EXTENDS Integers, Sequences, FiniteSets

CONSTANTS
  Chunk,       \* audio frames of one packet
  MaxGap,      \* maxGapFrames: the longest gap filled with silence
  MinDelay, MaxDelay, \* ReconnectMinDelay, ReconnectMaxDelay
  MaxCapture,  \* bound: frames captured in one behaviour
  MaxSockets,  \* bound: connection attempts
  MaxFlight    \* bound: packets in flight

ASSUME StreamAssumption ==
  /\ Chunk \in Nat \ {0} /\ MaxGap \in Nat
  /\ MaxCapture \in Nat /\ MaxSockets \in Nat /\ MaxFlight \in Nat

VARIABLES
  transport,   \* "udp" or "tcp"
  mode,        \* RunSender: "dial", "send", "sleep" or "stopped"
  sock,        \* the sender's current socket; its address is the source's
  seq, captureFrame,
  filled,      \* frames in the packet being filled
  wrote,       \* successfulWrites > 0
  backoff,
  net,         \* packets in flight
  known,       \* sources the receiver has a stream for
  tracker,     \* per source: the frameTracker
  out          \* history, per source: frames written to its stream

streamVars == <<transport, mode, sock, seq, captureFrame, filled, wrote, backoff, net,
          known, tracker, out>>

sender == <<mode, sock, seq, captureFrame, filled, wrote, backoff>>
receiver == <<known, tracker, out>>

Silence == -1
Sockets == 1 .. MaxSockets
NoTracker == [seen |-> FALSE, expectedSeq |-> 0, expectedCaptureFrame |-> 0,
              first |-> 0, capped |-> FALSE]

StreamInit ==
  /\ transport \in {"udp", "tcp"}
  /\ mode = "dial" /\ sock = 0 /\ seq = 0 /\ captureFrame = 0 /\ filled = 0
  /\ wrote = FALSE /\ backoff = MinDelay /\ net = {}
  /\ known = {} /\ tracker = [s \in Sockets |-> NoTracker] /\ out = [s \in Sockets |-> <<>>]

Greeting(s) == [kind |-> "hello", src |-> s, seq |-> 0, at |-> 0]
Audio(s, n, c) == [kind |-> "audio", src |-> s, seq |-> n, at |-> c]

(* What reaches the network: UDP loses a datagram on the way, and a full   *)
(* path loses what it cannot hold.                                         *)
transmit(p) ==
  \/ Cardinality(net) < MaxFlight /\ net' = net \cup {p}
  \/ transport = "udp" /\ UNCHANGED net

-----------------------------------------------------------------------------
(* The attempt ends with an error: RunSender sleeps.  A TCP connection     *)
(* takes what was in flight with it.                                       *)
attemptFails(healthy) ==
  /\ mode' = "sleep"
  /\ backoff' = IF healthy /\ wrote' THEN MinDelay ELSE backoff
  /\ UNCHANGED <<transport, sock>>

broken == net' = IF transport = "tcp" THEN {} ELSE net

(* Resolve or dialContext fails, or the first hello does. *)
DialFails ==
  /\ mode = "dial" /\ wrote' = FALSE /\ attemptFails(FALSE)
  /\ UNCHANGED <<seq, captureFrame, filled, net, receiver>>

(* The connection is up and the handshake, or the first hello, is written. *)
Dial ==
  /\ mode = "dial" /\ sock < MaxSockets
  /\ mode' = "send" /\ sock' = sock + 1 /\ filled' = 0 /\ wrote' = TRUE
  /\ transmit(Greeting(sock + 1))
  /\ UNCHANGED <<transport, seq, captureFrame, backoff, receiver>>

helloOnce == UNCHANGED streamVars

(* helloTicker: a failed write either counts as transient or ends the      *)
(* attempt.                                                                *)
helloTick ==
  /\ mode = "send" /\ transport = "udp"
  /\ \/ transmit(Greeting(sock)) /\ UNCHANGED <<transport, sender, receiver>>
     \/ /\ wrote' = wrote /\ \E healthy \in BOOLEAN : attemptFails(healthy)
        /\ UNCHANGED <<seq, captureFrame, filled, net, receiver>>

(* capture.Read returns n frames; a full packet is sent with the capture   *)
(* position of its first frame.  A failed write has used up its sequence   *)
(* number and its audio.                                                   *)
ReadCapture(n) ==
  LET start == captureFrame - filled
  IN /\ mode = "send" /\ n <= Chunk - filled /\ captureFrame + n <= MaxCapture
     /\ captureFrame' = captureFrame + n
     /\ IF filled + n < Chunk
        THEN /\ filled' = filled + n
             /\ UNCHANGED <<transport, mode, sock, seq, wrote, backoff, net>>
        ELSE /\ seq' = seq + 1
             /\ \/ /\ transmit(Audio(sock, seq, start)) /\ filled' = 0
                   /\ UNCHANGED <<transport, mode, sock, wrote, backoff>>
                \/ /\ filled' = 0 /\ wrote' = wrote /\ broken
                   /\ \E healthy \in BOOLEAN : attemptFails(healthy)
     /\ UNCHANGED receiver

(* The sleep ends and RunSender tries again. *)
Wake ==
  /\ mode = "sleep" /\ mode' = "dial"
  /\ backoff' = IF 2 * backoff > MaxDelay THEN MaxDelay ELSE 2 * backoff
  /\ UNCHANGED <<transport, sock, seq, captureFrame, filled, wrote, net, receiver>>

(* The context is cancelled. *)
Stop ==
  /\ mode # "stopped" /\ mode' = "stopped"
  /\ UNCHANGED <<transport, sock, seq, captureFrame, filled, wrote, backoff, net, receiver>>

-----------------------------------------------------------------------------
(* The next packet the receiver may read. *)
deliverable(p) ==
  transport = "tcp" =>
    \A q \in net : q.src = p.src /\ q # p =>
      p.kind = "hello" \/ (q.kind = "audio" /\ q.seq > p.seq)

(* A read takes the packet, or its first copy. *)
taken(p) == net' = net \ {p} \/ (transport = "udp" /\ UNCHANGED net)

(* handleUDPHello, or handleConnection up to its read loop. *)
HandleHello(p) ==
  /\ p.kind = "hello" /\ deliverable(p) /\ taken(p)
  /\ known' = known \cup {p.src}
  /\ UNCHANGED <<transport, sender, tracker, out>>

capGapFrames(gap) == IF gap > MaxGap THEN MaxGap ELSE gap

(* The silence Accept asks for: by the capture clock, or by the packets    *)
(* missing when the capture clock shows none.                              *)
gapFrames(t, p) ==
  IF p.at > t.expectedCaptureFrame THEN capGapFrames(p.at - t.expectedCaptureFrame)
  ELSE IF p.seq > t.expectedSeq THEN capGapFrames((p.seq - t.expectedSeq) * Chunk) ELSE 0

noStale(t, p) == FALSE

stale(t, p) == t.seen /\ p.seq < t.expectedSeq

advanced(t, p) ==
  [seen |-> TRUE, expectedSeq |-> p.seq + 1, expectedCaptureFrame |-> p.at + Chunk,
   first |-> IF t.seen THEN t.first ELSE p.at,
   capped |-> t.capped \/ (t.seen /\ p.at - t.expectedCaptureFrame > MaxGap)]

(* handleUDPAudio, or one turn of handleConnection's loop, which writes no *)
(* silence.  Audio of an unknown source, and stale audio, is dropped.      *)
HandleAudio(p) ==
  LET t   == tracker[p.src]
      gap == IF t.seen /\ transport = "udp" THEN gapFrames(t, p) ELSE 0
  IN /\ p.kind = "audio" /\ deliverable(p) /\ taken(p)
     /\ IF p.src \in known /\ ~stale(t, p)
        THEN /\ tracker' = [tracker EXCEPT ![p.src] = advanced(t, p)]
             /\ out' = [out EXCEPT ![p.src] =
                          @ \o [i \in 1 .. gap |-> Silence] \o [i \in 1 .. Chunk |-> p.at + i - 1]]
        ELSE UNCHANGED <<tracker, out>>
     /\ UNCHANGED <<transport, sender, known>>

forgetKeepsTracker(s) == UNCHANGED tracker

(* The tracker goes with its source. *)
forgetTracker(s) == tracker' = [tracker EXCEPT ![s] = NoTracker]

(* cleanupIdleUDPSources: nothing arrived from the source for              *)
(* udpIdleTimeout.  Or the TCP handler ended: the connection broke, or     *)
(* nothing came for readTimeout.                                           *)
Forget(s) ==
  /\ s \in known
  /\ known' = known \ {s} /\ out' = [out EXCEPT ![s] = <<>>]
  /\ forgetTracker(s)
  /\ UNCHANGED <<transport, sender, net>>

StreamNext ==
  \/ DialFails \/ Dial \/ helloTick \/ Wake \/ Stop
  \/ \E n \in 1 .. Chunk : ReadCapture(n)
  \/ \E p \in net : HandleHello(p) \/ HandleAudio(p)
  \/ \E s \in Sockets : Forget(s)

StreamSpec == StreamInit /\ [][StreamNext]_streamVars

-----------------------------------------------------------------------------
(* Sound keeps its place: what is written to a stream is, frame for frame, *)
(* the capture from the stream's first packet on, with silence where audio *)
(* was lost, came too late or went with a failed write, as long as no gap  *)
(* exceeded maxGapFrames (Accept, writeSilence, and the capture position   *)
(* the sender gives each packet).                                          *)
SoundInPlace ==
  \A s \in known :
    ~tracker[s].capped =>
      \A i \in DOMAIN out[s] : out[s][i] \in {Silence, tracker[s].first + i - 1}

(* Nothing is heard twice or out of order, capped gap or not. *)
SoundInOrder ==
  \A s \in known :
    \A i, j \in DOMAIN out[s] :
      i < j /\ out[s][i] # Silence /\ out[s][j] # Silence => out[s][i] < out[s][j]

(* A sender that keeps running is heard: whatever was lost and whenever    *)
(* the receiver forgot it, its hello each second gets it a stream again.   *)
SenderHeard ==
  (transport = "udp" /\ mode = "send") ~> (sock \in known \/ mode # "send")

(* Hellos go out for as long as the sender runs, the receiver goes on      *)
(* reading, and of the hellos sent again and again some arrive.            *)
StreamFairness ==
  /\ WF_streamVars(helloTick /\ mode' = "send" /\ Greeting(sock) \in net')
  /\ WF_streamVars(\E p \in net : HandleAudio(p) /\ p \notin net')
  /\ \A s \in Sockets : SF_streamVars(Greeting(s) \in net /\ HandleHello(Greeting(s)))
=============================================================================
