------------------------------ MODULE MCNetwork ------------------------------
(***************************************************************************)
(* What is between a host and a player: the v1 transport (V1Receiver,      *)
(* V1Stream), the relay (Relay), the wire formats (Wire), the v2           *)
(* receiver's media pipeline (ClientMedia) and its playout buffer          *)
(* (JitterBuffer); which picks the one a behaviour is about.               *)
(* The pipeline gets 8 sequence numbers, so that the number of the third   *)
(* frame wraps to 0, and a window of two frames, so that it overflows.     *)
(***************************************************************************)
EXTENDS V1Receiver, V1Stream, Relay, ClientMedia, JitterBuffer, TLC

CONSTANTS Cuts, MaxPut

VARIABLES which, channel, put, pipe, harmed, got, failed

(* The values that are put on the wire.  Every byte of a number differs    *)
(* from its neighbours, and the names and payloads have the lengths at     *)
(* which a limit or a length field ends, and one past it.                  *)
U8(n) == <<n>>
U16(n) == <<n, n + 1>>
U32(n) == <<n, n + 1, n + 2, n + 3>>
Name(n) == [i \in 1 .. n |-> i % 251]

Caps == [Codec |-> U8(1), SampleRate |-> U32(2), Channels |-> U8(6), FrameMs |-> U8(7),
         OpusBitrate |-> U32(8), FEC |-> U8(12), DTX |-> U8(13), Complexity |-> U8(14),
         AppID |-> U8(15)]

Control(type, body) == [Type |-> <<0, type>>, Flags |-> U16(1), RequestID |-> U32(3), Body |-> body]

WireControls ==
  {Control(1, [ProtoVersion |-> U16(1), MinProto |-> U16(3), DeviceID |-> Name(16), Caps |-> Caps,
               DeviceName |-> Name(n)]) : n \in {0, 3, 4059, 4060, 65536}}
  \cup {Control(129, [Kind |-> U8(k), Name |-> Name(n)]) : k \in {0, 3}, n \in {0, 65539}}
  \cup {Control(130, [OK |-> U8(1), Detail |-> Name(n)]) : n \in {0, 4093, 4094}}
  \cup {Control(2, [Profile |-> Caps, ResumeToken |-> Name(32)]), Control(32, Caps),
        Control(33, [Active |-> Caps, FormatGen |-> U32(1)]),
        Control(48, [FormatGen |-> U32(1), Caps |-> Caps]),
        Control(49, [FormatGen |-> U32(1), Applied |-> U8(1)]),
        Control(64, [LossPct |-> U16(1), LatePct |-> U16(3), JitterUs |-> U32(5), RTTUs |-> U32(9),
                     BufDepthMs |-> U16(13), Underruns |-> U32(15), DriftPpm |-> <<255, 255, 1, 2>>]),
        Control(128, [Mode |-> U8(4)]), Control(131, [State |-> U8(6)])}

WireHandshakes ==
  {[Version |-> U8(v), Flags |-> U8(0), SampleRate |-> <<0, 0, 187, 128>>, Channels |-> U8(c),
    Format |-> U8(1), FrameSamples |-> <<0, 3>>, Name |-> Name(n)] :
     v \in {0, 1, 2}, c \in {1, 8, 9}, n \in {0, 255, 256}}

WireFrames ==
  {[Type |-> U8(t), Seq |-> U32(1) \o U32(5), CaptureFrame |-> U32(9) \o U32(13),
    Payload |-> Name(n)] : t \in {0, 2}, n \in {0, 6, 48, 960, 961}}

WireMedias ==
  {[StreamID |-> U8(1), FormatGen |-> U16(2), Flags |-> U8(4), Seq |-> U32(5),
    CaptureTsUs |-> <<0, 0, hi>> \o U32(9) \o U8(13), Payload |-> Name(n)] :
     hi \in {0, 1}, n \in {0, 1, 256, 1152, 1153}}

WireQueries == {[Type |-> 1, Name |-> Name(n)] : n \in {0, 3, 255, 256}}

WireAnnounces ==
  {[Type |-> t, TCPPort |-> p, InstanceID |-> Name(16), AdvertisedAddr |-> a, Name |-> Name(n),
    ProtoVersion |-> IF t = 3 THEN 2 ELSE 0] :
     t \in {2, 3}, p \in {0, 258, 65536}, n \in {0, 254, 255, 256},
     a \in {<<>>, <<192, 168, 1, 2>>, <<0, 0, 0, 0, 0, 0, 0, 0, 0, 0, 255, 255, 10, 0, 0, 7>>,
            Name(16)}}

Formats == INSTANCE Wire WITH
  Controls <- WireControls, Handshakes <- WireHandshakes, Frames <- WireFrames,
  Medias <- WireMedias, Queries <- WireQueries, Announces <- WireAnnounces,
  MaxSent <- MaxPut, sent <- put

wireVars == <<channel, put, pipe, harmed, got, failed>>
soundVars == <<mediaVars, bufferVars>>

NetworkInit ==
  /\ which \in {"receiver", "stream", "relay", "wire", "media", "buffer"}
  /\ Init /\ StreamInit /\ RelayInit /\ Formats!Init /\ MediaInit /\ BufferInit
  /\ which # "stream" => transport = "udp"
  /\ which # "wire" => channel = "udp"

NetworkNext ==
  /\ UNCHANGED which
  /\ \/ which = "receiver" /\ Next /\ UNCHANGED <<streamVars, relayVars, wireVars, soundVars>>
     \/ which = "stream" /\ StreamNext /\ UNCHANGED <<vars, relayVars, wireVars, soundVars>>
     \/ which = "relay" /\ RelayNext /\ UNCHANGED <<vars, streamVars, wireVars, soundVars>>
     \/ which = "wire" /\ Formats!Next /\ UNCHANGED <<vars, streamVars, relayVars, soundVars>>
     \/ /\ which = "media" /\ MediaNext
        /\ UNCHANGED <<vars, streamVars, relayVars, wireVars, bufferVars>>
     \/ /\ which = "buffer" /\ BufferNext
        /\ UNCHANGED <<vars, streamVars, relayVars, wireVars, mediaVars>>

(* A relay's host dials and a ticker ticks from the start, so their        *)
(* fairness is asked only of the behaviours that are about them; none of   *)
(* the other fair actions changes an initial state.                        *)
NetworkSpec ==
  /\ NetworkInit
  /\ [][NetworkNext]_<<which, vars, streamVars, relayVars, wireVars, soundVars>>
  /\ Fairness /\ StreamFairness /\ BufferFairness
  /\ WF_mediaVars(which = "media" /\ Elapse) /\ WF_mediaVars(which = "media" /\ tick)
  /\ WF_relayVars(which = "relay" /\ \E i \in Legs : HostDials(i))
  /\ \A i \in Legs :
       WF_relayVars(which = "relay" /\ RelayRegisters(i))
       /\ WF_relayVars(which = "relay" /\ HostGivesUp(i))
  /\ \A p \in Phones : WF_relayVars(which = "relay" /\ relaySteps(p))

(* Relay!HostFound, of the behaviours that are about the relay. *)
RelayHostFound == which = "relay" => HostFound

(* Wire!ReadAsWritten. *)
ReadAsWritten == Formats!ReadAsWritten
=============================================================================
