-------------------------------- MODULE Wire --------------------------------
(***************************************************************************)
(* The wire formats and the readers and writers that use them: the v2      *)
(* control messages on their stream, the v1 handshake and frames on theirs,*)
(* and the v1, v2 and discovery datagrams.                                 *)
(*                                                                         *)
(* A value is a record of its fields.  A number is the sequence of its     *)
(* bytes, the most significant first, as long as its Go type is wide; a    *)
(* string, a payload or an address is the sequence of its bytes.  An       *)
(* encoder is given by the order and the width it appends the fields in, a *)
(* decoder by the places <<from, to>> it reads them at, as the code has    *)
(* them, and the two meet only in the bytes.  An encoder or a decoder      *)
(* returns the set of its results: empty when it returns an error.         *)
(***************************************************************************)
EXTENDS Integers, Sequences, SequencesExt, TLC

CONSTANTS
  Controls,     \* v2 control messages that may be written
  Handshakes,   \* v1 handshakes that may be offered
  Frames,       \* v1 audio frames
  Medias,       \* v2 media datagrams
  Queries,      \* discovery queries
  Announces,    \* announces, with the ProtoVersion their Type goes with
  Cuts,         \* how many bytes of a stream's last write a broken link delivers
  MaxSent       \* bound on the values written in a behaviour

VARIABLES
  channel,      \* what carries the bytes
  sent,         \* the values the writer got onto the channel
  pipe,         \* the bytes on their way: a stream, or one datagram
  harmed,       \* the stream was cut, or the datagram is not as it was sent
  got,          \* the values the reader returned
  failed        \* the reader returned an error

wireVars == <<channel, sent, pipe, harmed, got, failed>>

-----------------------------------------------------------------------------
(* Bytes *)

(* uint16(n), uint32(n): what does not fit is lost. *)
Digits(n, w) == [i \in 1 .. w |-> (n \div 256^(w - i)) % 256]
Number(b) == FoldLeft(LAMBDA n, d : 256 * n + d, 0, b)

(* b[from:to] *)
Slice(b, from, to) == SubSeq(b, from + 1, to)
Tail_(b, from) == SubSeq(b, from + 1, Len(b))

(* The w low bytes of a number. *)
Low(v, w) == SubSeq(v, Len(v) - w + 1, Len(v))

Big(fields, v) == FlattenSeq([i \in DOMAIN fields |-> Low(v[fields[i][1]], fields[i][2])])
Little(fields, v) ==
  FlattenSeq([i \in DOMAIN fields |-> Reverse(Low(v[fields[i][1]], fields[i][2]))])

ReadBig(places, b) == [f \in DOMAIN places |-> Slice(b, places[f][1], places[f][2])]
ReadLittle(places, b) == [f \in DOMAIN places |-> Reverse(Slice(b, places[f][1], places[f][2]))]

Accept(ok, v) == IF ok THEN {v} ELSE {}

-----------------------------------------------------------------------------
(* v2 control payloads *)

capsSize == 15
MaxControlPayload == 4096

AppendCaps(c) ==
  Little(<<<<"Codec", 1>>, <<"SampleRate", 4>>, <<"Channels", 1>>, <<"FrameMs", 1>>,
           <<"OpusBitrate", 4>>, <<"FEC", 1>>, <<"DTX", 1>>, <<"Complexity", 1>>,
           <<"AppID", 1>>>>, c)

DecodeCaps(b) ==
  Accept(Len(b) >= capsSize, ReadLittle(
    [Codec |-> <<0, 1>>, SampleRate |-> <<1, 5>>, Channels |-> <<5, 6>>, FrameMs |-> <<6, 7>>,
     OpusBitrate |-> <<7, 11>>, FEC |-> <<11, 12>>, DTX |-> <<12, 13>>,
     Complexity |-> <<13, 14>>, AppID |-> <<14, 15>>], b))

(* A byte array is written as it is; as a number it is the one with these  *)
(* bytes in the order of the format.                                       *)
AppendHello(h) ==
  Little(<<<<"ProtoVersion", 2>>, <<"MinProto", 2>>>>, h)
    \o Reverse(Digits(Len(h.DeviceName), 2))
    \o Little(<<<<"DeviceID", 16>>>>, h) \o AppendCaps(h.Caps) \o h.DeviceName

DecodeHello(b) ==
  LET fixed == 2 + 2 + 2 + 16 + capsSize IN
  {ReadLittle([ProtoVersion |-> <<0, 2>>, MinProto |-> <<2, 4>>, DeviceID |-> <<6, 22>>], b)
     @@ [Caps |-> c, DeviceName |-> Tail_(b, fixed)] :
     c \in IF Len(b) >= fixed /\ Len(b) = fixed + Number(Reverse(Slice(b, 4, 6)))
             THEN DecodeCaps(Slice(b, 22, 22 + capsSize)) ELSE {}}

AppendHelloOK(h) == AppendCaps(h.Profile) \o Little(<<<<"ResumeToken", 32>>>>, h)

DecodeHelloOK(b) ==
  {ReadLittle([ResumeToken |-> <<capsSize, capsSize + 32>>], b) @@ [Profile |-> c] :
     c \in IF Len(b) = capsSize + 32 THEN DecodeCaps(Slice(b, 0, capsSize)) ELSE {}}

AppendStreamAck(s) == AppendCaps(s.Active) \o Little(<<<<"FormatGen", 4>>>>, s)

DecodeStreamAck(b) ==
  {ReadLittle([FormatGen |-> <<capsSize, capsSize + 4>>], b) @@ [Active |-> c] :
     c \in IF Len(b) = capsSize + 4 THEN DecodeCaps(Slice(b, 0, capsSize)) ELSE {}}

AppendFormatUpdate(f) == Little(<<<<"FormatGen", 4>>>>, f) \o AppendCaps(f.Caps)

DecodeFormatUpdate(b) ==
  {ReadLittle([FormatGen |-> <<0, 4>>], b) @@ [Caps |-> c] :
     c \in IF Len(b) = capsSize + 4 THEN DecodeCaps(Tail_(b, 4)) ELSE {}}

AppendFormatAck(f) == Little(<<<<"FormatGen", 4>>, <<"Applied", 1>>>>, f)

DecodeFormatAck(b) ==
  Accept(Len(b) = 5, ReadLittle([FormatGen |-> <<0, 4>>, Applied |-> <<4, 5>>], b))

AppendStats(s) ==
  Little(<<<<"LossPct", 2>>, <<"LatePct", 2>>, <<"JitterUs", 4>>, <<"RTTUs", 4>>,
           <<"BufDepthMs", 2>>, <<"Underruns", 4>>, <<"DriftPpm", 4>>>>, s)

DecodeStats(b) ==
  Accept(Len(b) = 2 + 2 + 4 + 4 + 2 + 4 + 4, ReadLittle(
    [LossPct |-> <<0, 2>>, LatePct |-> <<2, 4>>, JitterUs |-> <<4, 8>>, RTTUs |-> <<8, 12>>,
     BufDepthMs |-> <<12, 14>>, Underruns |-> <<14, 18>>, DriftPpm |-> <<18, 22>>], b))

(* QUALITY_MODE and RECEIVER_STATE: one byte, up to the last one named. *)
QualityModeAdvanced == 4
ReceiverStateStopped == 6
SetSourcePerApp == 3

AppendQualityMode(q) == q.Mode
DecodeQualityMode(b) == Accept(Len(b) = 1 /\ b[1] <= QualityModeAdvanced, [Mode |-> b])

AppendReceiverState(r) == r.State
DecodeReceiverState(b) == Accept(Len(b) = 1 /\ b[1] <= ReceiverStateStopped, [State |-> b])

(* The `u8 | str16` payloads; namePayloadLen. *)
AppendName(first, name) == first \o Reverse(Digits(Len(name), 2)) \o name
namePayload(b) == Len(b) >= 3 /\ Len(b) = 3 + Number(Reverse(Slice(b, 1, 3)))

AppendSetSource(s) == AppendName(s.Kind, s.Name)
DecodeSetSource(b) ==
  Accept(namePayload(b) /\ b[1] <= SetSourcePerApp, [Kind |-> Slice(b, 0, 1), Name |-> Tail_(b, 3)])

AppendSetSourceAck(a) == AppendName(a.OK, a.Detail)
DecodeSetSourceAck(b) ==
  Accept(namePayload(b), [OK |-> Slice(b, 0, 1), Detail |-> Tail_(b, 3)])

(* Which payload a message type carries. *)
AppendPayload(type, v) ==
  CASE type = 1 -> AppendHello(v) [] type = 2 -> AppendHelloOK(v)
    [] type = 32 -> AppendCaps(v) [] type = 33 -> AppendStreamAck(v)
    [] type = 48 -> AppendFormatUpdate(v) [] type = 49 -> AppendFormatAck(v)
    [] type = 64 -> AppendStats(v) [] type = 128 -> AppendQualityMode(v)
    [] type = 129 -> AppendSetSource(v) [] type = 130 -> AppendSetSourceAck(v)
    [] type = 131 -> AppendReceiverState(v)

DecodePayload(type, b) ==
  CASE type = 1 -> DecodeHello(b) [] type = 2 -> DecodeHelloOK(b)
    [] type = 32 -> DecodeCaps(b) [] type = 33 -> DecodeStreamAck(b)
    [] type = 48 -> DecodeFormatUpdate(b) [] type = 49 -> DecodeFormatAck(b)
    [] type = 64 -> DecodeStats(b) [] type = 128 -> DecodeQualityMode(b)
    [] type = 129 -> DecodeSetSource(b) [] type = 130 -> DecodeSetSourceAck(b)
    [] type = 131 -> DecodeReceiverState(b)

(* Mutant: the payload's size is not looked at. *)
WriteMessageOfAnySize(m) ==
  LET payload == AppendPayload(Number(m.Type), m.Body) IN
  {Little(<<<<"Type", 2>>, <<"Flags", 2>>, <<"RequestID", 4>>>>, m)
     \o Reverse(Digits(Len(payload), 4)) \o payload}

(* WriteMessage; the length in the header is the payload's. *)
WriteMessage(m) ==
  LET payload == AppendPayload(Number(m.Type), m.Body) IN
  Accept(Len(payload) <= MaxControlPayload,
    Little(<<<<"Type", 2>>, <<"Flags", 2>>, <<"RequestID", 4>>>>, m)
      \o Reverse(Digits(Len(payload), 4)) \o payload)

(* ReadMessage fills its header, then its payload; the bytes it waits for. *)
messageSize(b) ==
  LET n == Number(Reverse(Slice(b, 8, 12))) IN
  IF Len(b) < 12 \/ n > MaxControlPayload THEN 12 ELSE 12 + n

ReadMessage(b) ==
  LET places == [Type |-> <<0, 2>>, Flags |-> <<2, 4>>, RequestID |-> <<4, 8>>]
      m == ReadLittle(places, b) IN
  {m @@ [Body |-> v] :
     v \in IF Number(Reverse(Slice(b, 8, 12))) > MaxControlPayload THEN {}
           ELSE DecodePayload(Number(m.Type), Slice(b, 12, messageSize(b)))}

-----------------------------------------------------------------------------
(* v1 handshake and frames *)

MaxNameLen == 255
MaxPayloadBytes == 256 * 1024

ExpectedPayloadBytes(h) ==
  LET bytes == 2 * Number(h.FrameSamples) * Number(h.Channels) IN
  Accept(bytes <= MaxPayloadBytes, bytes)

Validate(h) ==
  /\ h.Version = <<1>> /\ h.Flags = <<0>> /\ h.Format = <<1>>
  /\ Number(h.SampleRate) \in 8000 .. 192000
  /\ Number(h.Channels) \in 1 .. 8 /\ Number(h.FrameSamples) \in 1 .. 4096
  /\ Len(h.Name) <= MaxNameLen
  /\ ExpectedPayloadBytes(h) # {}

(* A version or a type left zero stands for the only one there is. *)
withVersion(h) == [h EXCEPT !.Version = IF @ = <<0>> THEN <<1>> ELSE @]
withType(f) == [f EXCEPT !.Type = IF @ = <<0>> THEN <<1>> ELSE @]

handshakeFields == <<<<"Flags", 1>>, <<"SampleRate", 4>>, <<"Channels", 1>>, <<"Format", 1>>,
                     <<"FrameSamples", 2>>>>

WriteHandshake(h) ==
  Accept(Validate(h), <<82, 65, 85, 49>> \o h.Version \o Big(handshakeFields, h)
                        \o Digits(Len(h.Name), 2) \o h.Name)

handshakeSize(b) ==
  LET n == Number(Slice(b, 14, 16)) IN
  IF Len(b) < 16 \/ Slice(b, 0, 4) # <<82, 65, 85, 49>> \/ n > MaxNameLen THEN 16 ELSE 16 + n

ReadHandshake(b) ==
  LET h == ReadBig([Version |-> <<4, 5>>, Flags |-> <<5, 6>>, SampleRate |-> <<6, 10>>,
                    Channels |-> <<10, 11>>, Format |-> <<11, 12>>,
                    FrameSamples |-> <<12, 14>>, Name |-> <<16, handshakeSize(b)>>], b) IN
  Accept(/\ Slice(b, 0, 4) = <<82, 65, 85, 49>>
         /\ Number(Slice(b, 14, 16)) <= MaxNameLen
         /\ Validate(h), h)

WriteFrame(h, f) ==
  Accept(/\ f.Type = <<1>>
         /\ ExpectedPayloadBytes(h) = {Len(f.Payload)},
    Big(<<<<"Type", 1>>, <<"Seq", 8>>, <<"CaptureFrame", 8>>>>, f)
      \o Digits(Len(f.Payload), 4) \o f.Payload)

(* What ReadFrame refuses by its header it refuses before the payload. *)
frameHeaderOK(h, b) ==
  LET n == Number(Slice(b, 17, 21)) IN
  b[1] = 1 /\ n <= MaxPayloadBytes /\ ExpectedPayloadBytes(h) = {n}

frameSize(h, b) ==
  IF Len(b) < 21 \/ ~frameHeaderOK(h, b) THEN 21 ELSE 21 + Number(Slice(b, 17, 21))

ReadFrame(h, b) ==
  Accept(frameHeaderOK(h, b), ReadBig(
    [Type |-> <<0, 1>>, Seq |-> <<1, 9>>, CaptureFrame |-> <<9, 17>>,
     Payload |-> <<21, frameSize(h, b)>>], b))

-----------------------------------------------------------------------------
(* v1 datagrams: RAUU, version, type *)

MaxUDPDatagramBytes == 1500
MaxUDPAudioPayloadBytes == 960

udpHello(h) == <<82, 65, 85, 85>> \o h.Version \o <<1>> \o Big(handshakeFields, h)
                 \o Digits(Len(h.Name), 2) \o h.Name

udpAudio(f) == <<82, 65, 85, 85, 1, 2>> \o Big(<<<<"Seq", 8>>, <<"CaptureFrame", 8>>>>, f)
                 \o Digits(Len(f.Payload), 2) \o f.Payload

AppendUDPHello(h) ==
  Accept(Validate(h) /\ 17 + Len(h.Name) <= MaxUDPDatagramBytes, udpHello(h))

AppendUDPAudio(f) ==
  Accept(/\ f.Type = <<1>> /\ Len(f.Payload) \in 1 .. MaxUDPAudioPayloadBytes
         /\ 24 + Len(f.Payload) <= MaxUDPDatagramBytes, udpAudio(f))

decodeUDPHello(version, body) ==
  LET h == ReadBig([Flags |-> <<0, 1>>, SampleRate |-> <<1, 5>>, Channels |-> <<5, 6>>,
                    Format |-> <<6, 7>>, FrameSamples |-> <<7, 9>>,
                    Name |-> <<11, Len(body)>>], body) @@ [Version |-> version]
      nameLen == Number(Slice(body, 9, 11)) IN
  Accept(/\ Len(body) >= 11 /\ nameLen <= MaxNameLen
         /\ Len(body) = 11 + nameLen
         /\ Validate(h), h)

decodeUDPAudio(body) ==
  LET payloadLen == Number(Slice(body, 16, 18)) IN
  Accept(/\ Len(body) >= 18 /\ payloadLen \in 1 .. MaxUDPAudioPayloadBytes
         /\ Len(body) = 18 + payloadLen,
    ReadBig([Seq |-> <<0, 8>>, CaptureFrame |-> <<8, 16>>, Payload |-> <<18, Len(body)>>], body)
      @@ [Type |-> <<1>>])

DecodeUDPDatagram(b) ==
  IF Len(b) > MaxUDPDatagramBytes \/ Len(b) < 6 \/ Slice(b, 0, 5) # <<82, 65, 85, 85, 1>> THEN {}
  ELSE IF b[6] = 1 THEN decodeUDPHello(Slice(b, 4, 5), Tail_(b, 6))
  ELSE IF b[6] = 2 THEN decodeUDPAudio(Tail_(b, 6))
  ELSE {}

-----------------------------------------------------------------------------
(* v2 media datagrams: RAU2, version, type *)

MaxDatagramPayload == 1152

(* appendU40 keeps the low five bytes of the capture time. *)
media(m) ==
  <<82, 65, 85, 50, 1, 1>>
    \o Big(<<<<"StreamID", 1>>, <<"FormatGen", 2>>, <<"Flags", 1>>, <<"Seq", 4>>,
             <<"CaptureTsUs", 5>>>>, m)
    \o Digits(Len(m.Payload), 2) \o m.Payload

AppendMedia(m) == Accept(Len(m.Payload) \in 1 .. MaxDatagramPayload, media(m))

DecodeMedia(b) ==
  LET payloadLen == Number(Slice(b, 19, 21))
      m == ReadBig([StreamID |-> <<6, 7>>, FormatGen |-> <<7, 9>>, Flags |-> <<9, 10>>,
                    Seq |-> <<10, 14>>, CaptureTsUs |-> <<14, 19>>,
                    Payload |-> <<21, Len(b)>>], b) IN
  Accept(/\ Len(b) >= 21 /\ Slice(b, 0, 6) = <<82, 65, 85, 50, 1, 1>>
         /\ payloadLen # 0 /\ Len(b) = 21 + payloadLen,
    [m EXCEPT !.CaptureTsUs = <<0, 0, 0>> \o @])

-----------------------------------------------------------------------------
(* Discovery datagrams: RAUD, version, type, port, name length *)

InstanceIDLen == 16
headerLen == 9
announceNameOffset == headerLen + InstanceIDLen + 4
MaxPacketBytes == announceNameOffset + MaxNameLen
TypeQuery == 1
TypeAnnounce == 2
TypeAnnounceV2 == 3

header(type, port, name) ==
  <<82, 65, 85, 68, 1, type>> \o Digits(port, 2) \o Digits(Len(name), 1)

query(q) == header(TypeQuery, 0, q.Name) \o q.Name

EncodeQuery(q) ==
  Accept(Len(q.Name) <= MaxNameLen /\ headerLen + Len(q.Name) <= MaxPacketBytes, query(q))

(* advertisedAddrBytes: no address and the unspecified one are zero, a     *)
(* mapped one is its IPv4 part, any other IPv6 address is refused.         *)
advertisedAddrBytes(a) ==
  IF \A i \in DOMAIN a : a[i] = 0 THEN {<<0, 0, 0, 0>>}
  ELSE IF Len(a) = 4 THEN {a}
  ELSE Accept(\A i \in 1 .. 12 : a[i] = IF i <= 10 THEN 0 ELSE 255, Low(a, 4))

announce(a) ==
  header(a.Type, a.TCPPort, a.Name) \o a.InstanceID \o a.AdvertisedAddr \o a.Name
    \o (IF a.ProtoVersion = 0 THEN <<>> ELSE <<a.ProtoVersion>>)

EncodeAnnounce(a) ==
  {announce([a EXCEPT !.Type = TypeAnnounce, !.AdvertisedAddr = ip]) :
     ip \in IF /\ a.TCPPort \in 1 .. 65535 /\ Len(a.Name) <= MaxNameLen
               /\ announceNameOffset + Len(a.Name) <= MaxPacketBytes
              THEN advertisedAddrBytes(a.AdvertisedAddr) ELSE {}}

EncodeAnnounceV2(a) ==
  {[p EXCEPT ![6] = TypeAnnounceV2] :
     p \in EncodeAnnounce([a EXCEPT !.ProtoVersion = IF @ = 0 THEN 2 ELSE @])}

Decode(b) ==
  LET type == b[6]
      tcpPort == Number(Slice(b, 6, 8))
      nameLen == b[9]
      trailer == IF type = TypeAnnounceV2 THEN 1 ELSE 0 IN
  IF Len(b) > MaxPacketBytes \/ Len(b) < headerLen \/ Slice(b, 0, 5) # <<82, 65, 85, 68, 1>> THEN {}
  ELSE IF type = TypeQuery
    THEN Accept(Len(b) = headerLen + nameLen /\ tcpPort = 0,
           [Type |-> type, Name |-> Tail_(b, headerLen)])
  ELSE IF type \in {TypeAnnounce, TypeAnnounceV2}
    THEN Accept(/\ Len(b) >= announceNameOffset
                /\ Len(b) = announceNameOffset + nameLen + trailer
                /\ tcpPort # 0,
           ReadBig([InstanceID |-> <<headerLen, headerLen + InstanceIDLen>>,
                    AdvertisedAddr |-> <<headerLen + InstanceIDLen, announceNameOffset>>,
                    Name |-> <<announceNameOffset, announceNameOffset + nameLen>>], b)
             @@ [Type |-> type, TCPPort |-> tcpPort,
                 ProtoVersion |-> IF trailer = 1 THEN b[Len(b)] ELSE 0])
  ELSE {}

-----------------------------------------------------------------------------
(* Writing and reading *)

Streams == {"control", "tcp"}

Init ==
  /\ channel \in Streams \cup {"udp", "media", "discovery"}
  /\ sent = <<>> /\ pipe = <<>> /\ harmed = FALSE /\ got = <<>> /\ failed = FALSE

(* What the encoder refuses goes nowhere.  A stream takes the next write   *)
(* at any time; a datagram has nothing to do with the next, and a          *)
(* behaviour follows one.                                                  *)
Write(on, v, encoded) ==
  /\ channel = on /\ ~harmed /\ ~failed /\ Len(sent) < MaxSent
  /\ on \in Streams \/ sent = <<>>
  /\ \E b \in encoded : pipe' = pipe \o b
  /\ sent' = Append(sent, v)
  /\ UNCHANGED <<channel, harmed, got, failed>>

WriteControl == \E m \in Controls : Write("control", m, WriteMessage(m))

(* The sender writes one handshake, then frames of its format. *)
WriteV1 ==
  \/ /\ sent = <<>>
     /\ \E h \in {withVersion(h) : h \in Handshakes} : Write("tcp", h, WriteHandshake(h))
  \/ /\ sent # <<>>
     /\ \E f \in {withType(f) : f \in Frames} : Write("tcp", f, WriteFrame(sent[1], f))

WriteUDP ==
  \/ \E h \in {withVersion(h) : h \in Handshakes} : Write("udp", h, AppendUDPHello(h))
  \/ \E f \in {withType(f) : f \in Frames} : Write("udp", f, AppendUDPAudio(f))

(* The capture time is carried modulo 2^40. *)
WriteMedia ==
  \E m \in Medias :
    Write("media", [m EXCEPT !.CaptureTsUs = <<0, 0, 0>> \o Low(@, 5)], AppendMedia(m))

(* An announce of the v1 receiver or of the host, and the second one the   *)
(* host sends with it.                                                     *)
WriteDiscovery ==
  \/ \E q \in Queries : Write("discovery", q, EncodeQuery(q))
  \/ \E a \in Announces : \E ip \in advertisedAddrBytes(a.AdvertisedAddr) :
       LET v == [a EXCEPT !.AdvertisedAddr = ip] IN
       Write("discovery", v, IF a.Type = TypeAnnounce THEN EncodeAnnounce(a) ELSE EncodeAnnounceV2(a))

(* The connection breaks: the end of what was written is not delivered. *)
Cut ==
  /\ channel \in Streams /\ ~harmed /\ ~failed
  /\ \E n \in Cuts : n < Len(pipe) /\ pipe' = SubSeq(pipe, 1, Len(pipe) - n)
  /\ harmed' = TRUE
  /\ UNCHANGED <<channel, sent, got, failed>>

(* A datagram that is not the writer's arrives in its place: a byte of it  *)
(* differs, or it is a byte shorter or longer.                             *)
headerBytes == 40
Other(b) ==
  {[b EXCEPT ![i] = (@ + 1) % 256] : i \in {i \in DOMAIN b : i <= headerBytes}}
    \cup {SubSeq(b, 1, Len(b) - 1), Append(b, 0)}

Stray ==
  /\ channel \notin Streams /\ ~harmed /\ pipe # <<>>
  /\ pipe' \in Other(pipe)
  /\ harmed' = TRUE
  /\ UNCHANGED <<channel, sent, got, failed>>

(* A reader fills a buffer of size bytes, waiting for them on a stream     *)
(* until it breaks, and returns what the decoder makes of it.              *)
Read(size, decoded) ==
  /\ ~failed
  /\ \/ /\ Len(pipe) >= size
        /\ \/ decoded = {} /\ failed' = TRUE /\ UNCHANGED <<got, pipe>>
           \/ /\ \E v \in decoded : got' = Append(got, v)
              /\ pipe' = Tail_(pipe, size)
              /\ UNCHANGED failed
     \/ Len(pipe) < size /\ harmed /\ failed' = TRUE /\ UNCHANGED <<got, pipe>>
  /\ UNCHANGED <<channel, sent, harmed>>

ReadControl == channel = "control" /\ Read(messageSize(pipe), ReadMessage(pipe))

ReadV1 ==
  /\ channel = "tcp"
  /\ IF got = <<>> THEN Read(handshakeSize(pipe), ReadHandshake(pipe))
                   ELSE Read(frameSize(got[1], pipe), ReadFrame(got[1], pipe))

ReadDatagram ==
  /\ pipe # <<>> /\ channel \notin Streams
  /\ Read(Len(pipe), CASE channel = "udp" -> DecodeUDPDatagram(pipe)
                       [] channel = "media" -> DecodeMedia(pipe)
                       [] channel = "discovery" -> Decode(pipe))

Next ==
  \/ WriteControl \/ WriteV1 \/ WriteUDP \/ WriteMedia \/ WriteDiscovery
  \/ Cut \/ Stray
  \/ ReadControl \/ ReadV1 \/ ReadDatagram

-----------------------------------------------------------------------------
(* The bytes that stand for a value. *)
Bytes(v) ==
  CASE channel = "control" -> WriteMessage(v)
    [] channel = "tcp" -> IF got = <<>> THEN WriteHandshake(v) ELSE WriteFrame(got[1], v)
    [] channel = "udp" -> IF "Name" \in DOMAIN v THEN {udpHello(v)} ELSE {udpAudio(v)}
    [] channel = "media" -> {media(v)}
    [] channel = "discovery" -> IF v.Type = TypeQuery THEN {query(v)} ELSE {announce(v)}

(* A name of full length leaves no room for the version byte of a type-3   *)
(* announce under MaxPacketBytes.                                          *)
tooLong(v) == channel = "discovery" /\ v.Type = TypeAnnounceV2 /\ Len(v.Name) = MaxNameLen

(* A reader returns the values that were written, in their order and with  *)
(* nothing between them, and never a part of one, wherever the connection  *)
(* breaks; what a writer accepts, a reader of the same bytes accepts, but  *)
(* for the one announce that is too long; and no reader takes a datagram   *)
(* with bytes in it that do not stand for the value it returns.            *)
ReadAsWritten ==
  [][/\ ~harmed \/ channel \in Streams => IsPrefix(got', sent')
     /\ failed' /\ ~failed => harmed \/ tooLong(Last(sent))
     /\ got' # got => \E b \in Bytes(Last(got')) : b \o pipe' = pipe]_wireVars
=============================================================================
