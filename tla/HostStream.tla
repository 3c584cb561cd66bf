----------------------------- MODULE HostStream -----------------------------
(***************************************************************************)
(* One receiver's stream on the host (engine/host.go, quality/adaptive.go, *)
(* engine/qualitymode.go): the adaptive quality controller fed by the      *)
(* receiver's STATS, the presets that replace it, the codec switch, and    *)
(* the send loop that encodes.  The receiver's side is its decoder         *)
(* (engine/client.go).  Bit rates are small numbers with the code's        *)
(* factors; a STATS message is the level classify makes of it.             *)
(***************************************************************************)
EXTENDS Integers

CONSTANTS
  Presets,     \* presets: [min, max, fec], SetQuality's and QUALITY_MODE's
  Standard,    \* the preset a new stream starts with
  OpusMs,      \* frame length of an Opus stream, in ms
  Asked,       \* encoder settings a receiver may ask for: [rate, fec]
  MaxGen,      \* bound: codec switches
  MaxPresets   \* bound: preset changes

PcmMs == 5
Pcm == [opus |-> FALSE, ms |-> PcmMs]
Opus(ms) == [opus |-> TRUE, ms |-> ms]

VARIABLES
  codec,      \* st.codec with st.caps
  formatGen,
  frameMs,    \* the frame length sendLoop started with
  decoder,    \* the receiver's codec, from STREAM_ACK
  spoilt,     \* frames in a row that the receiver could not use
  preset,     \* bounds and FEC bias in force (st.quality, st.fecBias)
  rate, fec,  \* the controller's bit rate and FEC
  cool,       \* the cooldown has passed since lastAdjust
  dwelt,      \* switchDwell has passed since lastSwitch
  decision,   \* what Update returned to handleControl, <<>> when idle
  caps,       \* the negotiated encoder settings: [rate, fec]
  encoder,    \* the encoder's own settings: [rate, fec]
  changes

vars == <<codec, formatGen, frameMs, decoder, spoilt, preset, rate, fec, cool, dwelt,
          decision, caps, encoder, changes>>

quality == <<preset, rate, fec, cool>>
format == <<codec, formatGen, frameMs, decoder, spoilt>>

middle(p) == (p.min + p.max) \div 2

(* startStreamFor *)
Init ==
  \E c \in {Pcm, Opus(OpusMs)}, a \in Asked :
    /\ codec = c /\ formatGen = 1 /\ frameMs = c.ms /\ decoder = c /\ spoilt = 0
    /\ preset = Standard /\ rate = middle(Standard) /\ fec = FALSE
    /\ cool = TRUE /\ dwelt = TRUE /\ decision = <<>> /\ caps = a /\ encoder = a
    /\ changes = 0

-----------------------------------------------------------------------------
Levels == {"excellent", "good", "fair", "poor"}

clamp(x, p) == IF x < p.min THEN p.min ELSE IF x > p.max THEN p.max ELSE x

scale(level) ==
  LET percent == CASE level = "excellent" -> 110 [] level = "good" -> 100
                   [] level = "fair" -> 85 [] level = "poor" -> 70
  IN clamp((rate * percent) \div 100, preset)

(* Controller.Update: within the cooldown the decision is the standing one *)
(* and asks for no switch.  Whether a clean level also drops FEC depends   *)
(* on the smoothed loss.                                                   *)
Update(level) ==
  /\ decision = <<>>
  /\ IF cool
     THEN /\ rate' = scale(level)
          /\ \/ level = "excellent" /\ fec' = FALSE
             \/ level \in {"excellent", "good"} /\ fec' = fec
             \/ level \in {"fair", "poor"} /\ fec' = TRUE
          /\ cool' = FALSE
          /\ decision' = <<[rate |-> rate', fec |-> fec',
                            want |-> CASE level = "excellent" -> "pcm"
                                       [] level = "good" -> "none" [] OTHER -> "opus"]>>
     ELSE /\ decision' = <<[rate |-> rate, fec |-> fec, want |-> "none"]>>
          /\ UNCHANGED <<rate, fec, cool>>
  /\ UNCHANGED <<format, preset, dwelt, caps, encoder, changes>>

settleSwitchesOnly(d) ==
  IF codec.opus /\ d.want # "none" THEN [rate |-> d.rate, fec |-> d.fec \/ preset.fec] ELSE encoder

(* applyQuality's live settings; the Robust preset pins FEC on. *)
settle(d) == IF codec.opus THEN [rate |-> d.rate, fec |-> d.fec \/ preset.fec] ELSE encoder

switches(d) ==
  /\ d.want # "none" /\ dwelt /\ formatGen < MaxGen
  /\ codec.opus # (d.want = "opus")

(* switchCodec's new codec: Opus frames of at least 10 ms, PCM of 5 ms. *)
switched == IF codec.opus THEN Pcm ELSE Opus(IF codec.ms < 10 THEN 10 ELSE codec.ms)

(* applyQuality, and switchCodec when it comes to that: the new encoder    *)
(* starts with the negotiated settings.  FORMAT_UPDATE is sent, but the    *)
(* receiver reads no control message once it streams (runOnce sets a       *)
(* handler and starts no ServeLoop), so its decoder stays.                 *)
Apply ==
  LET d == decision[1]
  IN /\ decision # <<>> /\ decision' = <<>>
     /\ IF switches(d)
        THEN /\ codec' = switched /\ formatGen' = formatGen + 1 /\ dwelt' = FALSE
             /\ encoder' = caps
        ELSE encoder' = settle(d) /\ UNCHANGED <<codec, formatGen, dwelt>>
     /\ UNCHANGED <<frameMs, decoder, spoilt, quality, caps, changes>>

(* SetQuality from the tray, at any time, or QUALITY_MODE from the         *)
(* receiver: a new controller, whose clock is at zero.                     *)
SetQuality(p) ==
  /\ changes < MaxPresets /\ changes' = changes + 1
  /\ preset' = p /\ rate' = middle(p) /\ fec' = FALSE /\ cool' = TRUE
  /\ UNCHANGED <<format, dwelt, decision, caps, encoder>>

Elapse ==
  /\ ~cool \/ ~dwelt
  /\ cool' = TRUE /\ dwelt' \in {dwelt, TRUE}
  /\ UNCHANGED <<format, preset, rate, fec, decision, caps, encoder, changes>>

-----------------------------------------------------------------------------
(* EncodeFrame refuses a frame of another length than the codec's. *)
fits == frameMs = codec.ms

(* One turn of sendLoop, which fills frames of the length it started with, *)
(* and what becomes of the frame at the receiver.                          *)
Encode ==
  /\ spoilt' = IF fits /\ decoder = codec THEN 0 ELSE IF spoilt < 2 THEN spoilt + 1 ELSE spoilt
  /\ UNCHANGED <<codec, formatGen, frameMs, decoder, quality, dwelt, decision, caps, encoder,
                 changes>>

Next ==
  \/ Apply \/ Elapse \/ Encode
  \/ \E level \in Levels : Update(level)
  \/ \E p \in Presets : SetQuality(p)

-----------------------------------------------------------------------------
(* A preset takes effect on an Opus stream: its bounds and, for Robust,    *)
(* FEC reach the encoder, although SetQuality can come between a decision  *)
(* and its application and a codec switch starts a fresh encoder.          *)
PresetInEffect ==
  /\ encoder.rate \in preset.min .. preset.max
  /\ preset.fec => encoder.fec
PresetTakesEffect == codec.opus ~> (PresetInEffect \/ ~codec.opus)

(* "worst case: one frame decoded with the previous codec" (switchCodec):  *)
(* no more than one frame in a row is lost to a codec switch.              *)
SwitchCostsOneFrame == spoilt <= 1

(* The receiver reports STATS every few seconds and handleControl          *)
(* finishes.                                                               *)
Fairness == WF_vars(\E level \in Levels : Update(level)) /\ WF_vars(Apply)
=============================================================================
