------------------------------- MODULE MCHost -------------------------------
(***************************************************************************)
(* The host's media side: HostCapture, the AudioRing of one capture, or    *)
(* one HostStream; which picks the one a behaviour is about.  The bit      *)
(* rates stand for tens of kbit/s.                                         *)
(***************************************************************************)
EXTENDS HostCapture, AudioRing

CONSTANTS OpusMs, MaxGen, MaxPresets

Auto == [min |-> 4, max |-> 10, fec |-> FALSE]
Robust == [min |-> 7, max |-> 9, fec |-> TRUE]

VARIABLES
  which,
  codec, formatGen, frameMs, decoder, spoilt, preset, rate, fec, cool, dwelt,
  decision, caps, encoder, changes

Stream == INSTANCE HostStream WITH
  Presets <- {Auto, Robust}, Standard <- Auto,
  Asked <- {[rate |-> 3, fec |-> FALSE], [rate |-> 8, fec |-> TRUE]}

streamVars == <<codec, formatGen, frameMs, decoder, spoilt, preset, rate, fec, cool, dwelt,
                decision, caps, encoder, changes>>

ASSUME CaptureRingSizes == RingSizes

HostInit == which \in {"capture", "ring", "stream"} /\ Init /\ RingInit /\ Stream!Init

HostNext ==
  /\ UNCHANGED which
  /\ \/ which = "capture" /\ Next /\ UNCHANGED <<ringVars, streamVars>>
     \/ which = "ring" /\ RingNext /\ UNCHANGED <<vars, streamVars>>
     \/ which = "stream" /\ Stream!Next /\ UNCHANGED <<vars, ringVars>>

HostSpec ==
  /\ HostInit /\ [][HostNext]_<<which, vars, ringVars, streamVars>>
  /\ Fairness
  /\ WF_streamVars(which = "stream" /\ UNCHANGED <<which, vars, ringVars>> /\ \E l \in Stream!Levels : Stream!Update(l))
  /\ WF_streamVars(which = "stream" /\ UNCHANGED <<which, vars, ringVars>> /\ Stream!Apply)

(* HostStream!PresetTakesEffect, for the behaviours about a stream. *)
PresetTakesEffect == which = "stream" => Stream!PresetTakesEffect

(* HostStream!SwitchCostsOneFrame. *)
SwitchCostsOneFrame == Stream!SwitchCostsOneFrame
=============================================================================
