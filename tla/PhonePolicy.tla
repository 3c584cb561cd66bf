----------------------------- MODULE PhonePolicy -----------------------------
(***************************************************************************)
(* The adaptive jitter target of the phone (Engine/                        *)
(* AdaptiveJitterPolicy.swift), as housekeeping drives it and the settings *)
(* change it.  The audio thread and the utility timer each run a pass of   *)
(* housekeeping a second; a pass takes the policy's lock for each of its   *)
(* calls and lets go between them, so the settings, which come on the main *)
(* thread, and the other pass may come in between.  Passes while the       *)
(* receiver is stopped, which return at once, are left out.  Milliseconds  *)
(* are whole; ages count passes and stop at the longest hold.  What the    *)
(* network demands above the floor is one number per condition, since      *)
(* update only adds its weighted parts up.                                 *)
(***************************************************************************)
EXTENDS Integers, FiniteSetsExt

CONSTANTS
  Networks,       \* records [need, healthy]: demand above the floor, health
  BoundsChoices,  \* what the sliders of the settings allow, <<min, max>>
  ManualChoices,  \* the slider of the manual target
  FallRate, RiseRate,                \* fallRateMsPerSec, riseRateMsPerSec
  HoldAfterChange, ImprovementHold,  \* holdAfterChange, improvementHold, in passes
  MaxSettings     \* bound: changes of the settings or of the network

(* The ranges of the sliders (RootView.swift). *)
ASSUME PolicyAssumption ==
  /\ Networks \subseteq [need : Nat, healthy : BOOLEAN]
  /\ BoundsChoices \subseteq (4 .. 120) \X (20 .. 400)
  /\ ManualChoices \subseteq 8 .. 200
  /\ FallRate \in Nat /\ RiseRate \in Nat
  /\ HoldAfterChange \in Nat /\ ImprovementHold \in Nat /\ HoldAfterChange <= ImprovementHold

VARIABLES
  preset, current, minMs, maxMs, manual,
  sinceChange,    \* age of lastChange, Unset while lastChange is 0
  sinceTrouble,   \* age of stableSince
  network, changes,
  pass,           \* per thread of housekeeping: the call it makes next, its
                  \* targetMs, whether a setting has changed since its update
  target          \* the target last given to the engine (setTargetMs)

policyVars ==
  <<preset, current, minMs, maxMs, manual, sinceChange, sinceTrouble, network,
    changes, pass, target>>

Presets == {"auto", "lowestLatency", "lossless", "robust", "advanced"}
Threads == {"audio", "timer"}
NoPass == [at |-> "idle", targetMs |-> 0, disturbed |-> FALSE]
Unset == -1
AgeCap == ImprovementHold + 1
minimumMs == 8
hardMax == 400

profileTarget(p) ==
  CASE p = "auto" -> 15 [] p = "lowestLatency" -> 10 [] p = "lossless" -> 25
    [] p = "robust" -> 60 [] p = "advanced" -> 20
ceilingMs == 120

clampTo(lo, hi, x) == Min({hi, Max({lo, x})})
older(age) == Min({age + 1, AgeCap})

PolicyInit ==
  /\ preset = "auto" /\ current = profileTarget("auto")
  /\ minMs = minimumMs /\ maxMs = hardMax /\ manual = 20
  /\ sinceChange = Unset /\ sinceTrouble = 0
  /\ network \in Networks /\ changes = 0
  /\ pass = [t \in Threads |-> NoPass] /\ target = 15

-----------------------------------------------------------------------------
change == changes < MaxSettings /\ changes' = changes + 1

(* A setting changes: passes between their update and their last call have *)
(* read what was there before.                                             *)
setting ==
  /\ change
  /\ pass' = [t \in Threads |-> [pass[t] EXCEPT !.disturbed = @ \/ pass[t].at \notin {"idle", "update"}]]

networkChanges ==
  /\ change /\ network' \in Networks \ {network}
  /\ UNCHANGED <<preset, current, minMs, maxMs, manual, sinceChange, sinceTrouble, pass, target>>

boundsAsGiven(lo, hi) == <<clampTo(4, hardMax, lo), Min({hardMax, hi})>>

(* setBounds: the sliders give a minimum and a maximum in any order. *)
boundsOf(lo, hi) ==
  LET l == clampTo(4, hardMax, lo) IN <<l, Max({l, Min({hardMax, hi})})>>

setBounds(b) ==
  LET c == boundsOf(b[1], b[2])
  IN /\ setting
     /\ minMs' = c[1] /\ maxMs' = c[2]
     /\ current' = clampTo(c[1], c[2], current)
     /\ UNCHANGED <<preset, manual, sinceChange, sinceTrouble, network, target>>

(* setPreset: a new policy, with the bounds of the old one. *)
setPreset(p) ==
  /\ setting /\ preset' = p
  /\ current' = clampTo(minMs, maxMs, profileTarget(p))
  /\ manual' = 20 /\ sinceChange' = Unset /\ sinceTrouble' = 0
  /\ UNCHANGED <<minMs, maxMs, network, target>>

setManualTarget(ms) ==
  /\ setting
  /\ manual' = clampTo(minimumMs, hardMax, ms) /\ current' = manual'
  /\ UNCHANGED <<preset, minMs, maxMs, sinceChange, sinceTrouble, network, target>>

-----------------------------------------------------------------------------
updateFixed ==
  /\ preset \in {"lowestLatency", "lossless", "robust"}
  /\ current' = clampTo(minMs, maxMs, profileTarget(preset))
  /\ UNCHANGED <<sinceChange, sinceTrouble>>

updateAdvanced ==
  /\ preset = "advanced"
  /\ UNCHANGED <<current, sinceChange, sinceTrouble>>

(* stableSince: trouble is a rise or an unhealthy network. *)
troubleAge(rises) == older(IF rises \/ ~network.healthy THEN 0 ELSE sinceTrouble)

updateAuto ==
  LET from     == clampTo(minMs, maxMs, current)
      required == clampTo(minMs, maxMs, minMs + network.need)
      changed  == IF sinceChange = Unset THEN 0 ELSE sinceChange
      rises    == from < required
      falls    == /\ ~rises /\ network.healthy
                  /\ sinceTrouble > ImprovementHold /\ changed > HoldAfterChange
  IN /\ preset = "auto"
     /\ current' = IF rises
                   THEN Min({ceilingMs, maxMs, from + Min({required - from, RiseRate})})
                   ELSE IF falls THEN Max({minMs, from - FallRate}) ELSE from
     /\ sinceChange' = older(IF rises \/ falls THEN 0 ELSE changed)
     /\ sinceTrouble' = troubleAge(rises)

(* reset, at the start of a pass that finds a capture discontinuity. *)
resetPolicy(t) ==
  /\ pass[t].at = "idle" /\ pass' = [pass EXCEPT ![t].at = "update"]
  /\ current' = clampTo(minMs, maxMs, profileTarget(preset))
  /\ sinceChange' = Unset /\ sinceTrouble' = 0
  /\ change
  /\ UNCHANGED <<preset, minMs, maxMs, manual, network, target>>

(* The pass calls update, which returns the current target. *)
update(t) ==
  /\ pass[t].at \in {"idle", "update"}
  /\ updateFixed \/ updateAdvanced \/ updateAuto
  /\ pass' = [pass EXCEPT ![t] = [at |-> "preset", targetMs |-> current', disturbed |-> FALSE]]
  /\ UNCHANGED <<preset, minMs, maxMs, manual, network, changes, target>>

policyAsIs ==
  UNCHANGED <<preset, current, minMs, maxMs, manual, sinceChange, sinceTrouble, network, changes>>

(* Mutant: the manual target is not looked at. *)
readPresetForNothing(t) ==
  /\ pass[t].at = "preset"
  /\ pass' = [pass EXCEPT ![t].at = "give"]
  /\ policyAsIs /\ UNCHANGED target

(* Then it reads the preset, and under the advanced one the manual target, *)
(* which wins.                                                             *)
readPreset(t) ==
  /\ pass[t].at = "preset"
  /\ pass' = [pass EXCEPT ![t].at = IF preset = "advanced" THEN "manual" ELSE "give"]
  /\ policyAsIs /\ UNCHANGED target

readManual(t) ==
  /\ pass[t].at = "manual"
  /\ pass' = [pass EXCEPT ![t].at = "give", ![t].targetMs = manual]
  /\ policyAsIs /\ UNCHANGED target

(* audio.setTargetMs. *)
setTargetMs(t) ==
  /\ pass[t].at = "give"
  /\ target' = pass[t].targetMs /\ pass' = [pass EXCEPT ![t] = NoPass]
  /\ policyAsIs

passStep(t) == update(t) \/ readPreset(t) \/ readManual(t) \/ setTargetMs(t)

PolicyNext ==
  \/ networkChanges
  \/ \E t \in Threads : resetPolicy(t) \/ passStep(t)
  \/ \E b \in BoundsChoices : setBounds(b)
  \/ \E p \in Presets : setPreset(p)
  \/ \E ms \in ManualChoices : setManualTarget(ms)

PolicySpec == PolicyInit /\ [][PolicyNext]_policyVars

-----------------------------------------------------------------------------
(* The target the settings ask for. *)
asSet(ms) == IF preset = "advanced" THEN ms = manual ELSE ms \in minMs .. maxMs

(* Whatever the sliders, the presets, a manual target left over from the   *)
(* advanced preset, resets, the network and the other pass do, and in      *)
(* whatever order, a pass during which no setting changes gives the engine *)
(* the manual target under the advanced preset and else one between the    *)
(* user's bounds (setBounds, setPreset, update, housekeeping).             *)
TargetInBounds ==
  \A t \in Threads : pass[t].at = "give" /\ ~pass[t].disturbed => asSet(pass[t].targetMs)

(* A pass that mixes settings from before and after a change may give the  *)
(* engine a target that suits neither, but not for good: once the settings *)
(* rest, the engine has what they ask for and keeps it (housekeeping).     *)
SettingsTakeEffect == <>[]asSet(target)

(* What the settings screen and the comment on the bounds say: fixed       *)
(* presets and the manual target stay in range too (setBounds,             *)
(* setManualTarget, housekeeping).                                         *)
ManualInRange ==
  \A t \in Threads : pass[t].at = "give" /\ ~pass[t].disturbed
                      => pass[t].targetMs \in minMs .. maxMs

(* Under conditions that no longer change the target comes to rest.        *)
TargetSettles == <>[][target' = target]_policyVars
=============================================================================
