------------------------------ MODULE MCPhone ------------------------------
(***************************************************************************)
(* The parts of the phone's receiver, one part per behaviour: which picks  *)
(* it and the others keep their initial state.                             *)
(***************************************************************************)
EXTENDS PhoneReceiver, PhonePolicy, PhoneRecorder, PhoneReorder, PCMRing

VARIABLE which

partVars == <<receiverVars, policyVars, recorderVars, reorderVars, vars>>

(* Conditions of the network as update weighs them. *)
MCNetworks == {[need |-> 0, healthy |-> TRUE], [need |-> 200, healthy |-> FALSE]}
MCBounds == {<<4, 20>>, <<100, 50>>}

ASSUME PhoneRingSizes == RingSizes

PhoneInit ==
  /\ which \in {"receiver", "policy", "recorder", "reorder", "ring"}
  /\ ReceiverInit /\ PolicyInit /\ RecorderInit /\ ReorderInit /\ Init
  /\ which # "policy" => network = [need |-> 0, healthy |-> TRUE]

Only(part, next) == which = part /\ next /\ UNCHANGED which

ReceiverStep(next) ==
  Only("receiver", next) /\ UNCHANGED <<policyVars, recorderVars, reorderVars, vars>>
PolicyStep(next) ==
  Only("policy", next) /\ UNCHANGED <<receiverVars, recorderVars, reorderVars, vars>>
RecorderStep ==
  Only("recorder", RecorderNext) /\ UNCHANGED <<receiverVars, policyVars, reorderVars, vars>>
BufferStep ==
  Only("reorder", ReorderNext) /\ UNCHANGED <<receiverVars, policyVars, recorderVars, vars>>
RingStep ==
  Only("ring", Next) /\ UNCHANGED <<receiverVars, policyVars, recorderVars, reorderVars>>

PhoneNext ==
  ReceiverStep(ReceiverNext) \/ PolicyStep(PolicyNext) \/ RecorderStep \/ BufferStep \/ RingStep

(* The threads keep running, a sender that streams repeats its HELLO and   *)
(* its sound, and both threads' passes keep coming.                         *)
PhoneSpec ==
  /\ PhoneInit /\ [][PhoneNext]_<<which, partVars>>
  /\ WF_partVars(ReceiverStep(audioThread)) /\ WF_partVars(ReceiverStep(pollTimesOut))
  /\ WF_partVars(ReceiverStep(mainRuns)) /\ WF_partVars(ReceiverStep(ThreeSecondsPass))
  /\ WF_partVars(ReceiverStep(housekeeping))
  /\ \A s \in Senders, k \in {"hello", "audio"} : SF_partVars(ReceiverStep(receive(s, k)))
  /\ \A t \in Threads : WF_partVars(PolicyStep(passStep(t)))
=============================================================================
