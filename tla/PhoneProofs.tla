---------------------------- MODULE PhoneProofs ----------------------------
(***************************************************************************)
(* Proofs about the phone's receiver: the binding of a sender, the         *)
(* adaptive jitter target, the reorder buffer, the render ring and the     *)
(* recorder, for every set of senders, every network condition, every      *)
(* drift ratio and every choice of the buffers' limits.                    *)
(***************************************************************************)
EXTENDS PhoneReceiver, PhonePolicy, PhoneReorder, PCMRing, PhoneRecorder,
        ModArithmetic, FiniteSetTheorems, SequenceTheorems, TLAPS

-----------------------------------------------------------------------------
(* The binding *)

(* While a datagram is in hand the binding is its sender or nobody, since  *)
(* only the audio thread binds: stop and disconnect, which may come after  *)
(* the binding was read, only give it up.                                  *)
BindingFits == loop = "handle" => senderAddr \in {Nobody, datagram.from}

(* BindingFits holds for every step of every thread. *)
LEMMA BindingFitsStep ==
  BindingFits /\ [ReceiverNext]_receiverVars => BindingFits'
<1> SUFFICES ASSUME BindingFits, [ReceiverNext]_receiverVars PROVE BindingFits'
  OBVIOUS
<1> USE DEF BindingFits
<1>1. CASE start \/ toggleRecording \/ ExternalTurns \/ ThreeSecondsPass \/ housekeeping
           \/ pollTimesOut
  BY <1>1 DEF start, toggleRecording, ExternalTurns, ThreeSecondsPass, housekeeping, pollTimesOut
<1>2. CASE stop \/ disconnect
  BY <1>2 DEF stop, disconnect
<1>3. CASE audioThread
  BY <1>3 DEF audioThread, loopEnds, handleHandshake, configureStream, handleAudio, watchdog
<1>4. CASE mainRuns
  BY <1>4 DEF mainRuns
<1>5. ASSUME NEW s \in Senders, SenderTurns(s) PROVE BindingFits'
  BY <1>5 DEF SenderTurns
<1>6. ASSUME NEW s \in Senders, NEW k \in {"hello", "audio"}, receive(s, k) PROVE BindingFits'
  BY <1>6 DEF receive, heeds
<1>7. CASE UNCHANGED receiverVars
  BY <1>7 DEF receiverVars
<1> QED
  BY <1>1, <1>2, <1>3, <1>4, <1>5, <1>6, <1>7 DEF ReceiverNext

(* The first active sender wins: the binding never goes from one PC to     *)
(* another, although handleDatagram reads it under senderLock, lets go and *)
(* writes it later.                                                        *)
THEOREM BindingChangesHands == ReceiverSpec => FirstSenderWins
<1>1. ReceiverInit => BindingFits
  BY DEF ReceiverInit, BindingFits
<1>2. BindingFits /\ [ReceiverNext]_receiverVars
        => [senderAddr' # senderAddr => Nobody \in {senderAddr, senderAddr'}]_receiverVars
  <2> SUFFICES ASSUME BindingFits, ReceiverNext, senderAddr' # senderAddr
               PROVE  Nobody \in {senderAddr, senderAddr'}
    BY DEF receiverVars
  <2>1. CASE stop \/ disconnect
    BY <2>1 DEF stop, disconnect
  <2>2. CASE audioThread
    BY <2>2 DEF audioThread, loopEnds, handleHandshake, configureStream, handleAudio, watchdog,
                dropBinding, BindingFits
  <2>3. CASE start \/ toggleRecording \/ ExternalTurns \/ ThreeSecondsPass \/ housekeeping
             \/ pollTimesOut \/ mainRuns
    BY <2>3 DEF start, toggleRecording, ExternalTurns, ThreeSecondsPass, housekeeping,
                pollTimesOut, mainRuns
  <2>4. ~\E s \in Senders : SenderTurns(s) \/ \E k \in {"hello", "audio"} : receive(s, k)
    BY DEF SenderTurns, receive
  <2> QED
    BY <2>1, <2>2, <2>3, <2>4 DEF ReceiverNext
<1> QED
  BY <1>1, <1>2, BindingFitsStep, PTL DEF ReceiverSpec, FirstSenderWins

-----------------------------------------------------------------------------
(* The jitter target *)

(* The smaller of two integers. *)
LEMMA MinOfTwo ==
  ASSUME NEW a \in Int, NEW b \in Int
  PROVE  Min({a, b}) = IF a <= b THEN a ELSE b
<1>1. \E x \in {a, b} : \A y \in {a, b} : x =< y
  OBVIOUS
<1>2. Min({a, b}) \in {a, b} /\ \A y \in {a, b} : Min({a, b}) =< y
  BY <1>1 DEF Min
<1> QED
  BY <1>2

(* The larger of two integers. *)
LEMMA MaxOfTwo ==
  ASSUME NEW a \in Int, NEW b \in Int
  PROVE  Max({a, b}) = IF a >= b THEN a ELSE b
<1>1. \E x \in {a, b} : \A y \in {a, b} : x >= y
  OBVIOUS
<1>2. Max({a, b}) \in {a, b} /\ \A y \in {a, b} : Max({a, b}) >= y
  BY <1>1 DEF Max
<1> QED
  BY <1>2

(* The smallest of three integers is one of them and below all. *)
LEMMA MinOfThree ==
  ASSUME NEW a \in Int, NEW b \in Int, NEW c \in Int
  PROVE  /\ Min({a, b, c}) \in {a, b, c}
         /\ Min({a, b, c}) <= a /\ Min({a, b, c}) <= b /\ Min({a, b, c}) <= c
<1>1. \E x \in {a, b, c} : \A y \in {a, b, c} : x =< y
  OBVIOUS
<1> QED
  BY <1>1 DEF Min

(* clampTo puts a number between its bounds, and leaves one there alone. *)
LEMMA ClampInBounds ==
  ASSUME NEW lo \in Int, NEW hi \in Int, lo <= hi, NEW x \in Int
  PROVE  clampTo(lo, hi, x) \in lo .. hi
<1>1. Max({lo, x}) \in Int /\ Max({lo, x}) >= lo
  BY MaxOfTwo
<1> QED
  BY <1>1, MinOfTwo DEF clampTo

(* The user's bounds are in order, and the lower one, which its slider     *)
(* keeps at 120 or less, is not above the ceiling of a rise.               *)
SettingsInv ==
  /\ preset \in Presets /\ network \in Networks
  /\ current \in Int /\ minMs \in Int /\ maxMs \in Int /\ manual \in Int
  /\ minMs <= maxMs /\ minMs <= ceilingMs

PassTypes ==
  pass \in [Threads -> [at : {"idle", "update", "preset", "manual", "give"},
                        targetMs : Int, disturbed : BOOLEAN]]

(* What a pass has in hand while no setting has changed since its update.  *)
InForce(q) ==
  ~q.disturbed =>
    /\ q.at = "preset" /\ preset # "advanced" => q.targetMs \in minMs .. maxMs
    /\ q.at = "manual" => preset = "advanced"
    /\ q.at = "give" => asSet(q.targetMs)

(* The inductive invariant: the settings are in order, and each pass holds *)
(* what they ask for or has been disturbed.                                *)
PolicyInv == SettingsInv /\ PassTypes /\ \A t \in Threads : InForce(pass[t])

(* setBounds puts what the sliders give in order. *)
LEMMA BoundsInOrder ==
  ASSUME NEW lo \in 4 .. 120, NEW hi \in 20 .. 400
  PROVE  LET c == boundsOf(lo, hi)
         IN  c[1] \in Int /\ c[2] \in Int /\ c[1] <= c[2] /\ c[1] <= ceilingMs
<1> DEFINE l == clampTo(4, hardMax, lo)
           m == Min({hardMax, hi})
<1>1. hardMax \in Int /\ lo \in Int /\ hi \in Int
  BY DEF hardMax
<1>2. Max({4, lo}) = lo /\ Min({hardMax, lo}) = lo
  <2>1. Max({4, lo}) = IF 4 >= lo THEN 4 ELSE lo
    BY <1>1, MaxOfTwo
  <2>2. Min({hardMax, lo}) = IF hardMax <= lo THEN hardMax ELSE lo
    BY <1>1, MinOfTwo
  <2> QED
    BY <2>1, <2>2 DEF hardMax
<1>3. l = lo
  BY <1>2 DEF clampTo
<1>4. m \in Int
  <2>1. m = IF hardMax <= hi THEN hardMax ELSE hi
    BY <1>1, MinOfTwo
  <2> QED
    BY <1>1, <2>1
<1>5. boundsOf(lo, hi) = <<l, Max({l, m})>>
  BY DEF boundsOf
<1> HIDE DEF l, m
<1>6. Max({l, m}) \in Int /\ Max({l, m}) >= l
  BY <1>1, <1>3, <1>4, MaxOfTwo
<1> QED
  BY <1>1, <1>3, <1>5, <1>6 DEF ceilingMs

(* An automatic pass stays between the bounds. *)
LEMMA AutoInBounds ==
  ASSUME SettingsInv, updateAuto
  PROVE  current' \in minMs .. maxMs
<1> DEFINE from     == clampTo(minMs, maxMs, current)
           required == clampTo(minMs, maxMs, minMs + network.need)
           rise     == Min({required - from, RiseRate})
           raised   == Min({ceilingMs, maxMs, from + rise})
           fallen   == Max({minMs, from - FallRate})
<1>1. from \in minMs .. maxMs /\ minMs \in Int /\ maxMs \in Int /\ minMs <= maxMs /\ minMs <= ceilingMs
  BY ClampInBounds DEF SettingsInv
<1>2. required \in minMs .. maxMs
  <2>1. network.need \in Nat
    BY PolicyAssumption DEF SettingsInv
  <2>2. minMs + network.need \in Int
    BY <1>1, <2>1
  <2> HIDE DEF from
  <2> QED
    BY <1>1, <2>2, ClampInBounds
<1> HIDE DEF from, required
<1>3. rise \in Int /\ (from < required => rise >= 0)
  BY <1>1, <1>2, PolicyAssumption, MinOfTwo
<1> HIDE DEF rise
<1>4. from < required => raised \in minMs .. maxMs
  BY <1>1, <1>3, MinOfThree DEF ceilingMs
<1>5. fallen \in minMs .. maxMs
  BY <1>1, PolicyAssumption, MaxOfTwo
<1> HIDE DEF raised, fallen
<1>6. current' \in {from, fallen} \cup (IF from < required THEN {raised} ELSE {})
  BY DEF updateAuto, from, required, rise, raised, fallen
<1> QED
  BY <1>1, <1>4, <1>5, <1>6

(* The presets' own targets are numbers. *)
LEMMA ProfileTargets == ASSUME NEW p \in Presets PROVE profileTarget(p) \in Int
  BY DEF Presets, profileTarget

(* Nothing that leaves the settings and the passes alone disturbs them. *)
LEMMA PassesRest ==
  ASSUME PolicyInv, UNCHANGED <<preset, minMs, maxMs, manual, pass>>
  PROVE  PassTypes' /\ \A t \in Threads : InForce(pass[t])'
  BY DEF PolicyInv, PassTypes, InForce, asSet

(* One pass moves on while the settings stay: the other keeps what it has. *)
LEMMA PassMoves ==
  ASSUME PolicyInv, NEW t \in Threads,
         NEW q \in [at : {"idle", "update", "preset", "manual", "give"},
                    targetMs : Int, disturbed : BOOLEAN],
         UNCHANGED <<preset, minMs, maxMs, manual>>,
         pass' = [pass EXCEPT ![t] = q], InForce(q)
  PROVE  PassTypes' /\ \A u \in Threads : InForce(pass[u])'
<1>1. PassTypes'
  BY DEF PolicyInv, PassTypes
<1>2. ASSUME NEW u \in Threads PROVE InForce(pass[u])'
  <2>1. pass'[u] = IF u = t THEN q ELSE pass[u]
    BY DEF PolicyInv, PassTypes
  <2>2. InForce(pass'[u])
    BY <2>1 DEF PolicyInv
  <2> QED
    BY <2>2 DEF InForce, asSet
<1> QED
  BY <1>1, <1>2

(* An update returns a target between the bounds unless the manual one is  *)
(* in force.                                                               *)
LEMMA UpdateKeepsPolicy ==
  ASSUME PolicyInv, NEW t \in Threads, update(t)
  PROVE  PolicyInv'
<1>1. UNCHANGED <<preset, minMs, maxMs, manual, network>>
  BY DEF update
<1>2. current' \in Int /\ (preset # "advanced" => current' \in minMs .. maxMs)
  <2>1. CASE updateFixed
    BY <2>1, ProfileTargets, ClampInBounds DEF updateFixed, PolicyInv, SettingsInv
  <2>2. CASE updateAdvanced
    BY <2>2 DEF updateAdvanced, PolicyInv, SettingsInv
  <2>3. CASE updateAuto
    <3>1. current' \in minMs .. maxMs
      BY <2>3, AutoInBounds DEF PolicyInv
    <3> QED
      BY <3>1 DEF PolicyInv, SettingsInv
  <2> QED
    BY <2>1, <2>2, <2>3 DEF update
<1> DEFINE q == [at |-> "preset", targetMs |-> current', disturbed |-> FALSE]
<1>3. InForce(q)
  BY <1>2 DEF InForce
<1>4. pass' = [pass EXCEPT ![t] = q]
  BY DEF update
<1>5. q \in [at : {"idle", "update", "preset", "manual", "give"},
             targetMs : Int, disturbed : BOOLEAN]
  BY <1>2
<1> HIDE DEF q
<1>6. PassTypes' /\ \A u \in Threads : InForce(pass[u])'
  BY <1>1, <1>3, <1>4, <1>5, PassMoves
<1> QED
  BY <1>1, <1>2, <1>6 DEF PolicyInv, SettingsInv

(* The calls a pass makes after its update read the settings as they are.  *)
LEMMA PassKeepsPolicy ==
  ASSUME PolicyInv, NEW t \in Threads, readPreset(t) \/ readManual(t) \/ setTargetMs(t)
  PROVE  PolicyInv'
<1>1. UNCHANGED <<preset, current, minMs, maxMs, manual, network>>
  BY DEF readPreset, readManual, setTargetMs, policyAsIs
<1>2. /\ pass[t] \in [at : {"idle", "update", "preset", "manual", "give"},
                      targetMs : Int, disturbed : BOOLEAN]
      /\ InForce(pass[t])
  BY DEF PolicyInv, PassTypes
<1>3. PassTypes' /\ \A u \in Threads : InForce(pass[u])'
  <2>1. CASE readPreset(t)
    <3> DEFINE q == [pass[t] EXCEPT !.at = IF preset = "advanced" THEN "manual" ELSE "give"]
    <3>1. pass[t].at = "preset" /\ pass' = [pass EXCEPT ![t] = q]
      BY <2>1 DEF readPreset
    <3>2. InForce(q)
      BY <1>2, <3>1 DEF InForce, asSet
    <3>3. q \in [at : {"idle", "update", "preset", "manual", "give"},
                 targetMs : Int, disturbed : BOOLEAN]
      BY <1>2
    <3> HIDE DEF q
    <3> QED
      BY <1>1, <3>1, <3>2, <3>3, PassMoves
  <2>2. CASE readManual(t)
    <3> DEFINE q == [pass[t] EXCEPT !.at = "give", !.targetMs = manual]
    <3>1. pass[t].at = "manual" /\ pass' = [pass EXCEPT ![t] = q]
      BY <2>2 DEF readManual
    <3>2. InForce(q)
      BY <1>2, <3>1 DEF InForce, asSet
    <3>3. q \in [at : {"idle", "update", "preset", "manual", "give"},
                 targetMs : Int, disturbed : BOOLEAN]
      BY <1>2 DEF PolicyInv, SettingsInv
    <3> HIDE DEF q
    <3> QED
      BY <1>1, <3>1, <3>2, <3>3, PassMoves
  <2>3. CASE setTargetMs(t)
    <3>1. pass' = [pass EXCEPT ![t] = NoPass] /\ InForce(NoPass)
      BY <2>3 DEF setTargetMs, InForce, NoPass
    <3>2. NoPass \in [at : {"idle", "update", "preset", "manual", "give"},
                      targetMs : Int, disturbed : BOOLEAN]
      BY DEF NoPass
    <3> QED
      BY <1>1, <3>1, <3>2, PassMoves
  <2> QED
    BY <2>1, <2>2, <2>3
<1> QED
  BY <1>1, <1>3 DEF PolicyInv, SettingsInv

(* After a setting every pass past its update is disturbed. *)
LEMMA SettingDisturbs ==
  ASSUME PolicyInv, setting
  PROVE  PassTypes' /\ \A t \in Threads : InForce(pass[t])'
<1>1. pass' = [t \in Threads |->
                 [pass[t] EXCEPT !.disturbed = @ \/ pass[t].at \notin {"idle", "update"}]]
  BY DEF setting
<1>2. ASSUME NEW t \in Threads
      PROVE  /\ pass[t] \in [at : {"idle", "update", "preset", "manual", "give"},
                             targetMs : Int, disturbed : BOOLEAN]
             /\ pass'[t] = [pass[t] EXCEPT !.disturbed = pass[t].disturbed
                                                          \/ pass[t].at \notin {"idle", "update"}]
  BY <1>1 DEF PolicyInv, PassTypes
<1>3. ASSUME NEW t \in Threads
      PROVE  /\ pass'[t] \in [at : {"idle", "update", "preset", "manual", "give"},
                              targetMs : Int, disturbed : BOOLEAN]
             /\ pass'[t].disturbed \/ pass'[t].at \in {"idle", "update"}
  BY <1>2
<1>4. PassTypes'
  BY <1>1, <1>3 DEF PassTypes
<1>5. ASSUME NEW t \in Threads PROVE InForce(pass[t])'
  BY <1>3 DEF InForce
<1> QED
  BY <1>4, <1>5

(* The settings, resets and the network keep the invariant. *)
LEMMA SettingsKeepPolicy ==
  ASSUME PolicyInv, PolicyNext, \A t \in Threads : ~passStep(t)
  PROVE  PolicyInv'
<1>1. CASE networkChanges
  <2>1. UNCHANGED <<preset, current, minMs, maxMs, manual, pass>> /\ network' \in Networks
    BY <1>1 DEF networkChanges
  <2> QED
    BY <2>1, PassesRest DEF PolicyInv, SettingsInv
<1>2. ASSUME NEW t \in Threads, resetPolicy(t) PROVE PolicyInv'
  <2> DEFINE q == [pass[t] EXCEPT !.at = "update"]
  <2>1. /\ UNCHANGED <<preset, minMs, maxMs, manual, network>> /\ pass' = [pass EXCEPT ![t] = q]
        /\ current' = clampTo(minMs, maxMs, profileTarget(preset))
    BY <1>2 DEF resetPolicy
  <2>2. current' \in minMs .. maxMs
    BY <2>1, ProfileTargets, ClampInBounds DEF PolicyInv, SettingsInv
  <2>3. q \in [at : {"idle", "update", "preset", "manual", "give"},
               targetMs : Int, disturbed : BOOLEAN]
        /\ q.at = "update"
    BY DEF PolicyInv, PassTypes
  <2> HIDE DEF q
  <2>4. InForce(q)
    BY <2>3 DEF InForce
  <2>5. PassTypes' /\ \A u \in Threads : InForce(pass[u])'
    BY <2>1, <2>3, <2>4, PassMoves
  <2> QED
    BY <2>1, <2>2, <2>5 DEF PolicyInv, SettingsInv
<1>3. ASSUME NEW b \in BoundsChoices, setBounds(b) PROVE PolicyInv'
  <2> DEFINE c == boundsOf(b[1], b[2])
  <2>1. c[1] \in Int /\ c[2] \in Int /\ c[1] <= c[2] /\ c[1] <= ceilingMs
    <3>1. b[1] \in 4 .. 120 /\ b[2] \in 20 .. 400
      BY PolicyAssumption
    <3> QED
      BY <3>1, BoundsInOrder
  <2>2. /\ minMs' = c[1] /\ maxMs' = c[2] /\ current' = clampTo(c[1], c[2], current)
        /\ UNCHANGED <<preset, manual, network>> /\ setting
    BY <1>3 DEF setBounds
  <2> HIDE DEF c
  <2>3. clampTo(c[1], c[2], current) \in c[1] .. c[2]
    BY <2>1, ClampInBounds DEF PolicyInv, SettingsInv
  <2> QED
    BY <2>1, <2>2, <2>3, SettingDisturbs DEF PolicyInv, SettingsInv
<1>4. ASSUME NEW p \in Presets, setPreset(p) PROVE PolicyInv'
  <2>1. clampTo(minMs, maxMs, profileTarget(p)) \in minMs .. maxMs
    BY ProfileTargets, ClampInBounds DEF PolicyInv, SettingsInv
  <2> QED
    BY <1>4, <2>1, SettingDisturbs DEF setPreset, PolicyInv, SettingsInv
<1>5. ASSUME NEW ms \in ManualChoices, setManualTarget(ms) PROVE PolicyInv'
  <2>1. clampTo(minimumMs, hardMax, ms) \in minimumMs .. hardMax
    <3>1. ms \in Int /\ minimumMs \in Int /\ hardMax \in Int /\ minimumMs <= hardMax
      BY PolicyAssumption DEF minimumMs, hardMax
    <3> QED
      BY <3>1, ClampInBounds
  <2> QED
    BY <1>5, <2>1, SettingDisturbs DEF setManualTarget, minimumMs, hardMax, PolicyInv, SettingsInv
<1> QED
  BY <1>1, <1>2, <1>3, <1>4, <1>5 DEF PolicyNext

(* Whatever the sliders, the presets, the network and the other thread's   *)
(* pass do between the calls of a pass, one during which no setting        *)
(* changes gives the engine what the settings ask for.                     *)
THEOREM TargetStaysInBounds == PolicySpec => []TargetInBounds
<1>1. PolicyInit => PolicyInv
  BY DEF PolicyInit, PolicyInv, SettingsInv, PassTypes, InForce, NoPass, Presets, profileTarget,
         minimumMs, hardMax, ceilingMs
<1>2. PolicyInv /\ [PolicyNext]_policyVars => PolicyInv'
  <2>1. ASSUME PolicyInv, UNCHANGED policyVars PROVE PolicyInv'
    BY <2>1, PassesRest DEF policyVars, PolicyInv, SettingsInv
  <2>2. ASSUME PolicyInv, NEW t \in Threads, passStep(t) PROVE PolicyInv'
    BY <2>2, UpdateKeepsPolicy, PassKeepsPolicy DEF passStep
  <2> QED
    BY <2>1, <2>2, SettingsKeepPolicy
<1>3. PolicyInv => TargetInBounds
  BY DEF PolicyInv, InForce, TargetInBounds
<1> QED
  BY <1>1, <1>2, <1>3, PTL DEF PolicySpec

-----------------------------------------------------------------------------
(* The reorder buffer *)

(* A finite set of integers that is not empty has a largest element: of    *)
(* the sets of the elements above each one, take a smallest.               *)
LEMMA FiniteMax ==
  ASSUME NEW S, S \subseteq Int, IsFiniteSet(S), S # {}
  PROVE  \E m \in S : \A x \in S : x <= m
<1> DEFINE above(x) == {y \in S : y > x}
           T == {above(x) : x \in S}
<1>1. T \subseteq FiniteSubsetsOf(S) /\ T # {}
  <2>1. T \subseteq SUBSET S
    OBVIOUS
  <2>2. T # {}
    OBVIOUS
  <2> HIDE DEF T
  <2> QED
    BY <2>1, <2>2, FS_FiniteSubsetsOfFinite
<1>2. PICK u \in T : \A v \in T : ~(<<v, u>> \in StrictSubsetOrdering(S))
  <2> HIDE DEF T
  <2> QED
    BY <1>1, FS_StrictSubsetOrderingWellFounded, WFMin
<1>3. PICK m \in S : u = above(m)
  OBVIOUS
<1>4. ASSUME NEW x \in S, x > m PROVE FALSE
  <2>1. above(x) \in T /\ above(x) \subseteq S /\ above(m) \subseteq S
    OBVIOUS
  <2>2. x \in above(m) /\ x \notin above(x)
    BY <1>4
  <2>3. above(x) \subseteq above(m)
    <3>1. x \in Int /\ m \in Int
      OBVIOUS
    <3>2. ASSUME NEW y \in above(x) PROVE y \in above(m)
      <4>1. y \in S /\ y > x /\ y \in Int
        BY <3>2
      <4> QED
        BY <1>4, <3>1, <4>1
    <3> QED
      BY <3>2
  <2> HIDE DEF above, T
  <2> QED
    BY <1>2, <1>3, <2>1, <2>2, <2>3 DEF StrictSubsetOrdering
<1> QED
  <2>1. ASSUME NEW x \in S PROVE x <= m
    BY <1>4
  <2> QED
    BY <2>1

(* A set of natural numbers that is not empty has a smallest element. *)
LEMMA NatMin ==
  ASSUME NEW T, T \subseteq Nat, T # {}
  PROVE  \E m \in T : \A k \in T : m <= k
<1>1. PICK m \in T : \A y \in T : ~ (<<y, m>> \in OpToRel(<, Nat))
  BY NatLessThanWellFounded, WFMin
<1>2. ASSUME NEW k \in T PROVE m <= k
  <2>1. m \in Nat /\ k \in Nat /\ <<k, m>> \in Nat \X Nat
    OBVIOUS
  <2>2. ~(<<k, m>> \in OpToRel(<, Nat))
    BY <1>1, Zenon
  <2>3. ~(k < m)
    BY <2>1, <2>2 DEF OpToRel
  <2> QED
    BY <2>1, <2>3
<1> QED
  BY <1>2

(* Max returns the largest element. *)
LEMMA MaxOfFinite ==
  ASSUME NEW S, S \subseteq Int, IsFiniteSet(S), S # {}
  PROVE  Max(S) \in S /\ \A x \in S : x <= Max(S)
<1>1. PICK m \in S : \A x \in S : x <= m
  BY FiniteMax
<1>2. \A x \in S : m >= x
  <2>1. ASSUME NEW x \in S PROVE m >= x
    BY <1>1
  <2> QED
    BY <2>1
<1>3. Max(S) \in S /\ \A x \in S : Max(S) >= x
  BY <1>2 DEF Max
<1>4. ASSUME NEW x \in S PROVE x <= Max(S)
  BY <1>3
<1> QED
  BY <1>3, <1>4

(* Min returns the smallest element. *)
LEMMA MinOfNaturals ==
  ASSUME NEW S, S \subseteq Nat, S # {}
  PROVE  Min(S) \in S /\ \A x \in S : Min(S) <= x
<1>1. PICK m \in S : \A x \in S : m <= x
  BY NatMin
<1> QED
  BY <1>1 DEF Min

(* Dividing a multiple. *)
LEMMA Multiple ==
  ASSUME NEW m \in Nat, m > 0, NEW k \in Nat
  PROVE  (k * m) % m = 0 /\ (k * m) \div m = k
<1>1. k * m = m * k + 0 /\ k * m \in Int /\ 0 \in 0 .. m - 1
  OBVIOUS
<1>2. (k * m) % m = 0
  BY <1>1, ModRemainder
<1> DEFINE d == (k * m) \div m
<1>3. d \in Int /\ k * m = m * d
  <2>1. \A a \in Int : a \div m \in Int /\ a = m * (a \div m) + (a % m)
    OBVIOUS
  <2>2. d \in Int /\ k * m = m * d + ((k * m) % m)
    BY <1>1, <2>1
  <2> HIDE DEF d
  <2>3. m * d \in Int
    BY <2>2
  <2> QED
    BY <1>2, <2>2, <2>3
<1> HIDE DEF d
<1>4. m * (d - k) = 0
  <2>1. m * (d - k) = m * d - m * k /\ m * k = k * m /\ m * d \in Int
    BY <1>3
  <2> QED
    BY <1>3, <2>1
<1>5. d - k = 0
  BY <1>3, <1>4, SmallMultiple
<1>6. d = k
  BY <1>3, <1>5
<1> QED
  BY <1>2, <1>6 DEF d

(* The run of held packets from e on starts at e or later and ends before  *)
(* the number after returns, which is not held.                            *)
LEMMA RunShape ==
  ASSUME PacketFrames \in Nat \ {0},
         NEW held, held \subseteq Nat, IsFiniteSet(held), NEW e \in Nat
  PROVE  LET w == run(held, e)
         IN  /\ w \subseteq held /\ after(w, e) \notin held
             /\ after(w, e) \in Nat /\ e <= after(w, e)
             /\ \A q \in w : e <= q /\ q < after(w, e)
<1> DEFINE w == run(held, e)
<1>1. w \subseteq held /\ IsFiniteSet(w) /\ (\A q \in w : e <= q)
  BY FS_Subset DEF run
<1>2. CASE w = {}
  <2>1. ASSUME e \in held PROVE e \in w
    <3>1. (e - e) % PacketFrames = 0 /\ (e - e) \div PacketFrames = 0
      <4>1. 0 * PacketFrames = 0 /\ e - e = 0
        OBVIOUS
      <4> QED
        BY <4>1, Multiple
    <3>2. \A k \in 0 .. 0 : e + k * PacketFrames \in held
      BY <2>1
    <3> QED
      BY <2>1, <3>1, <3>2 DEF run
  <2> HIDE DEF w
  <2>2. after(w, e) = e
    BY <1>2 DEF after
  <2> QED
    BY <1>1, <1>2, <2>1, <2>2 DEF w
<1>3. CASE w # {}
  <2> DEFINE m == Max(w)
             K == (m - e) \div PacketFrames
  <2>1. m \in w /\ \A q \in w : q <= m
    <3> HIDE DEF w
    <3>1. w \subseteq Int
      BY <1>1
    <3> QED
      BY <1>1, <1>3, <3>1, MaxOfFinite
  <2>2. m \in Nat /\ m >= e /\ (m - e) % PacketFrames = 0
        /\ \A k \in 0 .. K : e + k * PacketFrames \in held
    BY <1>1, <2>1 DEF run
  <2>3. K \in Nat /\ m = e + K * PacketFrames
    BY <2>2
  <2>4. after(w, e) = m + PacketFrames
    BY <1>3 DEF after
  <2> HIDE DEF m, K
  <2>5. m + PacketFrames \notin w
    <3>1. ASSUME m + PacketFrames \in w PROVE FALSE
      <4>1. m + PacketFrames <= m
        BY <2>1, <3>1
      <4> QED
        BY <2>2, <4>1
    <3> QED
      BY <3>1
  <2>6. ASSUME m + PacketFrames \in held PROVE m + PacketFrames \in w
    <3> DEFINE q == m + PacketFrames
    <3>1. (K + 1) * PacketFrames = K * PacketFrames + PacketFrames /\ K * PacketFrames \in Nat
      BY <2>3
    <3>2. q - e = (K + 1) * PacketFrames /\ K + 1 \in Nat /\ q >= e /\ q \in held
          /\ q = e + (K + 1) * PacketFrames
      BY <2>2, <2>3, <2>6, <3>1
    <3>3. (q - e) % PacketFrames = 0 /\ (q - e) \div PacketFrames = K + 1
      BY <3>2, Multiple
    <3>4. \A k \in 0 .. K + 1 : e + k * PacketFrames \in held
      <4>1. ASSUME NEW k \in 0 .. K + 1 PROVE e + k * PacketFrames \in held
        <5>1. k \in 0 .. K \/ k = K + 1
          BY <2>3
        <5> QED
          BY <2>2, <3>2, <5>1
      <4> QED
        BY <4>1
    <3> HIDE DEF q
    <3>5. q \in w
      BY <3>2, <3>3, <3>4 DEF run
    <3> QED
      BY <3>5 DEF q
  <2> HIDE DEF w
  <2>7. ASSUME NEW q \in w PROVE q < m + PacketFrames
    <3>1. q \in Nat /\ q <= m
      BY <1>1, <2>1
    <3> QED
      BY <2>2, <3>1
  <2>8. after(w, e) \in Nat /\ e <= after(w, e)
    BY <2>2, <2>4
  <2> QED
    BY <1>1, <2>4, <2>5, <2>6, <2>7, <2>8 DEF w
<1> QED
  BY <1>2, <1>3

(* PacketsAccounted with the types it needs; before the first packet the   *)
(* buffer and the history are empty.  The packet expected next is never    *)
(* among those held: else it would be played and stay held.                *)
ReorderInv ==
  /\ seq \in Nat /\ datagrams \subseteq Nat
  /\ future \subseteq Nat /\ IsFiniteSet(future)
  /\ played \subseteq Nat /\ passed \subseteq Nat
  /\ \/ nextSeq = None /\ taken = {} /\ passed = {}
     \/ nextSeq \in Nat
  /\ nextSeq \notin future
  /\ PacketsAccounted

(* flushFuture from e on, after the packets w0 were written: beside w0 it  *)
(* plays packets w and passes numbers n, all from e up to the new nextSeq, *)
(* the packets being held before and the numbers not.                      *)
Flushed(w0, e, w, n) ==
  /\ w \subseteq future /\ n \subseteq Nat /\ n \intersect future = {}
  /\ played' = (played \union w0) \union w /\ passed' = passed \union n
  /\ future' = future \ w
  /\ \A q \in w \union n : e <= q /\ q < nextSeq'
  /\ nextSeq' \in Nat /\ e <= nextSeq' /\ nextSeq' \notin future'

(* What flushFuture does, with or without a gap. *)
LEMMA FlushShape ==
  ASSUME PacketFrames \in Nat \ {0},
         future \subseteq Nat, IsFiniteSet(future),
         NEW w0, NEW e \in Nat, flushFuture(w0, e)
  PROVE  \E w, n : Flushed(w0, e, w, n)
<1> DEFINE w1    == run(future, e)
           e1    == after(w1, e)
           rest  == future \ w1
           first == Min(rest)
           gap   == rest # {} /\ first > e1
           w2    == IF gap THEN run(rest, first) ELSE {}
<1>1. /\ played' = played \union (w0 \union w1 \union w2)
      /\ nextSeq' = IF gap THEN after(w2, first) ELSE e1
      /\ future' = rest \ w2
      /\ passed' = passed \union (IF gap THEN e1 .. first - 1 ELSE {})
  BY DEF flushFuture, writeAll
<1>2. /\ w1 \subseteq future /\ e1 \in Nat /\ e <= e1 /\ (\A q \in w1 : e <= q /\ q < e1)
      /\ e1 \notin future
  BY RunShape
<1> HIDE DEF w1, e1
<1>3. rest \subseteq Nat /\ IsFiniteSet(rest)
  BY FS_Subset
<1>4. future' = future \ (w1 \union w2)
  BY <1>1
<1>5. CASE gap
  <2> DEFINE w == w1 \union w2
             n == e1 .. first - 1
  <2>1. first \in Nat /\ first > e1 /\ \A x \in rest : first <= x
    <3> HIDE DEF rest
    <3> QED
      BY <1>3, <1>5, MinOfNaturals
  <2>2. future = w1 \union rest
    BY <1>2
  <2> HIDE DEF first, rest
  <2>3. /\ w2 \subseteq rest /\ after(w2, first) \notin rest
        /\ after(w2, first) \in Nat /\ first <= after(w2, first)
        /\ \A q \in w2 : first <= q /\ q < after(w2, first)
    <3>1. w2 = run(rest, first)
      BY <1>5
    <3> HIDE DEF w2, gap
    <3> QED
      BY <1>3, <2>1, <3>1, RunShape
  <2>4. nextSeq' = after(w2, first) /\ passed' = passed \union n
    BY <1>1, <1>5
  <2> HIDE DEF w2, gap
  <2>5. nextSeq' \in Nat /\ first <= nextSeq' /\ \A q \in w2 : first <= q /\ q < nextSeq'
    BY <2>3, <2>4
  <2>6. w \subseteq future /\ n \subseteq Nat
    BY <1>2, <2>1, <2>2, <2>3
  <2>7. n \intersect future = {}
    <3>1. ASSUME NEW x \in n, x \in w1 PROVE FALSE
      BY <1>2, <2>1, <3>1
    <3>2. ASSUME NEW x \in n, x \in rest PROVE FALSE
      BY <1>2, <1>3, <2>1, <3>2
    <3> QED
      BY <2>2, <3>1, <3>2
  <2>8. \A q \in w1 \union w2 : e <= q /\ q < nextSeq'
    <3>1. ASSUME NEW q \in w1 PROVE e <= q /\ q < nextSeq'
      <4>1. q \in Nat /\ e <= q /\ q < e1
        BY <1>2
      <4> QED
        BY <1>2, <2>1, <2>5, <4>1
    <3>2. ASSUME NEW q \in w2 PROVE e <= q /\ q < nextSeq'
      <4>1. q \in Nat /\ first <= q /\ q < nextSeq'
        BY <1>3, <2>3, <2>5
      <4> QED
        BY <1>2, <2>1, <4>1
    <3> QED
      BY <3>1, <3>2
  <2>9. \A q \in n : e <= q /\ q < nextSeq'
    <3>1. ASSUME NEW q \in n PROVE e <= q /\ q < nextSeq'
      <4>1. q \in Int /\ e1 <= q /\ q <= first - 1
        BY <1>2, <2>1
      <4> QED
        BY <1>2, <2>1, <2>5, <4>1
    <3> QED
      BY <3>1
  <2>10. e <= nextSeq'
    BY <1>2, <2>1, <2>5
  <2>11. played' = (played \union w0) \union w /\ future' = future \ w /\ nextSeq' \notin future'
    BY <1>1, <1>4, <2>3, <2>4
  <2> HIDE DEF n
  <2>12. Flushed(w0, e, w, n)
    BY <2>4, <2>5, <2>6, <2>7, <2>8, <2>9, <2>10, <2>11 DEF Flushed
  <2> QED
    BY <2>12
<1>6. CASE ~gap
  <2>1. /\ nextSeq' = e1 /\ passed' = passed \union {}
        /\ played' = (played \union w0) \union w1 /\ future' = future \ w1
    BY <1>1, <1>4, <1>6
  <2>2. Flushed(w0, e, w1, {})
    BY <1>2, <2>1 DEF Flushed
  <2> QED
    BY <2>2
<1> QED
  BY <1>5, <1>6

(* What is new at the sink comes after what was there. *)
NewAfterOld == played \subseteq played' => \A q \in played' \ played, p \in played : p < q

(* A flush after the packets w0 in turn keeps the invariant: w0 lies       *)
(* behind e and, as a packet in turn never was, is not held.               *)
LEMMA FlushKeepsInv ==
  ASSUME PacketFrames \in Nat \ {0}, ReorderInv,
         NEW w0, w0 \subseteq Nat, NEW e \in Nat, flushFuture(w0, e),
         taken' = taken \union w0, seq' \in Nat, datagrams' \subseteq Nat,
         w0 \intersect future = {}, w0 \intersect passed = {},
         \A p \in played, q \in w0 : p < q,
         \A q \in (played \union passed) \union w0 : q < e
  PROVE  ReorderInv' /\ NewAfterOld
<1>1. /\ future \subseteq Nat /\ IsFiniteSet(future) /\ played \subseteq Nat /\ passed \subseteq Nat
      /\ taken = played \union future /\ played \intersect future = {}
      /\ passed \intersect taken = {}
  BY DEF ReorderInv, PacketsAccounted
<1>2. PICK w, n : Flushed(w0, e, w, n)
  BY <1>1, FlushShape, Zenon
<1>3. /\ w \subseteq future /\ n \subseteq Nat /\ n \intersect future = {}
      /\ played' = (played \union w0) \union w /\ passed' = passed \union n
      /\ future' = future \ w
      /\ (\A q \in w \union n : e <= q /\ q < nextSeq')
      /\ nextSeq' \in Nat /\ e <= nextSeq' /\ nextSeq' \notin future'
  BY <1>2 DEF Flushed
<1>4. future' \subseteq Nat /\ IsFiniteSet(future') /\ played' \subseteq Nat /\ passed' \subseteq Nat
  <2>1. IsFiniteSet(future')
    BY <1>1, <1>3, FS_Subset
  <2> QED
    BY <1>1, <1>3, <2>1
<1>5. taken' = played' \union future' /\ played' \intersect future' = {}
  BY <1>1, <1>3
<1>6. \A q \in (played \union passed) \union w0 : q \notin w \union n
  <2>1. ASSUME NEW q \in (played \union passed) \union w0, q \in w \union n PROVE FALSE
    <3>1. q \in Nat /\ q < e /\ e <= q
      BY <1>1, <1>3, <2>1
    <3> QED
      BY <3>1
  <2> QED
    BY <2>1
<1>7. passed' \intersect taken' = {}
  BY <1>1, <1>3, <1>6
<1>8. \A q \in played' \union passed' : q < nextSeq'
  <2>1. ASSUME NEW q \in (played \union passed) \union w0 PROVE q < nextSeq'
    <3>1. q \in Nat /\ q < e
      BY <1>1
    <3> QED
      BY <1>3, <3>1
  <2> QED
    BY <1>3, <2>1
<1>9. NewAfterOld
  <2>1. ASSUME NEW p \in played, NEW q \in w PROVE p < q
    <3>1. p \in Nat /\ q \in Nat /\ p < e /\ e <= q
      BY <1>1, <1>3
    <3> QED
      BY <3>1
  <2> QED
    BY <1>3, <2>1 DEF NewAfterOld
<1> QED
  BY <1>3, <1>4, <1>5, <1>7, <1>8, <1>9 DEF ReorderInv, PacketsAccounted

(* A packet in turn is the first or the one expected, which is not held.   *)
LEMMA InTurnKeepsInv ==
  ASSUME PacketFrames \in Nat \ {0}, ReorderInv,
         NEW q \in datagrams, inTurn(q), ~Late(q), ~Early(q),
         seq' \in Nat, datagrams' \subseteq Nat
  PROVE  ReorderInv' /\ NewAfterOld
<1>1. q \in Nat /\ flushFuture({q}, q + PacketFrames) /\ taken' = taken \union {q}
  BY DEF ReorderInv, inTurn
<1> DEFINE e == q + PacketFrames
<1>2. e \in Nat /\ q < e
  BY <1>1
<1> HIDE DEF e
<1>3. /\ \A p \in played \union passed : p < q
      /\ q \notin future
  <2>1. CASE nextSeq = None
    BY <2>1 DEF ReorderInv, PacketsAccounted, None
  <2>2. CASE nextSeq # None
    <3>1. q = nextSeq
      BY <1>1, <2>2 DEF ReorderInv, Late, Early
    <3> QED
      BY <3>1 DEF ReorderInv, PacketsAccounted
  <2> QED
    BY <2>1, <2>2
<1>4. played \subseteq Nat /\ passed \subseteq Nat
  BY DEF ReorderInv
<1>5. \A x \in (played \union passed) \union {q} : x < e
  <2>1. ASSUME NEW x \in played \union passed PROVE x < e
    <3>1. x \in Nat /\ x < q
      BY <1>3, <1>4
    <3> QED
      BY <1>1, <1>2, <3>1
  <2> QED
    BY <1>2, <2>1
<1>6. q \notin passed
  BY <1>1, <1>3, <1>4
<1>7. flushFuture({q}, e) /\ {q} \subseteq Nat /\ {q} \intersect future = {}
      /\ {q} \intersect passed = {} /\ \A p \in played, x \in {q} : p < x
  BY <1>1, <1>3, <1>6 DEF e
<1> QED
  BY <1>1, <1>2, <1>5, <1>7, FlushKeepsInv

(* Every step keeps the invariant and the order at the sink. *)
LEMMA ReorderStep ==
  ASSUME PacketFrames \in Nat \ {0}, ReorderInv, ReorderNext
  PROVE  ReorderInv' /\ NewAfterOld
<1>1. CASE Send
  BY <1>1 DEF Send, bufferVars, ReorderInv, PacketsAccounted, NewAfterOld
<1>2. CASE Restart
  BY <1>2 DEF Restart, bufferVars, ReorderInv, PacketsAccounted, NewAfterOld
<1>3. CASE tick
  <2>1. /\ nextSeq \in Nat /\ flushFuture({}, nextSeq) /\ taken' = taken \union {}
        /\ seq' \in Nat /\ datagrams' \subseteq Nat
    BY <1>3 DEF tick, ReorderInv
  <2>2. \A q \in (played \union passed) \union {} : q < nextSeq
    BY DEF ReorderInv, PacketsAccounted
  <2> QED
    BY <2>1, <2>2, FlushKeepsInv
<1>4. CASE housekeepingReprime
  BY <1>4 DEF housekeepingReprime, ReorderInv, PacketsAccounted, NewAfterOld
<1>5. CASE resetBuffer
  <2>1. IsFiniteSet({})
    BY FS_EmptySet
  <2> QED
    BY <1>5, <2>1 DEF resetBuffer, ReorderInv, PacketsAccounted, NewAfterOld
<1>6. ASSUME NEW q \in datagrams, Lose(q) PROVE ReorderInv' /\ NewAfterOld
  BY <1>6 DEF Lose, bufferVars, ReorderInv, PacketsAccounted, NewAfterOld
<1>7. ASSUME NEW q \in datagrams, NEW again \in BOOLEAN, accept(q, again)
      PROVE  ReorderInv' /\ NewAfterOld
  <2>1. q \in Nat /\ seq' \in Nat /\ datagrams' \subseteq Nat
    BY <1>7 DEF accept, ReorderInv
  <2>2. CASE dropLate(q)
    BY <2>1, <2>2 DEF dropLate, bufferVars, ReorderInv, PacketsAccounted, NewAfterOld
  <2>3. CASE Early(q) /\ hold(q)
    <3>1. PICK fits \in SUBSET {q} : future' = future \union fits /\ taken' = taken \union fits
      BY <2>3 DEF hold
    <3>2. IsFiniteSet(future')
      <4>1. IsFiniteSet(fits)
        <5>1. IsFiniteSet({q})
          BY FS_Singleton
        <5> QED
          BY <5>1, FS_Subset
      <4> QED
        BY <3>1, <4>1, FS_Union DEF ReorderInv
    <3>3. UNCHANGED <<nextSeq, played, passed>> /\ nextSeq \in Nat /\ q > nextSeq
      BY <2>3 DEF hold, Early, ReorderInv
    <3>4. /\ \A n \in played \union passed : n < nextSeq
          /\ played \subseteq Nat /\ passed \subseteq Nat
      BY DEF ReorderInv, PacketsAccounted
    <3>5. q \notin played \union passed /\ q # nextSeq
      BY <2>1, <3>3, <3>4
    <3>6. PacketsAccounted' /\ nextSeq' \notin future'
      BY <3>1, <3>3, <3>5 DEF ReorderInv, PacketsAccounted
    <3>7. future' \subseteq Nat
      BY <2>1, <3>1 DEF ReorderInv
    <3> QED
      BY <2>1, <3>2, <3>3, <3>6, <3>7 DEF ReorderInv, NewAfterOld
  <2>4. CASE ~Late(q) /\ ~Early(q) /\ inTurn(q)
    BY <2>1, <2>4, InTurnKeepsInv
  <2> QED
    BY <1>7, <2>2, <2>3, <2>4 DEF accept
<1> QED
  BY <1>1, <1>2, <1>3, <1>4, <1>5, <1>6, <1>7 DEF ReorderNext

(* A step that changes nothing. *)
LEMMA ReorderStutter == ReorderInv /\ UNCHANGED reorderVars => ReorderInv'
  BY DEF ReorderInv, PacketsAccounted, reorderVars

(* The invariant holds from the start. *)
LEMMA ReorderStart == ReorderInit => ReorderInv
<1>1. IsFiniteSet({})
  BY FS_EmptySet
<1> QED
  BY <1>1 DEF ReorderInit, ReorderInv, PacketsAccounted, None

(* A packet the reorder buffer took is played once or still held, none is  *)
(* both concealed and played and nothing behind nextSeq comes again,       *)
(* whatever the network reorders, repeats or loses, whenever the sender    *)
(* starts again and however many frames a packet carries.                  *)
THEOREM NoPacketUnaccounted ==
  ASSUME PacketFrames \in Nat \ {0}
  PROVE  ReorderSpec => []PacketsAccounted
<1>1. ReorderInv /\ [ReorderNext]_reorderVars => ReorderInv'
  BY ReorderStep, ReorderStutter
<1>2. ReorderInv => PacketsAccounted
  BY DEF ReorderInv
<1> QED
  BY <1>1, <1>2, ReorderStart, PTL DEF ReorderSpec

(* Between two resets the sink gets packets in the order of their numbers. *)
THEOREM PlaysInOrder ==
  ASSUME PacketFrames \in Nat \ {0}
  PROVE  ReorderSpec => PlayedInOrder
<1>1. ReorderInv /\ [ReorderNext]_reorderVars => ReorderInv'
  BY ReorderStep, ReorderStutter
<1>2. ReorderInv /\ [ReorderNext]_reorderVars
        => [played \subseteq played' => \A q \in played' \ played, p \in played : p < q]_reorderVars
  BY ReorderStep DEF NewAfterOld
<1> QED
  BY <1>1, <1>2, ReorderStart, PTL DEF ReorderSpec, PlayedInOrder

-----------------------------------------------------------------------------
(***************************************************************************)
(* The render ring (PCMRing).  That the callback interpolates between      *)
(* neighbours of the stream rests on what the ring holds: the newest       *)
(* frames, in order.  And it rests on producible finding the last output   *)
(* frame both of whose neighbours are there, which for a fractional step   *)
(* is a fact about quotients.                                              *)
(***************************************************************************)
PcmTypes ==
  /\ buf \in [Slots -> Int] /\ readPos \in Slots /\ used \in 0 .. Frames
  /\ phase \in 0 .. Scale - 1 /\ writing \in 0 .. Frames
  /\ dropped \in Int /\ written \in Int /\ consumed \in Int /\ cleared \in Int

(* The ring holds the newest frames written. *)
HoldsNewest ==
  \A i \in 0 .. used - 1 : source(i) = written - writing - used + i

(* The inductive invariant. *)
PcmInv == PcmTypes /\ HoldsNewest /\ InterpolatesNeighbours /\ FramesAccounted

(* Positions reduced modulo the ring's size are slots. *)
LEMMA PcmSlot == ASSUME RingSizes, NEW a \in Int PROVE a % Frames \in Slots
BY DEF RingSizes, Slots

(* An output frame's neighbours are in the ring exactly when its position  *)
(* is before the last frame's.                                             *)
Near(j, ratio) == (phase + j * ratio) \div Scale + 1 <= used - 1

LEMMA NearPosition ==
  ASSUME RingSizes, PcmTypes, NEW j \in Int, NEW ratio \in Int
  PROVE  Near(j, ratio) <=> j * ratio < Scale * (used - 1) - phase
<1>. DEFINE at == phase + j * ratio
            m == used - 1
<1>1. Scale \in Nat /\ Scale > 0 /\ phase \in Int /\ m \in Int
  BY DEF RingSizes, PcmTypes
<1>2. j * ratio \in Int /\ at \in Int  BY <1>1
<1>. HIDE DEF at, m
<1>3. at \div Scale < m <=> at < Scale * m  BY <1>1, <1>2, QuotientLess
<1>4. at \div Scale \in Int /\ Scale * m \in Int  BY <1>1, <1>2
<1>5. at \div Scale + 1 <= m <=> at \div Scale < m  BY <1>1, <1>4
<1>6. at < Scale * m <=> j * ratio < Scale * m - phase  BY <1>1, <1>2, <1>4 DEF at
<1>. QED  BY <1>3, <1>5, <1>6 DEF Near, at, m

(* There is such a last output frame, so producible means what it says. *)
LEMMA ProducibleFound ==
  ASSUME RingSizes, PcmTypes, NEW n \in Nat, NEW ratio \in Ratios
  PROVE  /\ producible(n, ratio) \in 0 .. n
         /\ \A j \in 0 .. producible(n, ratio) - 1 : Near(j, ratio)
<1>. DEFINE need == Scale * (used - 1) - phase
            last(k) == /\ \A j \in 0 .. k - 1 : Near(j, ratio)
                       /\ k = n \/ ~Near(k, ratio)
<1>1. /\ ratio \in Nat /\ ratio > 0 /\ Scale \in Nat /\ Scale > 0 /\ phase \in 0 .. Scale - 1
      /\ used \in Nat /\ Frames \in Nat
  BY DEF RingSizes, PcmTypes
<1>2. need \in Int
  <2>1. Scale * (used - 1) \in Int  BY <1>1
  <2>. QED  BY <1>1, <2>1
<1>3. \A j \in Int : Near(j, ratio) <=> j * ratio < need  BY <1>1, NearPosition
<1>. HIDE DEF need
<1>4. \E k \in 0 .. n : last(k)
  <2>1. CASE need <= 0
    <3>1. 0 * ratio = 0  BY <1>1
    <3>2. ~Near(0, ratio)  BY <1>2, <1>3, <2>1, <3>1
    <3>. QED  BY <3>2
  <2>2. CASE need > 0
    <3>. DEFINE d == need - 1
                c == d \div ratio + 1
    <3>1. d \in Nat  BY <1>2, <2>2
    <3>2. c \in Int /\ c >= 1
      <4>1. d \div ratio \in Int  BY <1>1, <3>1
      <4>2. ratio * 0 <= d  BY <1>1, <3>1
      <4>3. 0 <= d \div ratio  BY <1>1, <3>1, <4>2, QuotientBound
      <4>. QED  BY <4>1, <4>3
    <3>3. ASSUME NEW j \in Int PROVE j < c <=> Near(j, ratio)
      <4>1. d \div ratio < j <=> d < ratio * j  BY <1>1, <3>1, QuotientLess
      <4>2. ratio * j = j * ratio /\ j * ratio \in Int  BY <1>1
      <4>3. d \div ratio \in Int  BY <1>1, <3>1
      <4>4. j < c <=> ~(d \div ratio < j)
        <5>. DEFINE q == d \div ratio
        <5>. HIDE DEF q
        <5>. QED  BY <4>3 DEF q
      <4>5. ~(d < j * ratio) <=> j * ratio < need  BY <1>2, <3>1, <4>2
      <4>. QED  BY <1>3, <4>1, <4>2, <4>4, <4>5
    <3>. HIDE DEF c
    <3>4. CASE c <= n
      <4>1. c \in 0 .. n  BY <3>2, <3>4
      <4>2. \A j \in 0 .. c - 1 : Near(j, ratio)
        <5>. SUFFICES ASSUME NEW j \in 0 .. c - 1 PROVE Near(j, ratio)  OBVIOUS
        <5>1. j \in Int /\ j < c  BY <3>2
        <5>. QED  BY <3>3, <5>1
      <4>3. ~Near(c, ratio)  BY <3>2, <3>3
      <4>. QED  BY <4>1, <4>2, <4>3
    <3>5. CASE ~(c <= n)
      <4>1. \A j \in 0 .. n - 1 : Near(j, ratio)
        <5>. SUFFICES ASSUME NEW j \in 0 .. n - 1 PROVE Near(j, ratio)  OBVIOUS
        <5>1. j \in Int /\ j < c  BY <3>2, <3>5
        <5>. QED  BY <3>3, <5>1
      <4>. QED  BY <4>1
    <3>. QED  BY <3>4, <3>5
  <2>. QED  BY <1>2, <2>1, <2>2
<1>5. producible(n, ratio) = CHOOSE k \in 0 .. n : last(k)
  <2>1. \A k \in 0 .. n : last(k) <=>
          /\ \A j \in 0 .. k - 1 : (phase + j * ratio) \div Scale + 1 <= used - 1
          /\ k = n \/ (phase + k * ratio) \div Scale + 1 > used - 1
    <3>. SUFFICES ASSUME NEW k \in 0 .. n
                  PROVE  ~Near(k, ratio) <=> (phase + k * ratio) \div Scale + 1 > used - 1
      BY DEF Near
    <3>. DEFINE q == (phase + k * ratio) \div Scale
    <3>1. q \in Int
      <4>1. phase + k * ratio \in Int  BY <1>1
      <4>. QED  BY <1>1, <4>1
    <3>. HIDE DEF q
    <3>2. q + 1 > used - 1 <=> ~(q + 1 <= used - 1)  BY <1>1, <3>1
    <3>. QED  BY <3>2 DEF Near, q
  <2>. HIDE DEF last
  <2>. QED  BY <2>1 DEF producible
<1>. DEFINE k == producible(n, ratio)
<1>6. k \in 0 .. n /\ last(k)
  <2>. HIDE DEF last
  <2>. QED  BY <1>4, <1>5
<1>. QED  BY <1>6

(* An empty ring satisfies the invariant. *)
LEMMA InitPcmInv == ASSUME RingSizes PROVE Init => PcmInv
<1>. SUFFICES ASSUME Init PROVE PcmInv  OBVIOUS
<1>1. Frames \in Nat /\ Frames > 0 /\ Scale \in Nat /\ Scale > 0  BY DEF RingSizes
<1>2. PcmTypes  BY <1>1 DEF Init, PcmTypes, Slots
<1>3. HoldsNewest  BY DEF Init, HoldsNewest
<1>4. InterpolatesNeighbours  BY DEF Init, InterpolatesNeighbours
<1>5. FramesAccounted  BY DEF Init, FramesAccounted
<1>. QED  BY <1>2, <1>3, <1>4, <1>5 DEF PcmInv

(* The network thread takes the lock for a packet. *)
LEMMA LockPcmInv ==
  ASSUME RingSizes, PcmInv, NEW n \in Packets, lock(n)
  PROVE  PcmInv'
<1>1. n \in 1 .. Frames /\ Frames \in Nat  BY DEF RingSizes
<1>2. /\ writing = 0 /\ writing' = n /\ written' = written + n
      /\ UNCHANGED <<buf, readPos, used, dropped, phase, consumed, cleared, out>>
  BY DEF lock
<1>3. PcmTypes'  BY <1>1, <1>2 DEF PcmInv, PcmTypes, Slots
<1>4. HoldsNewest'
  <2>1. written' - writing' - used' = written - writing - used
    BY <1>1, <1>2 DEF PcmInv, PcmTypes
  <2>. QED  BY <1>2, <2>1 DEF PcmInv, HoldsNewest, source
<1>5. InterpolatesNeighbours'  BY <1>2 DEF PcmInv, InterpolatesNeighbours
<1>6. FramesAccounted'  BY <1>1, <1>2 DEF PcmInv, PcmTypes, FramesAccounted
<1>. QED  BY <1>3, <1>4, <1>5, <1>6 DEF PcmInv

(* A packet follows the frames that were not dropped for it. *)
LEMMA WritePcmInv ==
  ASSUME RingSizes, PcmInv, write
  PROVE  PcmInv'
<1>. DEFINE drop == IF writing > free THEN writing - free ELSE 0
            r == (readPos + drop) % Frames
            u == used - drop
<1>1. Frames \in Nat /\ Frames > 0 /\ Slots = 0 .. Frames - 1  BY DEF RingSizes, Slots
<1>2. /\ buf \in [Slots -> Int] /\ readPos \in Slots /\ used \in 0 .. Frames
      /\ phase \in 0 .. Scale - 1 /\ writing \in 0 .. Frames /\ writing # 0
      /\ dropped \in Int /\ written \in Int /\ consumed \in Int /\ cleared \in Int
  BY DEF PcmInv, PcmTypes, write
<1>3. /\ drop \in 0 .. used /\ u \in 0 .. Frames /\ writing \in 0 .. Frames - u
  BY <1>1, <1>2 DEF free
<1>4. /\ writing' = 0 /\ readPos' = r /\ used' = used - drop + writing
      /\ buf' = [s \in Slots |->
                   LET i == (s - r - u) % Frames
                   IN IF i < writing THEN written - writing + i ELSE buf[s]]
      /\ dropped' = dropped + drop
      /\ UNCHANGED <<phase, written, consumed, cleared, out>>
  BY DEF write
<1>. HIDE DEF drop, Slots
<1>5. r \in Slots
  <2>1. readPos + drop \in Int  BY <1>1, <1>2, <1>3
  <2>. QED  BY <2>1, PcmSlot
<1>. HIDE DEF r
<1>6. used' = u + writing /\ u + writing \in 0 .. Frames  BY <1>1, <1>2, <1>3, <1>4
<1>7. PcmTypes'
  <2>1. buf' \in [Slots -> Int]
    <3>1. ASSUME NEW s \in Slots PROVE buf'[s] \in Int
      <4>. DEFINE d == (s - r - u) % Frames
      <4>1. buf'[s] = IF d < writing THEN written - writing + d ELSE buf[s]  BY <1>4
      <4>2. d \in Int
        <5>1. s - r - u \in Int  BY <1>1, <1>3, <1>5
        <5>. QED  BY <1>1, <5>1
      <4>. HIDE DEF d
      <4>. QED  BY <1>2, <4>1, <4>2
    <3>2. buf' = [s \in Slots |-> buf'[s]]  BY <1>4
    <3>. QED  BY <3>1, <3>2
  <2>2. dropped' \in Int  BY <1>2, <1>3, <1>4
  <2>3. Slots' = Slots  BY DEF Slots
  <2>. HIDE DEF u
  <2>. QED  BY <1>1, <1>2, <1>4, <1>5, <1>6, <2>1, <2>2, <2>3 DEF PcmTypes
<1>8. HoldsNewest'
  <2>. SUFFICES ASSUME NEW i \in 0 .. u + writing - 1
                PROVE  buf'[(r + i) % Frames] = written - 0 - (u + writing) + i
    <3>1. /\ readPos' = r /\ written' = written /\ writing' = 0
          /\ used' = u + writing
      BY <1>4, <1>6
    <3>. HIDE DEF u
    <3>2. \A i \in 0 .. used' - 1 : source(i)' = written' - writing' - used' + i
      <4>. SUFFICES ASSUME NEW i \in 0 .. used' - 1
                    PROVE  source(i)' = written' - writing' - used' + i
        OBVIOUS
      <4>1. i \in 0 .. u + writing - 1
        <5>1. u \in Int /\ writing \in Int  BY <1>1, <1>3
        <5>. QED  BY <3>1, <5>1
      <4>2. source(i)' = buf'[(r + i) % Frames]  BY <3>1 DEF source
      <4>. QED  BY <3>1, <4>1, <4>2
    <3>. QED  BY <3>2 DEF HoldsNewest
  <2>. DEFINE s == (r + i) % Frames
              d == (s - r - u) % Frames
  <2>1. r \in Int /\ i \in Int /\ u \in Int  BY <1>1, <1>3, <1>5
  <2>2. s \in Slots
    <3>1. r + i \in Int  BY <2>1
    <3>. QED  BY <3>1, PcmSlot
  <2>3. d = IF i >= u THEN i - u ELSE Frames + i - u
    <3>. HIDE DEF u
    <3>. QED  BY <1>1, <1>3, <2>1, RingDistance
  <2>4. buf'[s] = IF d < writing THEN written - writing + d ELSE buf[s]  BY <1>4, <2>2
  <2>. HIDE DEF d, s
  <2>5. CASE i < u
    <3>1. ~(d < writing)  BY <1>1, <1>2, <1>3, <2>1, <2>3, <2>5
    <3>2. s = (readPos + (drop + i)) % Frames
      <4>1. readPos + drop \in Int /\ (readPos + drop) + i = readPos + (drop + i)
        BY <1>1, <1>2, <1>3, <2>1
      <4>2. (((readPos + drop) % Frames) + i) % Frames = ((readPos + drop) + i) % Frames
        BY <1>1, <2>1, <4>1, ModAdd
      <4>. QED  BY <4>1, <4>2 DEF s, r
    <3>. DEFINE a == drop + i
    <3>3. a \in 0 .. used - 1  BY <1>2, <1>3, <2>1, <2>5
    <3>. HIDE DEF a
    <3>4. buf[(readPos + a) % Frames] = written - writing - used + a
      BY <3>3 DEF PcmInv, HoldsNewest, source
    <3>5. written - writing - used + a = written - 0 - (u + writing) + i
      BY <1>2, <1>3, <2>1 DEF a
    <3>6. buf'[s] = buf[(readPos + a) % Frames]  BY <2>4, <3>1, <3>2 DEF a
    <3>. QED  BY <3>4, <3>5, <3>6 DEF s
  <2>6. CASE ~(i < u)
    <3>1. d = i - u /\ d < writing  BY <1>2, <1>3, <2>1, <2>3, <2>6
    <3>2. buf'[s] = written - writing + (i - u)  BY <2>4, <3>1
    <3>3. written - writing + (i - u) = written - 0 - (u + writing) + i
      BY <1>2, <1>3, <2>1
    <3>. QED  BY <3>2, <3>3 DEF s
  <2>. QED  BY <2>5, <2>6
<1>9. InterpolatesNeighbours'  BY <1>4 DEF PcmInv, InterpolatesNeighbours
<1>10. FramesAccounted'
  BY <1>2, <1>3, <1>4 DEF PcmInv, FramesAccounted
<1>. QED  BY <1>7, <1>8, <1>9, <1>10 DEF PcmInv

(* A reset throws away what the ring holds. *)
LEMMA ResetPcmInv == ASSUME RingSizes, PcmInv, reset PROVE PcmInv'
<1>1. Frames \in Nat /\ Frames > 0  BY DEF RingSizes
<1>2. PcmTypes'  BY <1>1 DEF reset, PcmInv, PcmTypes, Slots
<1>3. HoldsNewest'
  <2>1. used' = 0  BY DEF reset
  <2>2. \A i \in 0 .. used' - 1 : FALSE  BY <2>1
  <2>. QED  BY <2>2 DEF HoldsNewest
<1>4. InterpolatesNeighbours'  BY DEF reset, PcmInv, InterpolatesNeighbours
<1>5. FramesAccounted'  BY <1>1 DEF reset, PcmInv, PcmTypes, FramesAccounted
<1>. QED  BY <1>2, <1>3, <1>4, <1>5 DEF PcmInv

(* A callback plays k output frames whose neighbours are in the ring. *)
LEMMA DrainPcmInv ==
  ASSUME RingSizes, PcmInv, NEW k \in Nat, NEW ratio \in Ratios,
         \A j \in 0 .. k - 1 : Near(j, ratio),
         drain(k, ratio), UNCHANGED <<buf, dropped, writing, written, cleared>>
  PROVE  PcmInv'
<1>. DEFINE pos == phase + k * ratio
            n == IF pos \div Scale > used THEN used ELSE pos \div Scale
            at(j) == (phase + (j - 1) * ratio) \div Scale
<1>1. /\ Frames \in Nat /\ Frames > 0 /\ Slots = 0 .. Frames - 1
      /\ Scale \in Nat /\ Scale > 0 /\ ratio \in Nat /\ ratio > 0
  BY DEF RingSizes, Slots
<1>2. /\ buf \in [Slots -> Int] /\ readPos \in Slots /\ used \in 0 .. Frames
      /\ phase \in 0 .. Scale - 1 /\ writing \in 0 .. Frames
      /\ dropped \in Int /\ written \in Int /\ consumed \in Int /\ cleared \in Int
  BY DEF PcmInv, PcmTypes
<1>3. pos \in Nat /\ pos \div Scale \in Nat
  <2>1. k * ratio \in Nat  BY <1>1
  <2>2. pos \in Nat  BY <1>1, <1>2, <2>1
  <2>. HIDE DEF pos
  <2>3. pos \div Scale \in Nat  BY <1>1, <2>2, QuotientSum
  <2>. QED  BY <2>2, <2>3
<1>4. /\ out' = [j \in 1 .. k |-> <<source(at(j)), source(at(j) + 1)>>]
      /\ phase' = pos % Scale
      /\ readPos' = (readPos + n) % Frames /\ used' = used - n /\ consumed' = consumed + n
      /\ UNCHANGED <<buf, dropped, writing, written, cleared>>
  BY DEF drain
<1>. HIDE DEF Slots
<1>5. n \in 0 .. used
  <2>. HIDE DEF pos
  <2>. QED  BY <1>1, <1>2, <1>3
<1>6. ASSUME NEW j \in 1 .. k
      PROVE  /\ at(j) \in Int /\ out'[j] = <<source(at(j)), source(at(j) + 1)>>
             /\ source(at(j)) = written - writing - used + at(j)
             /\ source(at(j) + 1) = written - writing - used + (at(j) + 1)
  <2>. DEFINE p == phase + (j - 1) * ratio
              q == p \div Scale
  <2>1. j - 1 \in 0 .. k - 1  OBVIOUS
  <2>2. q + 1 <= used - 1  BY <2>1 DEF Near
  <2>3. p \in Nat
    <3>1. (j - 1) * ratio \in Nat  BY <1>1, <2>1
    <3>. QED  BY <1>1, <1>2, <3>1
  <2>. HIDE DEF p
  <2>4. q \in Nat  BY <1>1, <2>3, QuotientSum
  <2>5. out'[j] = <<source(q), source(q + 1)>>  BY <1>4 DEF p
  <2>6. at(j) = q  BY DEF p
  <2>. HIDE DEF q, at
  <2>7. q \in 0 .. used - 1 /\ q + 1 \in 0 .. used - 1  BY <1>1, <1>2, <2>2, <2>4
  <2>8. /\ source(q) = written - writing - used + q
        /\ source(q + 1) = written - writing - used + (q + 1)
    BY <2>7 DEF PcmInv, HoldsNewest
  <2>. QED  BY <2>4, <2>5, <2>6, <2>8
<1>7. InterpolatesNeighbours'
  <2>1. DOMAIN out' = 1 .. k  BY <1>4
  <2>. HIDE DEF at
  <2>2. ASSUME NEW j \in 1 .. k PROVE out'[j][2] = out'[j][1] + 1
    <3>1. /\ out'[j][1] = written - writing - used + at(j)
          /\ out'[j][2] = written - writing - used + (at(j) + 1) /\ at(j) \in Int
      BY <1>6
    <3>. QED  BY <1>1, <1>2, <3>1
  <2>3. ASSUME NEW j \in 1 .. k, j > 1 PROVE out'[j][1] >= out'[j - 1][1]
    <3>1. j - 1 \in 1 .. k  BY <2>3
    <3>2. /\ out'[j][1] = written - writing - used + at(j) /\ at(j) \in Int
          /\ out'[j - 1][1] = written - writing - used + at(j - 1) /\ at(j - 1) \in Int
      BY <1>6, <3>1
    <3>3. at(j - 1) <= at(j)
      <4>. DEFINE p == phase + ((j - 1) - 1) * ratio
      <4>1. p \in Nat
        <5>1. ((j - 1) - 1) * ratio \in Nat
          <6>1. (j - 1) - 1 \in Nat  BY <3>1
          <6>. QED  BY <1>1, <6>1
        <5>. QED  BY <1>1, <1>2, <5>1
      <4>2. phase + (j - 1) * ratio = p + ratio
        <5>1. (j - 1) * ratio = ((j - 1) - 1) * ratio + ratio  BY <1>1
        <5>2. ((j - 1) - 1) * ratio \in Int  BY <1>1
        <5>. QED  BY <1>1, <1>2, <5>1, <5>2
      <4>3. at(j - 1) = p \div Scale /\ at(j) = (p + ratio) \div Scale  BY <4>2 DEF at
      <4>. HIDE DEF p
      <4>4. p \div Scale <= (p + ratio) \div Scale  BY <1>1, <4>1, QuotientSum
      <4>. QED  BY <4>3, <4>4
    <3>. QED  BY <1>1, <1>2, <3>2, <3>3
  <2>. QED  BY <2>1, <2>2, <2>3 DEF InterpolatesNeighbours
<1>. HIDE DEF n, pos, at
<1>8. HoldsNewest'
  <2>. SUFFICES ASSUME NEW i \in 0 .. used - n - 1
                PROVE  buf[(((readPos + n) % Frames) + i) % Frames]
                         = written - writing - (used - n) + i
    BY <1>4 DEF HoldsNewest, source
  <2>. DEFINE a == n + i
  <2>1. a \in 0 .. used - 1 /\ i \in Int /\ n \in Int /\ readPos + n \in Int
    BY <1>1, <1>2, <1>5
  <2>2. (((readPos + n) % Frames) + i) % Frames = ((readPos + n) + i) % Frames
    BY <1>1, <2>1, ModAdd
  <2>3. (readPos + n) + i = readPos + a  BY <1>1, <1>2, <2>1
  <2>. HIDE DEF a
  <2>4. buf[(readPos + a) % Frames] = written - writing - used + a
    BY <2>1 DEF PcmInv, HoldsNewest, source
  <2>5. written - writing - used + a = written - writing - (used - n) + i
    BY <1>1, <1>2, <2>1 DEF a
  <2>. QED  BY <2>2, <2>3, <2>4, <2>5
<1>9. PcmTypes'
  <2>1. readPos' \in Slots
    <3>1. readPos + n \in Int  BY <1>1, <1>2, <1>5
    <3>. QED  BY <1>4, <3>1, PcmSlot
  <2>2. phase' \in 0 .. Scale - 1  BY <1>1, <1>3, <1>4
  <2>3. used' \in 0 .. Frames /\ consumed' \in Int  BY <1>1, <1>2, <1>4, <1>5
  <2>4. Slots' = Slots  BY DEF Slots
  <2>. QED  BY <1>2, <1>4, <2>1, <2>2, <2>3, <2>4 DEF PcmTypes
<1>10. FramesAccounted'
  BY <1>1, <1>2, <1>4, <1>5 DEF PcmInv, FramesAccounted
<1>. QED  BY <1>7, <1>8, <1>9, <1>10 DEF PcmInv

(* The phone's drift correction plays between neighbours of the stream and *)
(* accounts for every frame, for every ring size, packet size, callback    *)
(* size and drift ratio, and for a fractional position of any resolution   *)
(* (PCMRing.swift: write, tryDrainAdvanced, reset).                        *)
THEOREM PhoneRingIntact == ASSUME RingSizes PROVE Spec => []PhoneIntact
<1>1. Init => PcmInv  BY InitPcmInv
<1>2. PcmInv /\ [Next]_vars => PcmInv'
  <2>. SUFFICES ASSUME PcmInv, [Next]_vars PROVE PcmInv'  OBVIOUS
  <2>1. ASSUME UNCHANGED <<buf, readPos, used, dropped, writing, phase, written,
                           consumed, cleared>>,
               out' = out \/ out' = <<>>
        PROVE  PcmInv'
    <3>1. PcmTypes'  BY <2>1 DEF PcmInv, PcmTypes, Slots
    <3>2. HoldsNewest'  BY <2>1 DEF PcmInv, HoldsNewest, source
    <3>3. InterpolatesNeighbours'  BY <2>1 DEF PcmInv, InterpolatesNeighbours
    <3>4. FramesAccounted'  BY <2>1 DEF PcmInv, FramesAccounted
    <3>. QED  BY <3>1, <3>2, <3>3, <3>4 DEF PcmInv
  <2>2. CASE UNCHANGED vars  BY <2>1, <2>2 DEF vars
  <2>3. CASE write  BY <2>3, WritePcmInv
  <2>4. CASE reset  BY <2>4, ResetPcmInv
  <2>5. ASSUME NEW n \in Packets, lock(n) PROVE PcmInv'  BY <2>5, LockPcmInv
  <2>6. ASSUME NEW n \in Callbacks, DrainContended(n) PROVE PcmInv'
    BY <2>1, <2>6 DEF DrainContended
  <2>7. ASSUME NEW n \in Callbacks, NEW ratio \in Ratios, tryDrainAdvanced(n, ratio)
        PROVE  PcmInv'
    <3>1. n \in Nat  BY DEF RingSizes
    <3>2. CASE used < 1
      BY <2>1, <2>7, <3>2 DEF tryDrainAdvanced
    <3>3. CASE ~(used < 1)
      <4>. DEFINE k == producible(n, ratio)
      <4>1. drain(k, ratio) /\ UNCHANGED <<buf, dropped, writing, written, cleared>>
        BY <2>7, <3>3 DEF tryDrainAdvanced
      <4>2. k \in 0 .. n /\ \A j \in 0 .. k - 1 : Near(j, ratio)
        BY <3>1, ProducibleFound DEF PcmInv
      <4>. HIDE DEF k
      <4>3. k \in Nat  BY <3>1, <4>2
      <4>. QED  BY <4>1, <4>2, <4>3, DrainPcmInv
    <3>. QED  BY <3>2, <3>3
  <2>. QED  BY <2>2, <2>3, <2>4, <2>5, <2>6, <2>7 DEF Next
<1>3. PcmInv => PhoneIntact  BY DEF PcmInv, PhoneIntact
<1>. QED  BY <1>1, <1>2, <1>3, PTL DEF Spec
-----------------------------------------------------------------------------
(***************************************************************************)
(* The recorder (PhoneRecorder).  A closed file is complete because the    *)
(* open one is, in three pieces: what is written, what the running drain   *)
(* took, and what waits.  InHand says so of the pieces, one after the      *)
(* other; Controlled says that the drains of a recording end before it.    *)
(***************************************************************************)
Before(s, t) == \A x \in ToSet(s), y \in ToSet(t) : x < y

RecorderTypes ==
  /\ active \in BOOLEAN /\ stopping \in {"no", "unlocked", "sync"}
  /\ recordings \in 0 .. MaxRecordings /\ file \in 0 .. recordings
  /\ appended \in Nat /\ posting \in Nat /\ ioQueue \in Nat /\ ahead \in Nat
  /\ takenBy \in Seq(Nat) /\ Len(takenBy) = appended
  /\ \A i \in 1 .. appended : takenBy[i] \in 1 .. recordings
  /\ pending \in Seq(Int) /\ chunk \in [file : Nat, sound : Seq(Int)]
  /\ wavs \in [1 .. MaxRecordings -> Seq(Int)]
  /\ lost \subseteq 1 .. appended

(* A recording is open from start until stop has waited for its drain.    *)
(* Only then may drains be left over, and nothing is in their hands: that  *)
(* drain meets sound without a file never happens.                         *)
Controlled ==
  /\ active => stopping = "no" /\ file # 0
  /\ stopping # "no" => file # 0
  /\ file # 0 => file = recordings /\ (active \/ stopping # "no")
  /\ file = 0 => pending = <<>> /\ chunk = Idle
  /\ ahead <= ioQueue
  /\ chunk # Idle => ioQueue > 0 /\ chunk.file = file /\ (stopping = "sync" => ahead > 0)
  /\ stopping = "sync" /\ ahead = 0 => pending = <<>>
  /\ \A r \in 1 .. MaxRecordings : r > recordings => wavs[r] = <<>>

(* The open recording: written, taken and waiting, one after the other. *)
Chain(w, c, p) ==
  /\ Increasing(w) /\ Increasing(c) /\ Increasing(p)
  /\ Before(w, c) /\ Before(w, p) /\ Before(c, p)
InHand ==
  file # 0 =>
    /\ Chain(wavs[file], chunk.sound, pending)
    /\ ToSet(wavs[file]) \cup ToSet(chunk.sound) \cup ToSet(pending) = Kept(file)

(* The inductive invariant. *)
RecorderInv == RecorderTypes /\ Controlled /\ InHand /\ RecordingComplete

(* Sequences of sound: joined, appended to and cut. *)
LEMMA NoSound == ToSet(<<>>) = {} /\ Increasing(<<>>)
BY DEF ToSet, Increasing

(* Two runs of sound, the one before the other, joined. *)
LEMMA SoundJoined ==
  ASSUME NEW s \in Seq(Int), NEW t \in Seq(Int), Increasing(s), Increasing(t), Before(s, t)
  PROVE  s \o t \in Seq(Int) /\ Increasing(s \o t) /\ ToSet(s \o t) = ToSet(s) \cup ToSet(t)
<1>. DEFINE q == s \o t
<1>1. /\ q \in Seq(Int) /\ Len(q) = Len(s) + Len(t)
      /\ DOMAIN q = 1 .. Len(s) + Len(t) /\ DOMAIN s = 1 .. Len(s) /\ DOMAIN t = 1 .. Len(t)
      /\ Len(s) \in Nat /\ Len(t) \in Nat
  BY ConcatProperties
<1>2. \A i \in 1 .. Len(s) : q[i] = s[i] /\ s[i] \in Int  OBVIOUS
<1>3. \A i \in Len(s) + 1 .. Len(s) + Len(t) :
        i - Len(s) \in 1 .. Len(t) /\ q[i] = t[i - Len(s)] /\ q[i] \in Int
  OBVIOUS
<1>. HIDE DEF q
<1>4. \A i \in 1 .. Len(s) : s[i] \in ToSet(s)  BY <1>1 DEF ToSet
<1>5. \A i \in 1 .. Len(t) : t[i] \in ToSet(t)  BY <1>1 DEF ToSet
<1>6. Increasing(q)
  <2>. SUFFICES ASSUME NEW i \in DOMAIN q, NEW j \in DOMAIN q, i < j PROVE q[i] < q[j]
    BY DEF Increasing
  <2>1. CASE j <= Len(s)
    <3>1. i \in 1 .. Len(s) /\ j \in 1 .. Len(s)  BY <1>1, <2>1
    <3>. QED  BY <1>1, <1>2, <3>1 DEF Increasing
  <2>2. CASE i <= Len(s) /\ j > Len(s)
    <3>1. i \in 1 .. Len(s) /\ j \in Len(s) + 1 .. Len(s) + Len(t)  BY <1>1, <2>2
    <3>. QED  BY <1>2, <1>3, <1>4, <1>5, <3>1 DEF Before
  <2>3. CASE i > Len(s)
    <3>1. /\ i \in Len(s) + 1 .. Len(s) + Len(t) /\ j \in Len(s) + 1 .. Len(s) + Len(t)
          /\ i - Len(s) < j - Len(s)
      BY <1>1, <2>3
    <3>. QED  BY <1>1, <1>3, <3>1 DEF Increasing
  <2>. QED  BY <1>1, <2>1, <2>2, <2>3
<1>7. ToSet(q) = ToSet(s) \cup ToSet(t)
  <2>1. ASSUME NEW x \in ToSet(q) PROVE x \in ToSet(s) \cup ToSet(t)
    <3>1. PICK i \in DOMAIN q : x = q[i]  BY <2>1 DEF ToSet
    <3>2. i \in 1 .. Len(s) \/ i \in Len(s) + 1 .. Len(s) + Len(t)  BY <1>1
    <3>. QED  BY <1>2, <1>3, <1>4, <1>5, <3>1, <3>2
  <2>2. ASSUME NEW x \in ToSet(s) PROVE x \in ToSet(q)
    <3>1. PICK i \in 1 .. Len(s) : x = s[i]  BY <1>1, <2>2 DEF ToSet
    <3>2. i \in DOMAIN q /\ q[i] = x  BY <1>1, <1>2, <3>1
    <3>. QED  BY <3>2 DEF ToSet
  <2>3. ASSUME NEW x \in ToSet(t) PROVE x \in ToSet(q)
    <3>1. PICK i \in 1 .. Len(t) : x = t[i]  BY <1>1, <2>3 DEF ToSet
    <3>2. i + Len(s) \in Len(s) + 1 .. Len(s) + Len(t) /\ (i + Len(s)) - Len(s) = i
      BY <1>1
    <3>. DEFINE a == i + Len(s)
    <3>. HIDE DEF a
    <3>3. a \in Len(s) + 1 .. Len(s) + Len(t) /\ a - Len(s) = i  BY <3>2 DEF a
    <3>4. q[a] = t[a - Len(s)]  BY <1>3, <3>3
    <3>5. q[a] = x  BY <3>1, <3>3, <3>4
    <3>6. a \in DOMAIN q  BY <1>1, <3>3
    <3>. QED  BY <3>5, <3>6 DEF ToSet
  <2>. QED  BY <2>1, <2>2, <2>3
<1>. QED  BY <1>1, <1>6, <1>7 DEF q

(* A single piece of sound. *)
LEMMA OneSound ==
  ASSUME NEW x \in Int
  PROVE  <<x>> \in Seq(Int) /\ Increasing(<<x>>) /\ ToSet(<<x>>) = {x}
<1>1. <<x>> \in Seq(Int) /\ DOMAIN <<x>> = 1 .. 1 /\ <<x>>[1] = x  OBVIOUS
<1>2. \A i, j \in 1 .. 1 : ~(i < j)  OBVIOUS
<1>3. Increasing(<<x>>)  BY <1>1, <1>2 DEF Increasing
<1>4. ToSet(<<x>>) = {x}  BY <1>1 DEF ToSet
<1>. QED  BY <1>1, <1>3, <1>4

(* A run of sound with newer sound after it. *)
LEMMA SoundAppended ==
  ASSUME NEW s \in Seq(Int), Increasing(s), NEW x \in Int, \A y \in ToSet(s) : y < x
  PROVE  /\ Append(s, x) \in Seq(Int) /\ Increasing(Append(s, x))
         /\ ToSet(Append(s, x)) = ToSet(s) \cup {x} /\ Append(s, x) # <<>>
<1>1. <<x>> \in Seq(Int) /\ Increasing(<<x>>) /\ ToSet(<<x>>) = {x}  BY OneSound
<1>2. Append(s, x) = s \o <<x>>  BY AppendIsConcat
<1>3. Before(s, <<x>>)  BY <1>1 DEF Before
<1>4. Append(s, x) # <<>>  BY AppendProperties
<1>. QED  BY <1>1, <1>2, <1>3, <1>4, SoundJoined

(* A run of sound without its oldest piece. *)
LEMMA SoundCut ==
  ASSUME NEW s \in Seq(Int), Increasing(s), s # <<>>
  PROVE  /\ Tail(s) \in Seq(Int) /\ Increasing(Tail(s))
         /\ Head(s) \in ToSet(s) /\ ToSet(Tail(s)) = ToSet(s) \ {Head(s)}
<1>1. /\ Len(s) \in Nat /\ Len(s) >= 1 /\ DOMAIN s = 1 .. Len(s) /\ Head(s) = s[1]
      /\ Tail(s) \in Seq(Int) /\ DOMAIN Tail(s) = 1 .. Len(s) - 1
      /\ \A i \in 1 .. Len(s) - 1 : Tail(s)[i] = s[i + 1]
  BY EmptySeq, HeadTailProperties
<1>2. \A i \in 1 .. Len(s) : s[i] \in Int  OBVIOUS
<1>3. Increasing(Tail(s))
  <2>. SUFFICES ASSUME NEW i \in 1 .. Len(s) - 1, NEW j \in 1 .. Len(s) - 1, i < j
                PROVE  Tail(s)[i] < Tail(s)[j]
    BY <1>1 DEF Increasing
  <2>1. i + 1 \in 1 .. Len(s) /\ j + 1 \in 1 .. Len(s) /\ i + 1 < j + 1  BY <1>1
  <2>. QED  BY <1>1, <2>1 DEF Increasing
<1>4. Head(s) \in ToSet(s)
  <2>1. 1 \in DOMAIN s  BY <1>1
  <2>. QED  BY <1>1, <2>1 DEF ToSet
<1>5. ToSet(Tail(s)) = ToSet(s) \ {Head(s)}
  <2>1. ASSUME NEW x \in ToSet(Tail(s)) PROVE x \in ToSet(s) \ {Head(s)}
    <3>1. PICK i \in 1 .. Len(s) - 1 : x = Tail(s)[i]  BY <1>1, <2>1 DEF ToSet
    <3>2. i + 1 \in 1 .. Len(s) /\ 1 \in 1 .. Len(s) /\ 1 < i + 1 /\ x = s[i + 1]
      BY <1>1, <3>1
    <3>3. s[1] < s[i + 1]  BY <1>1, <3>2 DEF Increasing
    <3>4. x \in ToSet(s)  BY <1>1, <3>2 DEF ToSet
    <3>. QED  BY <1>1, <1>2, <3>2, <3>3, <3>4
  <2>2. ASSUME NEW x \in ToSet(s), x # Head(s) PROVE x \in ToSet(Tail(s))
    <3>1. PICK i \in 1 .. Len(s) : x = s[i]  BY <1>1, <2>2 DEF ToSet
    <3>2. i # 1  BY <1>1, <2>2, <3>1
    <3>3. i - 1 \in 1 .. Len(s) - 1 /\ (i - 1) + 1 = i  BY <1>1, <3>1, <3>2
    <3>4. Tail(s)[i - 1] = x  BY <1>1, <3>1, <3>3
    <3>. QED  BY <1>1, <3>3, <3>4 DEF ToSet
  <2>. QED  BY <2>1, <2>2
<1>. QED  BY <1>1, <1>3, <1>4, <1>5

(* RecorderInv holds before the first recording. *)
LEMMA InitRecorderInv == MaxRecordings \in Nat /\ RecorderInit => RecorderInv
<1>. SUFFICES ASSUME MaxRecordings \in Nat, RecorderInit PROVE RecorderInv
  OBVIOUS
<1>. USE DEF RecorderInit
<1>1. RecorderTypes
  <2>1. Idle \in [file : Nat, sound : Seq(Int)]  BY DEF Idle
  <2>2. wavs \in [1 .. MaxRecordings -> Seq(Int)]  OBVIOUS
  <2>3. takenBy \in Seq(Nat) /\ Len(takenBy) = 0 /\ pending \in Seq(Int)  OBVIOUS
  <2>4. active \in BOOLEAN /\ stopping \in {"no", "unlocked", "sync"}  OBVIOUS
  <2>5. recordings \in 0 .. MaxRecordings /\ file \in 0 .. recordings
    OBVIOUS
  <2>6. /\ appended \in Nat /\ posting \in Nat /\ ioQueue \in Nat /\ ahead \in Nat
        /\ 1 .. appended = {}
    OBVIOUS
  <2>. HIDE DEF RecorderInit
  <2>7. \A i \in 1 .. appended : takenBy[i] \in 1 .. recordings  BY <2>6
  <2>8. lost \subseteq 1 .. appended  BY DEF RecorderInit
  <2>9. Len(takenBy) = appended  BY <2>3 DEF RecorderInit
  <2>. QED
    BY <2>1, <2>2, <2>3, <2>4, <2>5, <2>6, <2>7, <2>8, <2>9 DEF RecorderTypes, RecorderInit
<1>2. Controlled  BY DEF Controlled, Idle
<1>3. InHand  BY DEF InHand
<1>4. RecordingComplete  BY DEF RecordingComplete
<1>. QED  BY <1>1, <1>2, <1>3, <1>4 DEF RecorderInv

(* A new recording takes nothing over: no drain and no chunk is left. *)
LEMMA StartKeepsRecorder ==
  ASSUME MaxRecordings \in Nat, RecorderInv, startRecording PROVE RecorderInv'
<1>. USE DEF startRecording
<1>1. RecorderTypes /\ Controlled /\ RecordingComplete  BY DEF RecorderInv
<1>2. RecorderTypes'  BY <1>1 DEF RecorderTypes
<1>3. chunk = Idle /\ chunk.sound = <<>> /\ pending' = <<>> /\ wavs'[file'] = <<>>
  BY <1>1 DEF RecorderTypes, Controlled, Idle
<1>4. Controlled'  BY <1>1, <1>3 DEF RecorderTypes, Controlled
<1>5. Kept(file)' = {}  BY <1>1 DEF RecorderTypes, Kept
<1>6. InHand'
  <2>1. Chain(<<>>, <<>>, <<>>)  BY NoSound DEF Chain, Before
  <2>. QED  BY <1>3, <1>5, <2>1, NoSound DEF InHand
<1>7. RecordingComplete'
  <2>. SUFFICES ASSUME NEW r \in 1 .. recordings', r # file'
                PROVE  Increasing(wavs[r])' /\ ToSet(wavs'[r]) = Kept(r)'
    BY DEF RecordingComplete
  <2>1. r \in 1 .. recordings /\ r # file  BY <1>1 DEF RecorderTypes
  <2>2. Kept(r)' = Kept(r)  BY DEF Kept
  <2>. QED  BY <1>1, <2>1, <2>2 DEF RecordingComplete, Increasing
<1>. QED  BY <1>2, <1>4, <1>6, <1>7 DEF RecorderInv

(* append drops the oldest waiting sound over the cap, and no other. *)
LEMMA AppendKeepsRecorder ==
  ASSUME MaxRecordings \in Nat, RecorderInv, append PROVE RecorderInv'
<1>. DEFINE n == appended + 1
            all == Append(pending, n)
            w == wavs[file]
            c == chunk.sound
<1>1. RecorderTypes /\ Controlled /\ InHand /\ RecordingComplete  BY DEF RecorderInv
<1>2. /\ active /\ file \in 1 .. recordings /\ file \in 1 .. MaxRecordings
      /\ appended' = n /\ takenBy' = Append(takenBy, file)
      /\ UNCHANGED <<active, file, ioQueue, ahead, chunk, stopping, recordings, wavs>>
  BY <1>1 DEF append, RecorderTypes, Controlled
<1>3. n \in Nat /\ n = appended + 1 /\ appended \in Nat  BY <1>1 DEF RecorderTypes
<1>4. /\ takenBy' \in Seq(Nat) /\ Len(takenBy') = n /\ takenBy'[n] = file
      /\ \A i \in 1 .. appended : takenBy'[i] = takenBy[i]
  <2>1. takenBy \in Seq(Nat) /\ Len(takenBy) = appended /\ file \in Nat
    BY <1>1 DEF RecorderTypes
  <2>. QED  BY <1>2, <2>1, <1>3, AppendProperties
<1>5. w \in Seq(Int) /\ c \in Seq(Int) /\ pending \in Seq(Int)
  BY <1>1, <1>2 DEF RecorderTypes
<1>6. Chain(w, c, pending) /\ ToSet(w) \cup ToSet(c) \cup ToSet(pending) = Kept(file)
  BY <1>1, <1>2 DEF InHand
<1>7. \A y \in Kept(file) : y \in Int /\ y < n  BY <1>3 DEF Kept
<1>8. /\ all \in Seq(Int) /\ Increasing(all) /\ ToSet(all) = ToSet(pending) \cup {n}
      /\ all # <<>>
  <2>. HIDE DEF n
  <2>1. n \in Int /\ \A y \in ToSet(pending) : y < n  BY <1>3, <1>6, <1>7
  <2>2. Increasing(pending)  BY <1>6 DEF Chain
  <2>. QED  BY <1>5, <2>1, <2>2, SoundAppended
<1>9. n \notin lost  BY <1>1, <1>3 DEF RecorderTypes
<1>10. Before(w, all) /\ Before(c, all)
  BY <1>6, <1>7, <1>8 DEF Chain, Before
<1>11. \A r \in 1 .. recordings : r # file /\ lost' \cap Kept(r) = lost \cap Kept(r) =>
          Kept(r)' = Kept(r)
  <2>. SUFFICES ASSUME NEW r \in 1 .. recordings, r # file,
                       lost' \cap Kept(r) = lost \cap Kept(r), lost \subseteq lost'
                PROVE  Kept(r)' = Kept(r)
    BY DEF append
  <2>. HIDE DEF n
  <2>1. Kept(r)' = {i \in 1 .. n : takenBy'[i] = r /\ i \notin lost'}  BY <1>2 DEF Kept
  <2>2. 1 .. n = (1 .. appended) \cup {n}  BY <1>3
  <2>. QED  BY <1>4, <2>1, <2>2 DEF Kept
<1>. HIDE DEF n, all, w, c
<1>12. /\ pending' \in Seq(Int) /\ lost' \subseteq 1 .. n
       /\ Increasing(pending')
       /\ Before(w, pending') /\ Before(c, pending')
       /\ ToSet(w) \cup ToSet(c) \cup ToSet(pending') = Kept(file)'
       /\ \A r \in 1 .. recordings : r # file => lost' \cap Kept(r) = lost \cap Kept(r)
  <2>1. lost \subseteq 1 .. appended /\ 1 .. n = (1 .. appended) \cup {n}
    BY <1>1, <1>3 DEF RecorderTypes
  <2>2. Kept(file)' = (Kept(file) \cup {n}) \ lost'
    <3>1. Kept(file)' = {i \in 1 .. n : takenBy'[i] = file /\ i \notin lost'}
      BY <1>2 DEF Kept
    <3>2. lost \subseteq lost'  BY DEF append
    <3>. QED  BY <1>4, <2>1, <3>1, <3>2 DEF Kept
  <2>3. CASE Len(all) > MaxPending
    <3>. DEFINE x == Head(all)
    <3>1. pending' = Tail(all) /\ lost' = lost \cup {x}
      BY <2>3 DEF append, all, n
    <3>2. /\ Tail(all) \in Seq(Int) /\ Increasing(Tail(all))
          /\ x \in ToSet(all) /\ ToSet(Tail(all)) = ToSet(all) \ {x}
      BY <1>8, SoundCut
    <3>. HIDE DEF x
    <3>3. x \in ToSet(pending) \/ x = n  BY <1>8, <3>2
    <3>4. x \in Int /\ x \in Kept(file) \cup {n} /\ x \notin ToSet(w) /\ x \notin ToSet(c)
      <4>1. x \in Int  BY <1>3, <1>6, <1>7, <3>3
      <4>2. x \in Kept(file) \cup {n}  BY <1>6, <3>3
      <4>3. \A y \in ToSet(w) \cup ToSet(c) : y \in Int /\ y < x
        BY <1>6, <1>7, <1>10, <3>2 DEF Before
      <4>. QED  BY <4>1, <4>2, <4>3
    <3>5. lost' \subseteq 1 .. n
      <4>1. Kept(file) \subseteq 1 .. appended  BY DEF Kept
      <4>2. n \in 1 .. n  BY <1>3
      <4>. QED  BY <2>1, <3>1, <3>4, <4>1, <4>2
    <3>6. Before(w, Tail(all)) /\ Before(c, Tail(all))
      BY <1>10, <3>2 DEF Before
    <3>7. ToSet(w) \cup ToSet(c) \cup ToSet(Tail(all)) = Kept(file)'
      <4>1. \A y \in Kept(file) \cup {n} : y \notin lost  BY <1>9 DEF Kept
      <4>2. Kept(file)' = (Kept(file) \cup {n}) \ {x}  BY <2>2, <3>1, <4>1
      <4>3. ToSet(Tail(all)) = (ToSet(pending) \cup {n}) \ {x}  BY <1>8, <3>2
      <4>. QED  BY <1>6, <3>4, <4>2, <4>3
    <3>8. \A r \in 1 .. recordings : r # file => x \notin Kept(r)
      <4>1. \A r \in 1 .. recordings : r # file => Kept(r) \cap Kept(file) = {}  BY DEF Kept
      <4>2. \A r \in 1 .. recordings : n \notin Kept(r)  BY <1>3 DEF Kept
      <4>. QED  BY <3>4, <4>1, <4>2
    <3>. QED  BY <3>1, <3>2, <3>5, <3>6, <3>7, <3>8
  <2>4. CASE ~(Len(all) > MaxPending)
    <3>1. pending' = all /\ lost' = lost  BY <2>4 DEF append, all, n
    <3>2. \A y \in Kept(file) \cup {n} : y \notin lost  BY <1>9 DEF Kept
    <3>. QED  BY <1>6, <1>8, <1>10, <2>1, <2>2, <3>1, <3>2
  <2>. QED  BY <2>3, <2>4
<1>13. RecorderTypes'
  <2>1. posting' \in Nat  BY <1>1 DEF append, RecorderTypes
  <2>2. \A i \in 1 .. n : takenBy'[i] \in 1 .. recordings
    <3>1. 1 .. n = (1 .. appended) \cup {n}  BY <1>3
    <3>. QED  BY <1>1, <1>2, <1>4, <3>1 DEF RecorderTypes
  <2>. QED  BY <1>1, <1>2, <1>3, <1>4, <1>12, <2>1, <2>2 DEF RecorderTypes
<1>14. Controlled'  BY <1>1, <1>2 DEF Controlled
<1>15. InHand'
  <2>1. wavs'[file'] = w /\ chunk'.sound = c  BY <1>2 DEF w, c
  <2>2. Chain(w, c, pending')  BY <1>6, <1>12 DEF Chain
  <2>. QED  BY <1>2, <1>12, <2>1, <2>2 DEF InHand
<1>16. RecordingComplete'
  <2>. SUFFICES ASSUME NEW r \in 1 .. recordings', r # file'
                PROVE  Increasing(wavs'[r]) /\ ToSet(wavs'[r]) = Kept(r)'
    BY DEF RecordingComplete
  <2>1. r \in 1 .. recordings /\ r # file /\ wavs' = wavs  BY <1>2
  <2>2. Kept(r)' = Kept(r)  BY <1>11, <1>12, <2>1
  <2>. QED  BY <1>1, <2>1, <2>2 DEF RecordingComplete
<1>. QED  BY <1>13, <1>14, <1>15, <1>16 DEF RecorderInv

(* What a recording kept is what append and write left it. *)
LEMMA KeptStays ==
  ASSUME UNCHANGED <<appended, takenBy, lost>> PROVE \A r : Kept(r)' = Kept(r)
BY DEF Kept

(* stop and drain move the sound along without touching its order. *)
LEMMA QueueKeepsRecorder ==
  ASSUME MaxRecordings \in Nat, RecorderInv,
         postDrain \/ beginStop \/ syncStop \/ drainTakes \/ drainEnds
  PROVE  RecorderInv'
<1>1. RecorderTypes /\ Controlled /\ InHand /\ RecordingComplete  BY DEF RecorderInv
<1>2. UNCHANGED <<file, appended, recordings, takenBy, wavs, lost>>
  BY DEF postDrain, beginStop, syncStop, drainTakes, drainEnds
<1>3. \A r : Kept(r)' = Kept(r)  BY <1>2, KeptStays
<1>4. RecorderTypes /\ posting \in Nat /\ ioQueue \in Nat /\ ahead \in Nat /\ file \in Nat
  BY <1>1 DEF RecorderTypes
<1>5. /\ active' \in BOOLEAN /\ stopping' \in {"no", "unlocked", "sync"}
      /\ posting' \in Nat /\ ioQueue' \in Nat /\ ahead' \in Nat
      /\ pending' \in Seq(Int) /\ chunk' \in [file : Nat, sound : Seq(Int)]
      /\ Controlled'
  <2>1. CASE postDrain
    <3>1. UNCHANGED <<active, stopping, pending, chunk, ahead>>  BY <2>1 DEF postDrain
    <3>2. posting' \in Nat /\ ioQueue' \in Nat /\ ioQueue' = ioQueue + 1
      BY <1>4, <2>1 DEF postDrain
    <3>. QED  BY <1>1, <1>2, <1>4, <3>1, <3>2 DEF Controlled, RecorderTypes
  <2>2. CASE beginStop
    <3>1. UNCHANGED <<posting, ioQueue, pending, chunk, ahead>>  BY <2>2 DEF beginStop
    <3>. QED  BY <1>1, <1>2, <1>4, <2>2, <3>1 DEF Controlled, RecorderTypes, beginStop
  <2>3. CASE syncStop
    <3>1. UNCHANGED <<active, posting, pending, chunk>>  BY <2>3 DEF syncStop
    <3>2. ioQueue' = ioQueue + 1 /\ ahead' = ioQueue + 1  BY <2>3 DEF syncStop
    <3>. QED  BY <1>1, <1>2, <1>4, <2>3, <3>1, <3>2 DEF Controlled, RecorderTypes, syncStop
  <2>4. CASE drainTakes
    <3>1. UNCHANGED <<active, stopping, posting, ioQueue, ahead>>  BY <2>4 DEF drainTakes
    <3>2. /\ file # 0 /\ pending # <<>> /\ ioQueue > 0
          /\ pending' = <<>> /\ chunk' = [file |-> file, sound |-> pending]
      BY <2>4 DEF drainTakes
    <3>3. stopping = "sync" => ahead > 0  BY <1>1, <1>4, <3>2 DEF Controlled
    <3>. QED  BY <1>1, <1>2, <1>4, <3>1, <3>2, <3>3 DEF Controlled, RecorderTypes
  <2>5. CASE drainEnds
    <3>1. UNCHANGED <<active, stopping, posting, pending, chunk>>  BY <2>5 DEF drainEnds
    <3>2. chunk = Idle /\ pending = <<>>  BY <2>5 DEF drainEnds
    <3>3. ioQueue' \in Nat /\ ahead' \in Nat /\ ahead' <= ioQueue'
      BY <1>1, <1>4, <2>5 DEF drainEnds, Controlled
    <3>. QED  BY <1>1, <1>2, <3>1, <3>2, <3>3 DEF Controlled, RecorderTypes
  <2>. QED  BY <2>1, <2>2, <2>3, <2>4, <2>5
<1>6. RecorderTypes'  BY <1>2, <1>4, <1>5 DEF RecorderTypes
<1>7. InHand'
  <2>1. CASE postDrain \/ beginStop \/ syncStop \/ drainEnds
    <3>1. UNCHANGED <<pending, chunk>>  BY <2>1 DEF postDrain, beginStop, syncStop, drainEnds
    <3>. QED  BY <1>1, <1>2, <1>3, <3>1 DEF InHand
  <2>2. CASE drainTakes
    <3>1. chunk = Idle /\ chunk'.sound = pending /\ pending' = <<>> /\ file # 0
      BY <2>2 DEF drainTakes
    <3>2. chunk.sound = <<>>  BY <3>1 DEF Idle
    <3>3. Chain(wavs[file], <<>>, pending) /\ ToSet(wavs[file]) \cup ToSet(pending) = Kept(file)
      BY <1>1, <3>1, <3>2, NoSound DEF InHand
    <3>4. Chain(wavs[file], pending, <<>>)  BY <3>3, NoSound DEF Chain, Before
    <3>. QED  BY <1>2, <1>3, <3>1, <3>3, <3>4, NoSound DEF InHand
  <2>. QED  BY <2>1, <2>2
<1>8. RecordingComplete'
  BY <1>1, <1>2, <1>3 DEF RecordingComplete
<1>. QED  BY <1>5, <1>6, <1>7, <1>8 DEF RecorderInv

(* When stop's drain has ended the open file holds all there was. *)
LEMMA StopKeepsRecorder ==
  ASSUME MaxRecordings \in Nat, RecorderInv, endStop PROVE RecorderInv'
<1>. USE DEF endStop, drained
<1>1. RecorderTypes /\ Controlled /\ InHand /\ RecordingComplete  BY DEF RecorderInv
<1>2. \A r : Kept(r)' = Kept(r)  BY KeptStays
<1>3. RecorderTypes'
  <2>1. stopping' \in {"no", "unlocked", "sync"} /\ ahead' \in Nat  OBVIOUS
  <2>2. pending' \in Seq(Int)  OBVIOUS
  <2>3. file' \in 0 .. recordings  BY <1>1 DEF RecorderTypes
  <2>. QED  BY <1>1, <2>1, <2>2, <2>3 DEF RecorderTypes
<1>4. Controlled'
  <2>1. ahead = 0 /\ stopping = "sync" /\ ~active  BY <1>1 DEF Controlled
  <2>2. chunk = Idle  BY <1>1, <2>1 DEF Controlled
  <2>. QED  BY <1>1, <2>1, <2>2 DEF Controlled, RecorderTypes
<1>5. InHand'  BY DEF InHand
<1>6. RecordingComplete'
  <2>. SUFFICES ASSUME NEW r \in 1 .. recordings
                PROVE  Increasing(wavs[r]) /\ ToSet(wavs[r]) = Kept(r)
    BY <1>2 DEF RecordingComplete
  <2>1. CASE r = file
    <3>1. chunk.sound = <<>> /\ pending = <<>> /\ file # 0  BY <1>1 DEF Controlled, Idle
    <3>. QED  BY <1>1, <2>1, <3>1, NoSound DEF InHand, Chain
  <2>. QED  BY <1>1, <2>1 DEF RecordingComplete
<1>. QED  BY <1>3, <1>4, <1>5, <1>6 DEF RecorderInv

(* write adds the chunk to its own file, or drops all of it. *)
LEMMA WriteKeepsRecorder ==
  ASSUME MaxRecordings \in Nat, RecorderInv, NEW ok \in BOOLEAN, writeChunk(ok)
  PROVE  RecorderInv'
<1>. DEFINE w == wavs[file]
            c == chunk.sound
<1>1. RecorderTypes /\ Controlled /\ InHand /\ RecordingComplete  BY DEF RecorderInv
<1>2. /\ chunk # Idle /\ chunk' = Idle /\ chunk'.sound = <<>> /\ ioQueue > 0
      /\ UNCHANGED <<active, file, pending, posting, ioQueue, ahead, stopping, appended,
                     recordings, takenBy>>
  BY <1>1 DEF writeChunk, Controlled, Idle
<1>3. file \in 1 .. recordings /\ file \in 1 .. MaxRecordings /\ chunk.file = file
  BY <1>1, <1>2 DEF RecorderTypes, Controlled
<1>4. w \in Seq(Int) /\ c \in Seq(Int) /\ pending \in Seq(Int)
  BY <1>1, <1>3 DEF RecorderTypes
<1>5. Chain(w, c, pending) /\ ToSet(w) \cup ToSet(c) \cup ToSet(pending) = Kept(file)
  BY <1>1, <1>3 DEF InHand
<1>6. Kept(file) \subseteq 1 .. appended  BY DEF Kept
<1>7. /\ wavs' \in [1 .. MaxRecordings -> Seq(Int)]
      /\ \A r \in 1 .. MaxRecordings : r # file => wavs'[r] = wavs[r]
      /\ Chain(wavs'[file], <<>>, pending)
      /\ ToSet(wavs'[file]) \cup ToSet(pending) = Kept(file)'
      /\ lost' \subseteq 1 .. appended
      /\ \A r \in 1 .. recordings : r # file => Kept(r)' = Kept(r)
  <2>1. CASE ok
    <3>1. wavs' = [wavs EXCEPT ![file] = w \o c] /\ lost' = lost
      BY <1>3, <2>1 DEF writeChunk
    <3>2. w \o c \in Seq(Int) /\ Increasing(w \o c) /\ ToSet(w \o c) = ToSet(w) \cup ToSet(c)
      BY <1>4, <1>5, SoundJoined DEF Chain
    <3>. HIDE DEF w, c
    <3>3. \A r : Kept(r)' = Kept(r)  BY <1>2, <3>1, KeptStays
    <3>4. wavs'[file] = w \o c  BY <1>1, <1>3, <3>1 DEF RecorderTypes
    <3>5. Chain(w \o c, <<>>, pending)  BY <1>5, <3>2, NoSound DEF Chain, Before
    <3>6. ToSet(w \o c) \cup ToSet(pending) = Kept(file)'
      <4>1. Kept(file)' = Kept(file)  BY <1>2, <3>3
      <4>. QED  BY <1>5, <3>2, <4>1
    <3>7. wavs' \in [1 .. MaxRecordings -> Seq(Int)]
      BY <1>1, <1>3, <3>1, <3>2 DEF RecorderTypes
    <3>8. \A r \in 1 .. MaxRecordings : r # file => wavs'[r] = wavs[r]
      BY <1>1, <3>1 DEF RecorderTypes
    <3>. QED  BY <1>1, <3>1, <3>3, <3>4, <3>5, <3>6, <3>7, <3>8 DEF RecorderTypes
  <2>2. CASE ~ok
    <3>1. wavs' = wavs /\ lost' = lost \cup ToSet(c)  BY <2>2 DEF writeChunk
    <3>2. Chain(w, <<>>, pending)  BY <1>5, NoSound DEF Chain, Before
    <3>. DEFINE W == ToSet(w)
                C == ToSet(c)
                P == ToSet(pending)
    <3>3. W \cup C \cup P = Kept(file) /\ C \subseteq Kept(file)  BY <1>5
    <3>4. W \cap C = {} /\ P \cap C = {}
      <4>1. \A x \in Kept(file) : x \in Int  BY <1>6
      <4>2. \A x \in W, y \in C : x < y  BY <1>5 DEF Chain, Before
      <4>3. \A x \in C, y \in P : x < y  BY <1>5 DEF Chain, Before
      <4>. HIDE DEF W, C, P
      <4>4. \A x \in Int : ~(x < x)  OBVIOUS
      <4>. QED  BY <3>3, <4>1, <4>2, <4>3, <4>4
    <3>5. \A r : Kept(r)' = Kept(r) \ C  BY <1>2, <3>1 DEF Kept
    <3>. HIDE DEF W, C, P
    <3>6. W \cup P = Kept(file)'
      <4>1. Kept(file)' = Kept(file) \ C  BY <1>2, <3>5
      <4>. QED  BY <3>3, <3>4, <4>1
    <3>7. \A r \in 1 .. recordings : r # file => Kept(r)' = Kept(r)
      <4>1. \A r \in 1 .. recordings : r # file => Kept(r) \cap Kept(file) = {}  BY DEF Kept
      <4>. QED  BY <3>3, <3>5, <4>1
    <3>8. lost' \subseteq 1 .. appended
      BY <1>1, <1>6, <3>1, <3>3 DEF RecorderTypes, C
    <3>. QED  BY <1>1, <3>1, <3>2, <3>6, <3>7, <3>8 DEF RecorderTypes, W, P
  <2>. QED  BY <2>1, <2>2
<1>. HIDE DEF w, c
<1>8. RecorderTypes'
  BY <1>1, <1>2, <1>7 DEF RecorderTypes, Idle
<1>9. Controlled'
  <2>1. \A r \in 1 .. MaxRecordings : r > recordings => wavs'[r] = <<>>
    BY <1>1, <1>3, <1>7 DEF Controlled, RecorderTypes
  <2>. QED  BY <1>1, <1>2, <2>1 DEF Controlled
<1>10. InHand'
  BY <1>2, <1>3, <1>7, NoSound DEF InHand
<1>11. RecordingComplete'
  <2>. SUFFICES ASSUME NEW r \in 1 .. recordings', r # file'
                PROVE  Increasing(wavs'[r]) /\ ToSet(wavs'[r]) = Kept(r)'
    BY DEF RecordingComplete
  <2>1. r \in 1 .. recordings /\ r # file /\ r \in 1 .. MaxRecordings
    BY <1>1, <1>2 DEF RecorderTypes
  <2>. QED  BY <1>1, <1>7, <2>1 DEF RecordingComplete
<1>. QED  BY <1>8, <1>9, <1>10, <1>11 DEF RecorderInv

(* A closed file holds, in order, all the sound appended to its recording  *)
(* and to no other but what the cap or a failed write dropped: the turns   *)
(* without the lock in append, drain and stop, the scheduled flag and a    *)
(* drain left to the next recording lose nothing and mix no two            *)
(* recordings.                                                             *)
THEOREM RecordingsAreComplete ==
  ASSUME MaxRecordings \in Nat PROVE RecorderSpec => []RecordingComplete
<1>1. RecorderInit => RecorderInv  BY InitRecorderInv
<1>2. RecorderInv /\ [RecorderNext]_recorderVars => RecorderInv'
  <2>. SUFFICES ASSUME RecorderInv, [RecorderNext]_recorderVars PROVE RecorderInv'
    OBVIOUS
  <2>1. CASE UNCHANGED recorderVars
    <3>1. /\ RecorderTypes' <=> RecorderTypes
          /\ Controlled' <=> Controlled
          /\ InHand' <=> InHand
          /\ RecordingComplete' <=> RecordingComplete
      BY <2>1 DEF recorderVars, RecorderTypes, Controlled, InHand, RecordingComplete, Kept
    <3>. QED  BY <3>1 DEF RecorderInv
  <2>2. CASE RecorderNext
    BY <2>2, StartKeepsRecorder, AppendKeepsRecorder, QueueKeepsRecorder, StopKeepsRecorder,
       WriteKeepsRecorder DEF RecorderNext
  <2>. QED  BY <2>1, <2>2
<1>3. RecorderInv => RecordingComplete  BY DEF RecorderInv
<1>. QED  BY <1>1, <1>2, <1>3, PTL DEF RecorderSpec
=============================================================================
