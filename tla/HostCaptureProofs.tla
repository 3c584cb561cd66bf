------------------------- MODULE HostCaptureProofs -------------------------
(***************************************************************************)
(* Proofs about the host's sound.  HostCapture, for every set of receivers *)
(* and devices and any number of switches: the two invariants need each    *)
(* other, since that the open capture is the selected one survives another *)
(* actor's Close only because that actor's capture is not the shared one.  *)
(* AudioRing, the ring a capture's callback fills, for every size.         *)
(***************************************************************************)
EXTENDS HostCapture, AudioRing, ModArithmetic, FiniteSetTheorems, SequenceTheorems, TLAPS

(* The inductive invariant. *)
IInv == TypeOK /\ CaptureIsSelection /\ CapturesOwned

-----------------------------------------------------------------------------
(* Captures are numbered from one, so that 0 can stand for nil. *)
LEMMA IdsPositive == Ids \subseteq Nat \ {0}
<1>1. IsFiniteSet(Actors)
  <2>1. IsFiniteSet(Receivers \cup {Tray})  BY HostAssumption, FS_AddElement
  <2>2. IsFiniteSet((Receivers \cup {Tray}) \cup {Monitor})  BY <2>1, FS_AddElement
  <2>3. Actors = (Receivers \cup {Tray}) \cup {Monitor}  BY DEF Actors
  <2>. QED  BY <2>2, <2>3
<1>2. Cardinality(Actors) \in Nat  BY <1>1, FS_CardinalityType
<1>. QED  BY <1>2 DEF Ids

(* What is selected can be opened: it is a device, the tone or the         *)
(* applications, never the mark of a closed capture.                       *)
LEMMA ChosenOpens ==
  ASSUME TypeOK
  PROVE  chosen \in Devices \cup {Default, "apps", "tone"} /\ chosen # Closed
BY HostAssumption DEF TypeOK, chosen, Closed, Default

(* Every request is made of calls. *)
LEMMA RequestsTyped == ASSUME NEW a PROVE \A r \in requests(a) : r \in Seq(Calls)
<1>1. \A d \in Devices \cup {Default} : <<"device", d>> \in Calls  BY DEF Calls
<1>2. {<<"tone">>, <<"loopback">>, <<"apps">>, <<"endpoint">>, <<"ensure">>,
       <<"ensureOrRestore">>} \subseteq Calls
  BY DEF Calls
<1>3. \A d \in Devices \cup {Default} :
        /\ << <<"device", d>>, <<"loopback">>, <<"ensure">> >> \in Seq(Calls)
        /\ << <<"device", d>> >> \in Seq(Calls)
  <2>. TAKE d \in Devices \cup {Default}
  <2>. DEFINE e == <<"device", d>>
  <2>1. e \in Calls  BY <1>1
  <2>. HIDE DEF e
  <2>2. << e, <<"loopback">>, <<"ensure">> >> \in Seq(Calls) /\ << e >> \in Seq(Calls)
    BY <2>1, <1>2
  <2>. QED  BY <2>2 DEF e
<1>4. /\ << <<"tone">>, <<"ensure">> >> \in Seq(Calls)
      /\ << <<"apps">>, <<"ensureOrRestore">> >> \in Seq(Calls)
      /\ << <<"tone">> >> \in Seq(Calls) /\ << <<"apps">> >> \in Seq(Calls)
  BY <1>2
<1>5. << <<"endpoint">> >> \in Seq(Calls)  BY <1>2
<1>6. \A r \in setSource : r \in Seq(Calls)  BY <1>3, <1>4, Zenon DEF setSource
<1>7. \A r \in trayRequests : r \in Seq(Calls)  BY <1>3, <1>4, Zenon DEF trayRequests
<1>. QED  BY <1>5, <1>6, <1>7, Zenon DEF requests

(* The selection after a call is a selection. *)
LEMMA SelectionTyped ==
  ASSUME TypeOK, NEW call \in Calls, call[1] \in {"device", "tone", "loopback", "apps"}
  PROVE  selection(call) \in [apps : BOOLEAN, tone : BOOLEAN, device : Devices \cup {Default}]
<1>1. CASE call[1] = "device"
  <2>1. call[2] \in Devices \cup {Default}  BY <1>1 DEF Calls
  <2>2. selection(call) = SetSourceDevice(call[2])  BY <1>1 DEF selection
  <2>. QED  BY <2>1, <2>2 DEF TypeOK, SetSourceDevice
<1>2. CASE call[1] = "tone"  BY <1>2 DEF TypeOK, selection, SetCaptureSource
<1>3. CASE call[1] = "loopback"  BY <1>3 DEF TypeOK, selection, SetCaptureSource
<1>4. CASE call[1] = "apps"  BY <1>4 DEF TypeOK, selection, SetCaptureApps
<1>. QED  BY <1>1, <1>2, <1>3, <1>4

(* Opening makes the shared capture one of the selected source, under a    *)
(* number nobody holds.                                                    *)
LEMMA EnsureOpens ==
  ASSUME IInv, ensureCapture, UNCHANGED <<sel, held>>
  PROVE  /\ capture' \in Ids \cup {0}
         /\ source' \in [Ids -> Devices \cup {Default, "apps", "tone", Closed}]
         /\ CaptureIsSelection' /\ CapturesOwned'
<1>1. CASE capture # 0
  BY <1>1 DEF IInv, TypeOK, ensureCapture, needsOpen, CaptureIsSelection, chosen, CapturesOwned
<1>2. CASE capture = 0
  <2>1. PICK i \in Ids : /\ source[i] = Closed
                         /\ source' = [source EXCEPT ![i] = chosen] /\ capture' = i
    BY <1>2 DEF ensureCapture, needsOpen, open
  <2>2. /\ chosen \in Devices \cup {Default, "apps", "tone"} /\ chosen # Closed
        /\ chosen' = chosen
    BY ChosenOpens DEF IInv, chosen
  <2>3. i # 0  BY IdsPositive
  <2>4. source' \in [Ids -> Devices \cup {Default, "apps", "tone", Closed}]
    BY <2>1, <2>2 DEF IInv, TypeOK
  <2>5. CaptureIsSelection'
    BY <2>1, <2>2 DEF CaptureIsSelection, IInv, TypeOK
  <2>6. \A a \in Actors : held[a] # i
    BY <2>1, <2>3 DEF IInv, CapturesOwned
  <2>7. {j \in Ids : source'[j] # Closed} = {j \in Ids : source[j] # Closed} \cup {i}
    BY <2>1, <2>2 DEF IInv, TypeOK
  <2>8. CapturesOwned'
    BY <1>2, <2>1, <2>3, <2>6, <2>7 DEF IInv, CapturesOwned
  <2>. QED  BY <2>1, <2>4, <2>5, <2>8
<1>. QED  BY <1>1, <1>2

-----------------------------------------------------------------------------
(* A host without a stream satisfies the invariant. *)
LEMMA InitIInv == Init => IInv
<1>. SUFFICES ASSUME Init PROVE IInv  OBVIOUS
<1>1. TypeOK  BY DEF Init, TypeOK, Closed
<1>2. CaptureIsSelection  BY DEF Init, CaptureIsSelection
<1>3. CapturesOwned  BY IdsPositive DEF Init, CapturesOwned
<1>. QED  BY <1>1, <1>2, <1>3 DEF IInv

(* A request only lists its calls. *)
LEMMA RequestIInv == ASSUME IInv, NEW a \in Actors, Request(a) PROVE IInv'
<1>. USE DEF Request, IInv
<1>1. TypeOK'  BY RequestsTyped DEF TypeOK
<1>2. CaptureIsSelection'  BY DEF CaptureIsSelection, chosen
<1>3. CapturesOwned'  BY DEF CapturesOwned
<1>. QED  BY <1>1, <1>2, <1>3

(* A switch moves the shared capture to the actor that will close it. *)
LEMMA SwitchIInv == ASSUME IInv, NEW a \in Actors, Switch(a) PROVE IInv'
<1>1. /\ todo[a] # <<>> /\ held[a] = 0
      /\ Head(todo[a])[1] \in {"device", "tone", "loopback", "apps", "endpoint"}
      /\ sel' = IF Head(todo[a])[1] = "endpoint" THEN sel ELSE selection(Head(todo[a]))
      /\ held' = [held EXCEPT ![a] = capture] /\ capture' = 0
      /\ todo' = [todo EXCEPT ![a] = Tail(@)]
      /\ UNCHANGED <<source, live, switches, frames, heard>>
  BY DEF Switch, calls, take
<1>2. todo[a] \in Seq(Calls)  BY DEF IInv, TypeOK
<1>3. Head(todo[a]) \in Calls /\ Tail(todo[a]) \in Seq(Calls)  BY <1>1, <1>2
<1>4. sel' \in [apps : BOOLEAN, tone : BOOLEAN, device : Devices \cup {Default}]
  <2>1. CASE Head(todo[a])[1] = "endpoint"  BY <1>1, <2>1 DEF IInv, TypeOK
  <2>2. CASE Head(todo[a])[1] # "endpoint"
    <3>1. sel' = selection(Head(todo[a]))  BY <1>1, <2>2
    <3>2. Head(todo[a])[1] \in {"device", "tone", "loopback", "apps"}  BY <1>1, <2>2
    <3>3. TypeOK  BY DEF IInv
    <3>. QED  BY <1>3, <3>1, <3>2, <3>3, SelectionTyped
  <2>. QED  BY <2>1, <2>2
<1>5. TypeOK'
  <2>1. todo' \in [Actors -> Seq(Calls)]  BY <1>1, <1>3 DEF IInv, TypeOK
  <2>2. held' \in [Actors -> Ids \cup {0}]  BY <1>1 DEF IInv, TypeOK
  <2>. QED  BY <1>1, <1>4, <2>1, <2>2 DEF IInv, TypeOK
<1>6. CaptureIsSelection'  BY <1>1 DEF CaptureIsSelection
<1>7. CapturesOwned'
  <2>1. {held'[b] : b \in Actors} \cup {0} = {capture} \cup {held[b] : b \in Actors} \cup {0}
    BY <1>1 DEF IInv, TypeOK
  <2>2. {i \in Ids : source'[i] # Closed} = ({capture'} \cup {held'[b] : b \in Actors}) \ {0}
    BY <1>1, <2>1 DEF IInv, CapturesOwned
  <2>3. \A b, c \in Actors : held'[b] # 0 => held'[b] # capture' /\ (held'[b] = held'[c] => b = c)
    BY <1>1 DEF IInv, TypeOK, CapturesOwned
  <2>. QED  BY <2>2, <2>3 DEF CapturesOwned
<1>. QED  BY <1>5, <1>6, <1>7 DEF IInv

(* Closing what one holds closes neither the shared capture nor another    *)
(* actor's.                                                                *)
LEMMA CloseOldIInv == ASSUME IInv, NEW a \in Actors, CloseOld(a) PROVE IInv'
<1>1. /\ held[a] # 0 /\ source' = [source EXCEPT ![held[a]] = Closed]
      /\ held' = [held EXCEPT ![a] = 0]
      /\ todo' = todo \/ todo' = [todo EXCEPT ![a] = <<>>]
      /\ UNCHANGED <<sel, capture, live, switches, frames, heard>>
  BY DEF CloseOld
<1>2. held[a] \in Ids /\ held[a] # capture  BY <1>1 DEF IInv, TypeOK, CapturesOwned
<1>3. TypeOK'
  <2>1. todo' \in [Actors -> Seq(Calls)]
    <3>1. <<>> \in Seq(Calls)  OBVIOUS
    <3>. QED  BY <1>1, <3>1 DEF IInv, TypeOK
  <2>2. source' \in [Ids -> Devices \cup {Default, "apps", "tone", Closed}]
    BY <1>1, <1>2 DEF IInv, TypeOK
  <2>3. held' \in [Actors -> Ids \cup {0}]  BY <1>1 DEF IInv, TypeOK
  <2>. QED  BY <1>1, <2>1, <2>2, <2>3 DEF IInv, TypeOK
<1>4. CaptureIsSelection'
  BY <1>1, <1>2 DEF IInv, TypeOK, CaptureIsSelection, chosen
<1>5. CapturesOwned'
  <2>1. {i \in Ids : source'[i] # Closed} = {i \in Ids : source[i] # Closed} \ {held[a]}
    BY <1>1, <1>2 DEF IInv, TypeOK
  <2>2. \A b \in Actors : b # a => held'[b] = held[b] /\ (held[b] = held[a] => held[b] = 0)
    BY <1>1 DEF IInv, TypeOK, CapturesOwned
  <2>3. held'[a] = 0  BY <1>1 DEF IInv, TypeOK
  <2>4. ({capture} \cup {held'[b] : b \in Actors}) \ {0}
          = (({capture} \cup {held[b] : b \in Actors}) \ {0}) \ {held[a]}
    BY <1>1, <1>2, <2>2, <2>3
  <2>5. {i \in Ids : source'[i] # Closed} = ({capture'} \cup {held'[b] : b \in Actors}) \ {0}
    BY <1>1, <2>1, <2>4 DEF IInv, CapturesOwned
  <2>6. \A b, c \in Actors : held'[b] # 0 => held'[b] # capture' /\ (held'[b] = held'[c] => b = c)
    BY <1>1, <2>2, <2>3 DEF IInv, CapturesOwned
  <2>. QED  BY <2>5, <2>6 DEF CapturesOwned
<1>. QED  BY <1>3, <1>4, <1>5 DEF IInv

(* A request that reopens the capture, and one whose opening fails. *)
LEMMA EnsureIInv == ASSUME IInv, NEW a \in Actors, Ensure(a) \/ EnsureFails(a) PROVE IInv'
<1>1. todo[a] # <<>> /\ todo[a] \in Seq(Calls)
  BY DEF IInv, TypeOK, Ensure, EnsureFails, calls
<1>2. Tail(todo[a]) \in Seq(Calls)  BY <1>1
<1>3. <<>> \in Seq(Calls) /\ << <<"loopback">>, <<"ensure">> >> \in Seq(Calls)  BY DEF Calls
<1>4. CASE Ensure(a)
  <2>1. /\ ensureCapture /\ todo' = [todo EXCEPT ![a] = Tail(@)]
        /\ UNCHANGED <<sel, live, held, switches, frames, heard>>
    BY <1>4 DEF Ensure
  <2>2. todo' \in [Actors -> Seq(Calls)]  BY <1>2, <2>1 DEF IInv, TypeOK
  <2>3. /\ capture' \in Ids \cup {0}
        /\ source' \in [Ids -> Devices \cup {Default, "apps", "tone", Closed}]
        /\ CaptureIsSelection' /\ CapturesOwned'
    BY <2>1, EnsureOpens
  <2>. QED  BY <2>1, <2>2, <2>3 DEF IInv, TypeOK
<1>5. CASE EnsureFails(a)
  <2>1. /\ todo' = [todo EXCEPT ![a] =
               IF Head(@)[1] = "ensure" THEN <<>> ELSE << <<"loopback">>, <<"ensure">> >>]
        /\ UNCHANGED <<sel, capture, source, live, held, switches, frames, heard>>
    BY <1>5 DEF EnsureFails
  <2>2. todo' \in [Actors -> Seq(Calls)]
    <3>1. CASE Head(todo[a])[1] = "ensure"  BY <1>3, <2>1, <3>1 DEF IInv, TypeOK
    <3>2. CASE Head(todo[a])[1] # "ensure"  BY <1>3, <2>1, <3>2 DEF IInv, TypeOK
    <3>. QED  BY <3>1, <3>2
  <2>3. TypeOK'  BY <2>1, <2>2 DEF IInv, TypeOK
  <2>. QED  BY <2>1, <2>3 DEF IInv, CaptureIsSelection, chosen, CapturesOwned
<1>. QED  BY <1>4, <1>5

(* The streams: opening, reading and reopening the shared capture. *)
LEMMA StreamIInv ==
  ASSUME IInv, NEW r \in Receivers,
         StartStream(r) \/ StopStream(r) \/ ReadCapture(r) \/ Reopen(r)
  PROVE  IInv'
<1>1. CASE StartStream(r) \/ Reopen(r)
  <2>1. /\ ensureCapture /\ live' \in SUBSET (live \cup {r})
        /\ UNCHANGED <<sel, todo, held, switches, frames, heard>>
    BY <1>1 DEF StartStream, Reopen
  <2>2. /\ capture' \in Ids \cup {0}
        /\ source' \in [Ids -> Devices \cup {Default, "apps", "tone", Closed}]
        /\ CaptureIsSelection' /\ CapturesOwned'
    BY <2>1, EnsureOpens
  <2>. QED  BY <2>1, <2>2 DEF IInv, TypeOK
<1>2. CASE StopStream(r) \/ ReadCapture(r)
  <2>1. UNCHANGED <<sel, capture, source, todo, held, switches>>
    BY <1>2 DEF StopStream, ReadCapture
  <2>2. live' \subseteq Receivers /\ frames' \in Nat /\ heard' \in [Receivers -> Nat]
    <3>1. CASE StopStream(r)  BY <3>1 DEF IInv, TypeOK, StopStream
    <3>2. CASE ReadCapture(r)
      <4>1. heard[r] + 1 \in Nat /\ frames + 1 \in Nat  BY DEF IInv, TypeOK
      <4>. QED  BY <3>2, <4>1 DEF IInv, TypeOK, ReadCapture
    <3>. QED  BY <1>2, <3>1, <3>2
  <2>. QED  BY <2>1, <2>2 DEF IInv, TypeOK, CaptureIsSelection, chosen, CapturesOwned
<1>. QED  BY <1>1, <1>2

(* Every step of a receiver, the tray, the monitor or a stream keeps the   *)
(* invariant.                                                              *)
LEMMA NextIInv == IInv /\ [Next]_vars => IInv'
<1>. SUFFICES ASSUME IInv, [Next]_vars PROVE IInv'  OBVIOUS
<1>1. ASSUME NEW a \in Actors,
             Request(a) \/ Switch(a) \/ CloseOld(a) \/ Ensure(a) \/ EnsureFails(a)
      PROVE  IInv'
  BY <1>1, RequestIInv, SwitchIInv, CloseOldIInv, EnsureIInv
<1>2. ASSUME NEW r \in Receivers,
             StartStream(r) \/ StopStream(r) \/ ReadCapture(r) \/ Reopen(r)
      PROVE  IInv'
  BY <1>2, StreamIInv
<1>3. CASE UNCHANGED vars
  BY <1>3 DEF vars, IInv, TypeOK, CaptureIsSelection, chosen, CapturesOwned
<1>. QED  BY <1>1, <1>2, <1>3 DEF Next

(* Every reachable state satisfies the inductive invariant. *)
LEMMA IInvHolds == Spec => []IInv
BY InitIInv, NextIInv, PTL DEF Spec

(* However switches, closes and reopening loops interleave, the capture    *)
(* that is read records the selected source (SetSourceDevice,              *)
(* SetCaptureSource, SetCaptureApps, ensureCaptureViaBackend).             *)
THEOREM CaptureFollowsSelection == Spec => []CaptureIsSelection
<1>1. IInv => CaptureIsSelection  BY DEF IInv
<1>. QED  BY <1>1, IInvHolds, PTL

(* No capture leaks, is closed twice or is closed while it is shared.      *)
THEOREM NoCaptureLeaks == Spec => []CapturesOwned
<1>1. IInv => CapturesOwned  BY DEF IInv
<1>. QED  BY <1>1, IInvHolds, PTL

-----------------------------------------------------------------------------
(***************************************************************************)
(* The capture ring (AudioRing).  CaptureIntact compares neighbours in     *)
(* what was read and in what waits; the invariant orders every two bytes   *)
(* of them, so that a read, a drop or a write can take any run of them,    *)
(* and keeps the ring at whole quanta, so that a run taken starts at the   *)
(* first byte of a frame.                                                  *)
(***************************************************************************)
(* What a slot holds, and the i-th byte that waits in the ring. *)
Bytes == [at : Int, phase : Int]
Waiting(i) == buf[(read + i) % size]

(* Positions and counters; the ring holds whole quanta. *)
RingTypes ==
  /\ buf \in [Slots -> Bytes]
  /\ read \in Slots /\ used \in 0 .. size /\ used % Quantum = 0
  /\ dropped \in Int /\ written \in Int /\ ragged \in Int /\ taken \in Int
  /\ reading \in Nat
  /\ out \in Seq(Bytes)

(* The bytes that wait: whole quanta of the stream, in order. *)
WaitingWhole ==
  \A i \in 0 .. used - 1 :
    /\ Waiting(i).phase = i % Quantum /\ Waiting(i).at < written
    /\ i % Quantum # 0 => Waiting(i).at = Waiting(i - 1).at + 1
WaitingInOrder ==
  \A i, j \in 0 .. used - 1 : i < j => Waiting(i).at < Waiting(j).at

(* The bytes of the latest read, all before those that wait. *)
ReadWhole ==
  \A i \in 1 .. Len(out) :
    /\ out[i].phase = (i - 1) % Quantum /\ out[i].at < written
    /\ (i - 1) % Quantum # 0 => out[i].at = out[i - 1].at + 1
ReadInOrder ==
  /\ \A i, j \in 1 .. Len(out) : i < j => out[i].at < out[j].at
  /\ \A i \in 1 .. Len(out), j \in 0 .. used - 1 : out[i].at < Waiting(j).at

(* The inductive invariant. *)
RingInv ==
  RingTypes /\ WaitingWhole /\ WaitingInOrder /\ ReadWhole /\ ReadInOrder /\ BytesAccounted

(* The ring is of whole quanta, at least one. *)
LEMMA RingSize ==
  ASSUME RingSizes
  PROVE  size \in Nat /\ size > 0 /\ size % Quantum = 0 /\ Slots = 0 .. size - 1
<1>1. Quantum \in Nat /\ Quantum > 0 /\ SizeBytes \in Nat  BY DEF RingSizes
<1>2. CASE SizeBytes < Quantum
  <2>1. size = Quantum  BY <1>2 DEF size
  <2>. QED  BY <1>1, <2>1, WholeMultiple DEF Slots
<1>3. CASE ~(SizeBytes < Quantum)
  <2>1. size = SizeBytes - (SizeBytes % Quantum)  BY <1>3 DEF size, alignedLen
  <2>2. SizeBytes % Quantum \in 0 .. Quantum - 1  BY <1>1
  <2>3. size \in Nat /\ size > 0  BY <1>1, <1>3, <2>1, <2>2
  <2>4. (SizeBytes - (SizeBytes % Quantum)) % Quantum = 0  BY <1>1, WholeMultiple
  <2>. QED  BY <2>1, <2>3, <2>4 DEF Slots
<1>. QED  BY <1>2, <1>3

(* Positions reduced modulo the ring's size are slots. *)
LEMMA RingSlot == ASSUME RingSizes, NEW a \in Int PROVE a % size \in Slots
<1>1. size \in Nat /\ size > 0 /\ Slots = 0 .. size - 1  BY RingSize
<1>. HIDE DEF size, Slots
<1>. QED  BY <1>1

(* Rounding down and up to whole quanta. *)
LEMMA WholeQuanta ==
  ASSUME RingSizes, NEW n \in Nat
  PROVE  /\ alignedLen(n) \in 0 .. n /\ alignedLen(n) % Quantum = 0
         /\ n - alignedLen(n) = n % Quantum
         /\ alignUp(n) \in Nat /\ alignUp(n) >= n /\ alignUp(n) % Quantum = 0
<1>1. Quantum \in Nat /\ Quantum > 0  BY DEF RingSizes
<1>. DEFINE w == n - (n % Quantum)
<1>2. n % Quantum \in 0 .. Quantum - 1 /\ n % Quantum <= n
  <2>1. n % Quantum \in 0 .. Quantum - 1  BY <1>1
  <2>2. CASE n < Quantum
    <3>1. n = Quantum * 0 + n /\ n \in 0 .. Quantum - 1  BY <1>1, <2>2
    <3>. QED  BY <1>1, <2>1, <3>1, ModRemainder
  <2>. QED  BY <1>1, <2>1, <2>2
<1>3. w % Quantum = 0 /\ Quantum % Quantum = 0
  <2>1. n \in Int  OBVIOUS
  <2>. QED  BY ONLY <1>1, <2>1, WholeMultiple
<1>4. w \in 0 .. n  BY <1>2
<1>5. (w + Quantum) % Quantum = 0
  <2>1. w \in Int /\ Quantum \in Int  BY <1>1, <1>4
  <2>. HIDE DEF w
  <2>. QED  BY ONLY <1>1, <1>3, <2>1, Multiples
<1>6. alignedLen(n) = w  BY DEF alignedLen
<1>7. alignUp(n) = IF n % Quantum = 0 THEN n ELSE w + Quantum
  BY <1>1, <1>2 DEF alignUp
<1>8. alignUp(n) \in Nat /\ alignUp(n) >= n /\ alignUp(n) % Quantum = 0
  <2>1. CASE n % Quantum = 0  BY <1>7, <2>1
  <2>2. CASE n % Quantum # 0
    <3>1. w + Quantum \in Nat /\ w + Quantum >= n  BY <1>1, <1>2, <1>4
    <3>2. alignUp(n) = w + Quantum  BY <1>7, <2>2
    <3>. HIDE DEF w
    <3>. QED  BY <1>5, <3>1, <3>2
  <2>. QED  BY <2>1, <2>2
<1>9. n - w = n % Quantum  BY <1>2
<1>. HIDE DEF w
<1>. QED  BY <1>3, <1>4, <1>6, <1>8, <1>9

(* An empty ring satisfies the invariant. *)
LEMMA InitRingInv == ASSUME RingSizes PROVE RingInit => RingInv
<1>. SUFFICES ASSUME RingInit PROVE RingInv  OBVIOUS
<1>1. size \in Nat /\ size > 0 /\ Slots = 0 .. size - 1  BY RingSize
<1>2. Quantum \in Nat /\ Quantum > 0  BY DEF RingSizes
<1>3. 0 % Quantum = 0
  <2>1. 0 \in 0 .. Quantum - 1 /\ 0 = Quantum * 0 + 0  BY <1>2
  <2>. QED  BY <1>2, <2>1, ModRemainder
<1>. HIDE DEF size, Slots
<1>4. RingTypes
  <2>1. buf \in [Slots -> Bytes]  BY DEF RingInit, Bytes
  <2>2. read \in Slots /\ used \in 0 .. size  BY <1>1 DEF RingInit
  <2>3. out \in Seq(Bytes)  BY DEF RingInit
  <2>. QED  BY <1>3, <2>1, <2>2, <2>3 DEF RingInit, RingTypes
<1>5. used = 0 /\ Len(out) = 0  BY DEF RingInit
<1>6. WaitingWhole /\ WaitingInOrder /\ ReadWhole /\ ReadInOrder
  BY <1>5 DEF WaitingWhole, WaitingInOrder, ReadWhole, ReadInOrder
<1>7. BytesAccounted  BY DEF RingInit, BytesAccounted
<1>. QED  BY <1>4, <1>6, <1>7 DEF RingInv

(* A refused block changes counters only. *)
LEMMA ContendedRingInv ==
  ASSUME RingSizes, RingInv, NEW n \in Nat, TryWriteContended(n)
  PROVE  RingInv'
<1>1. /\ UNCHANGED <<buf, read, used, reading, taken, out>>
      /\ dropped' = dropped + alignedLen(n) /\ written' = written + n
      /\ ragged' = ragged + (n % Quantum)
  BY DEF TryWriteContended
<1>2. alignedLen(n) \in 0 .. n /\ n - alignedLen(n) = n % Quantum  BY WholeQuanta
<1>3. RingTypes'  BY <1>1, <1>2 DEF RingInv, RingTypes
<1>4. written <= written' /\ written \in Int /\ written' \in Int
  BY <1>1 DEF RingInv, RingTypes
<1>5. \A i : Waiting(i)' = Waiting(i)  BY <1>1 DEF Waiting
<1>6. WaitingWhole'
  <2>. SUFFICES ASSUME NEW i \in 0 .. used - 1
                PROVE  /\ Waiting(i).phase = i % Quantum /\ Waiting(i).at < written'
                       /\ i % Quantum # 0 => Waiting(i).at = Waiting(i - 1).at + 1
    BY <1>1, <1>5 DEF WaitingWhole
  <2>1. Waiting(i).at \in Int
    <3>1. read + i \in Int  BY RingSize DEF RingInv, RingTypes
    <3>. QED  BY <3>1, RingSlot DEF RingInv, RingTypes, Waiting, Bytes
  <2>. QED  BY <1>4, <2>1 DEF RingInv, WaitingWhole
<1>7. WaitingInOrder'  BY <1>1, <1>5 DEF RingInv, WaitingInOrder
<1>8. ReadWhole'
  <2>. SUFFICES ASSUME NEW i \in 1 .. Len(out)
                PROVE  /\ out[i].phase = (i - 1) % Quantum /\ out[i].at < written'
                       /\ (i - 1) % Quantum # 0 => out[i].at = out[i - 1].at + 1
    BY <1>1 DEF ReadWhole
  <2>1. out[i] \in Bytes  BY DEF RingInv, RingTypes
  <2>2. out[i].at \in Int  BY <2>1 DEF Bytes
  <2>. QED  BY <1>4, <2>2 DEF RingInv, ReadWhole
<1>9. ReadInOrder'  BY <1>1, <1>5 DEF RingInv, ReadInOrder
<1>10. BytesAccounted'  BY <1>1, <1>2 DEF RingInv, RingTypes, BytesAccounted
<1>. QED  BY <1>3, <1>6, <1>7, <1>8, <1>9, <1>10 DEF RingInv

(* Taking the mutex moves nothing. *)
LEMMA LockRingInv ==
  ASSUME RingSizes, RingInv, NEW n \in Reads, lock(n)
  PROVE  RingInv'
<1>1. /\ UNCHANGED <<buf, read, used, dropped, written, ragged, taken, out>>
      /\ reading' \in Nat
  BY DEF lock, RingSizes
<1>2. \A i : Waiting(i)' = Waiting(i)  BY <1>1 DEF Waiting
<1>3. RingTypes'  BY <1>1 DEF RingInv, RingTypes
<1>4. WaitingWhole' /\ WaitingInOrder'
  BY <1>1, <1>2 DEF RingInv, WaitingWhole, WaitingInOrder
<1>5. ReadWhole' /\ ReadInOrder'  BY <1>1, <1>2 DEF RingInv, ReadWhole, ReadInOrder
<1>6. BytesAccounted'  BY <1>1 DEF RingInv, BytesAccounted
<1>. QED  BY <1>3, <1>4, <1>5, <1>6 DEF RingInv

(* How much of a block writeLocked keeps and what it drops for it: whole   *)
(* quanta, and exactly as much as the ring has room for.                   *)
KeptOf(n) == IF keep(n) > size THEN size ELSE keep(n)

LEMMA RoomForBlock ==
  ASSUME RingSizes, used \in 0 .. size, used % Quantum = 0, NEW n \in Nat
  PROVE  /\ keep(n) \in 0 .. n /\ keep(n) % Quantum = 0
         /\ KeptOf(n) \in 0 .. size /\ KeptOf(n) <= keep(n) /\ KeptOf(n) % Quantum = 0
         /\ makeRoom(KeptOf(n)) \in 0 .. used /\ makeRoom(KeptOf(n)) % Quantum = 0
         /\ used - makeRoom(KeptOf(n)) + KeptOf(n) \in 0 .. size
<1>1. size \in Nat /\ size > 0 /\ size % Quantum = 0  BY RingSize
<1>2. keep(n) \in 0 .. n /\ keep(n) % Quantum = 0  BY WholeQuanta DEF keep
<1>. HIDE DEF size
<1>3. KeptOf(n) \in 0 .. size /\ KeptOf(n) <= keep(n) /\ KeptOf(n) % Quantum = 0
  BY <1>1, <1>2 DEF KeptOf
<1>. DEFINE k == KeptOf(n)
            need == k - (size - used)
<1>4. CASE k <= size - used
  <2>1. makeRoom(k) = 0  BY <1>4 DEF makeRoom
  <2>2. 0 % Quantum = 0  BY WholeMultiple, Multiples, <1>1, WholeQuanta
  <2>. QED  BY <1>1, <1>2, <1>3, <1>4, <2>1, <2>2
<1>5. CASE ~(k <= size - used)
  <2>1. need \in Nat /\ need <= used  BY <1>1, <1>3, <1>5
  <2>. DEFINE up == alignUp(need)
  <2>2. up \in Nat /\ up >= need /\ up % Quantum = 0  BY <2>1, WholeQuanta
  <2>3. makeRoom(k) = IF up > used THEN used ELSE up  BY <1>5 DEF makeRoom
  <2>. HIDE DEF up
  <2>4. makeRoom(k) \in 0 .. used /\ makeRoom(k) >= need /\ makeRoom(k) % Quantum = 0
    BY <2>1, <2>2, <2>3
  <2>5. used - makeRoom(k) + k \in 0 .. size  BY <1>1, <1>3, <2>4
  <2>. QED  BY <1>2, <1>3, <2>4, <2>5
<1>. QED  BY <1>4, <1>5

(* A block that is taken goes to the end of the ring, after the bytes that *)
(* were not dropped for it.                                                *)
LEMMA LockedRingInv ==
  ASSUME RingSizes, RingInv, NEW n \in Nat, TryWriteLocked(n)
  PROVE  RingInv'
<1>. DEFINE k == KeptOf(n)
            drop == makeRoom(k)
            r == (read + drop) % size
            u == used - drop
            lo == keep(n) - k
<1>1. size \in Nat /\ size > 0 /\ Slots = 0 .. size - 1  BY RingSize
<1>2. Quantum \in Nat /\ Quantum > 0  BY DEF RingSizes
<1>3. /\ buf \in [Slots -> Bytes] /\ read \in Slots
      /\ used \in 0 .. size /\ used % Quantum = 0
      /\ dropped \in Int /\ written \in Int /\ ragged \in Int /\ taken \in Int
      /\ reading \in Nat /\ out \in Seq(Bytes)
  BY DEF RingInv, RingTypes
<1>4. /\ keep(n) \in 0 .. n /\ keep(n) % Quantum = 0
      /\ k \in 0 .. size /\ k <= keep(n) /\ k % Quantum = 0
      /\ drop \in 0 .. used /\ drop % Quantum = 0 /\ used - drop + k \in 0 .. size
  BY <1>3, RoomForBlock
<1>5. /\ buf' = [s \in Slots |->
                   LET i == (s - r - u) % size
                   IN IF i < k THEN [at |-> written + lo + i, phase |-> (lo + i) % Quantum]
                               ELSE buf[s]]
      /\ read' = r /\ used' = used - drop + k
      /\ dropped' = dropped + (n - k) + drop /\ written' = written + n
      /\ UNCHANGED <<reading, ragged, taken, out>>
  BY DEF TryWriteLocked, copyBytes, KeptOf
<1>. HIDE DEF size, Slots, k, drop
<1>6. r \in Slots
  <2>1. read + drop \in Int  BY <1>1, <1>3, <1>4
  <2>. QED  BY <2>1, RingSlot
<1>. HIDE DEF r
<1>7. /\ lo \in 0 .. n /\ lo + k <= n /\ lo % Quantum = 0
      /\ u \in 0 .. size /\ u % Quantum = 0 /\ k \in 0 .. size - u
      /\ used' = u + k /\ used' \in 0 .. size /\ used' % Quantum = 0
  <2>1. lo \in 0 .. n /\ lo + k <= n /\ keep(n) \in Int /\ k \in Int  BY <1>4
  <2>2. lo % Quantum = 0  BY <1>2, <1>4, <2>1, Multiples
  <2>3. used \in Int /\ drop \in Int /\ u \in 0 .. size /\ k \in 0 .. size - u
    BY <1>1, <1>3, <1>4
  <2>4. u % Quantum = 0  BY <1>2, <1>3, <1>4, <2>3, Multiples
  <2>5. u + k \in 0 .. size /\ used' = u + k  BY <1>4, <1>5
  <2>. HIDE DEF u
  <2>6. u \in Int  BY <1>1, <2>3
  <2>7. (u + k) % Quantum = 0  BY <1>2, <1>4, <2>1, <2>4, <2>6, Multiples
  <2>. QED  BY <2>1, <2>2, <2>3, <2>4, <2>5, <2>7
<1>. HIDE DEF u, lo
<1>8. ASSUME NEW i \in 0 .. used - 1
      PROVE  Waiting(i) \in Bytes /\ Waiting(i).at \in Int
  <2>1. read + i \in Int  BY <1>1, <1>3
  <2>2. Waiting(i) \in Bytes  BY <1>3, <2>1, RingSlot DEF Waiting
  <2>. QED  BY <2>2 DEF Bytes
<1>9. ASSUME NEW i \in 0 .. used' - 1
      PROVE  Waiting(i)' = IF i < u THEN Waiting(drop + i)
                           ELSE [at |-> written + lo + (i - u), phase |-> (lo + (i - u)) % Quantum]
  <2>. DEFINE s == (r + i) % size
              d == (s - r - u) % size
  <2>1. r \in Int /\ i \in 0 .. u + k - 1 /\ i \in Int  BY <1>1, <1>6, <1>7, <1>9
  <2>2. s \in Slots
    <3>1. r + i \in Int  BY <2>1
    <3>. QED  BY <3>1, RingSlot
  <2>3. d = IF i >= u THEN i - u ELSE size + i - u
    BY <1>1, <1>7, <2>1, RingDistance
  <2>4. Waiting(i)' = buf'[s]
    <3>1. size' = size  BY DEF size, alignedLen
    <3>. QED  BY <1>5, <3>1 DEF Waiting
  <2>5. buf'[s] = IF d < k THEN [at |-> written + lo + d, phase |-> (lo + d) % Quantum]
                           ELSE buf[s]
    BY <1>5, <2>2
  <2>. HIDE DEF d, s
  <2>6. CASE i < u
    <3>1. ~(d < k)  BY <1>1, <1>7, <2>1, <2>3, <2>6
    <3>2. s = (read + (drop + i)) % size
      <4>1. read + drop \in Int /\ (read + drop) + i = read + (drop + i)
        BY <1>1, <1>3, <1>4, <2>1
      <4>2. (((read + drop) % size) + i) % size = ((read + drop) + i) % size
        BY <1>1, <2>1, <4>1, ModAdd
      <4>. QED  BY <4>1, <4>2 DEF s, r
    <3>. QED  BY <2>4, <2>5, <2>6, <3>1, <3>2 DEF Waiting
  <2>7. CASE ~(i < u)
    <3>1. d = i - u /\ d < k  BY <1>7, <2>1, <2>3, <2>7
    <3>. QED  BY <2>4, <2>5, <2>7, <3>1
  <2>. QED  BY <2>6, <2>7
<1>10. ASSUME NEW i \in 0 .. u - 1
       PROVE  /\ i \in 0 .. used' - 1 /\ i < u /\ drop + i \in 0 .. used - 1
              /\ (drop + i) % Quantum = i % Quantum
              /\ Waiting(i)' = Waiting(drop + i)
  <2>1. i \in 0 .. used' - 1 /\ i < u /\ i \in Int /\ drop \in Int  BY <1>3, <1>4, <1>7
  <2>2. drop + i \in 0 .. used - 1  BY <1>3, <1>4, <2>1 DEF u
  <2>3. (drop + i) % Quantum = i % Quantum  BY <1>2, <1>4, <2>1, Multiples
  <2>. QED  BY <1>9, <2>1, <2>2, <2>3
<1>11. ASSUME NEW i \in u .. used' - 1
       PROVE  /\ i \in 0 .. used' - 1
              /\ Waiting(i)'.phase = i % Quantum
              /\ Waiting(i)'.at = written + lo + (i - u)
              /\ written + lo + (i - u) \in Int
              /\ written + lo + (i - u) >= written /\ written + lo + (i - u) < written'
  <2>1. i \in 0 .. used' - 1 /\ ~(i < u) /\ i - u \in Int /\ u \in Int /\ lo \in Int /\ i \in Int
    BY <1>7
  <2>2. Waiting(i)' = [at |-> written + lo + (i - u), phase |-> (lo + (i - u)) % Quantum]
    BY <1>9, <2>1
  <2>3. (lo + (i - u)) % Quantum = (i - u) % Quantum  BY <1>2, <1>7, <2>1, Multiples
  <2>4. (u + (i - u)) % Quantum = (i - u) % Quantum  BY <1>2, <1>7, <2>1, Multiples
  <2>5. u + (i - u) = i  BY <2>1
  <2>6. Waiting(i)'.phase = i % Quantum /\ Waiting(i)'.at = written + lo + (i - u)
    BY <2>2, <2>3, <2>4, <2>5
  <2>7. /\ written + lo + (i - u) \in Int /\ written + lo + (i - u) >= written
        /\ written + lo + (i - u) < written'
    BY <1>3, <1>5, <1>7
  <2>. QED  BY <2>1, <2>6, <2>7
<1>12. WaitingWhole'
  <2>. SUFFICES ASSUME NEW i \in 0 .. used' - 1
                PROVE  /\ Waiting(i)'.phase = i % Quantum /\ Waiting(i)'.at < written'
                       /\ i % Quantum # 0 => Waiting(i)'.at = Waiting(i - 1)'.at + 1
    BY DEF WaitingWhole, Waiting
  <2>0. i \in Int /\ u \in Int  BY <1>7
  <2>1. CASE i < u
    <3>1. i \in 0 .. u - 1  BY <2>0, <2>1
    <3>2. /\ Waiting(i)' = Waiting(drop + i) /\ drop + i \in 0 .. used - 1
          /\ (drop + i) % Quantum = i % Quantum
      BY <3>1, <1>10
    <3>3. /\ Waiting(drop + i).phase = i % Quantum /\ Waiting(drop + i).at < written
          /\ i % Quantum # 0 => Waiting(drop + i).at = Waiting(drop + i - 1).at + 1
      <4>. DEFINE a == drop + i
      <4>1. a \in 0 .. used - 1 /\ a % Quantum = i % Quantum  BY <3>2
      <4>. HIDE DEF a
      <4>2. /\ Waiting(a).phase = a % Quantum /\ Waiting(a).at < written
            /\ a % Quantum # 0 => Waiting(a).at = Waiting(a - 1).at + 1
        BY <4>1 DEF RingInv, WaitingWhole
      <4>3. /\ Waiting(a).phase = i % Quantum /\ Waiting(a).at < written
            /\ i % Quantum # 0 => Waiting(a).at = Waiting(a - 1).at + 1
        <5>. DEFINE w == Waiting(a)  v == Waiting(a - 1)  m == i % Quantum
        <5>. HIDE DEF w, v, m
        <5>. QED  BY <4>1, <4>2 DEF w, v, m
      <4>4. a - 1 = drop + i - 1  BY <1>3, <1>4, <2>0 DEF a
      <4>. QED  BY <4>3, <4>4 DEF a
    <3>4. Waiting(drop + i).at < written'
      BY <1>3, <1>5, <1>8, <3>2, <3>3
    <3>5. ASSUME i % Quantum # 0
          PROVE  Waiting(i - 1)' = Waiting(drop + i - 1)
      <4>1. 0 % Quantum = 0  BY <1>2, <1>4, Multiples, WholeQuanta
      <4>2. i # 0  BY <3>5, <4>1
      <4>3. i - 1 \in 0 .. u - 1  BY ONLY <2>0, <3>1, <4>2
      <4>4. Waiting(i - 1)' = Waiting(drop + (i - 1))  BY <4>3, <1>10
      <4>5. drop + (i - 1) = drop + i - 1  BY <1>3, <1>4, <2>0
      <4>. QED  BY <4>4, <4>5
    <3>. QED  BY <3>2, <3>3, <3>4, <3>5
  <2>2. CASE ~(i < u)
    <3>1. i \in u .. used' - 1  BY <2>0, <2>2, <1>7
    <3>2. /\ Waiting(i)'.phase = i % Quantum
          /\ Waiting(i)'.at = written + lo + (i - u) /\ Waiting(i)'.at < written'
      BY <3>1, <1>11
    <3>3. ASSUME i % Quantum # 0
          PROVE  Waiting(i)'.at = Waiting(i - 1)'.at + 1
      <4>1. i # u  BY <3>3, <1>7
      <4>2. i - 1 \in u .. used' - 1
        <5>. DEFINE t == used'
        <5>1. t \in Int /\ i \in u .. t - 1  BY <1>1, <1>7, <3>1
        <5>. HIDE DEF t
        <5>2. i - 1 \in u .. t - 1  BY <2>0, <4>1, <5>1
        <5>. QED  BY <5>2 DEF t
      <4>3. Waiting(i - 1)'.at = written + lo + ((i - 1) - u)  BY <4>2, <1>11
      <4>4. written + lo + (i - u) = written + lo + ((i - 1) - u) + 1
        BY <1>3, <1>7, <2>0
      <4>. QED  BY <3>2, <4>3, <4>4
    <3>. QED  BY <3>2, <3>3
  <2>. QED  BY <2>1, <2>2
<1>13. WaitingInOrder'
  <2>. SUFFICES ASSUME NEW i \in 0 .. used' - 1, NEW j \in 0 .. used' - 1, i < j
                PROVE  Waiting(i)'.at < Waiting(j)'.at
    BY DEF WaitingInOrder, Waiting
  <2>0. i \in Int /\ j \in Int /\ u \in Int /\ drop \in Int  BY <1>3, <1>4, <1>7
  <2>1. CASE j < u
    <3>1. i \in 0 .. u - 1 /\ j \in 0 .. u - 1 /\ drop + i < drop + j  BY <2>0, <2>1
    <3>2. drop + i \in 0 .. used - 1 /\ drop + j \in 0 .. used - 1
          /\ Waiting(i)' = Waiting(drop + i) /\ Waiting(j)' = Waiting(drop + j)
      BY <3>1, <1>10
    <3>. QED  BY <3>1, <3>2 DEF RingInv, WaitingInOrder
  <2>2. CASE i < u /\ ~(j < u)
    <3>1. i \in 0 .. u - 1 /\ j \in u .. used' - 1  BY <1>7, <2>0, <2>2
    <3>2. drop + i \in 0 .. used - 1 /\ Waiting(i)' = Waiting(drop + i)  BY <3>1, <1>10
    <3>3. Waiting(i)'.at < written /\ Waiting(i)'.at \in Int
      BY <3>2, <1>8 DEF RingInv, WaitingWhole
    <3>4. Waiting(j)'.at \in Int /\ Waiting(j)'.at >= written  BY <3>1, <1>11
    <3>. QED  BY <1>3, <3>3, <3>4
  <2>3. CASE ~(i < u)
    <3>1. i \in u .. used' - 1 /\ j \in u .. used' - 1  BY <1>7, <2>0, <2>3
    <3>2. Waiting(i)'.at = written + lo + (i - u) /\ Waiting(j)'.at = written + lo + (j - u)
      BY <3>1, <1>11
    <3>. QED  BY <1>3, <1>7, <2>0, <3>2
  <2>. QED  BY <2>0, <2>1, <2>2, <2>3
<1>14. ASSUME NEW j \in 1 .. Len(out)
       PROVE  out[j].at \in Int /\ out[j].at < written
  <2>1. out[j] \in Bytes  BY <1>3
  <2>. QED  BY <2>1 DEF Bytes, RingInv, ReadWhole
<1>15. ReadWhole'
  <2>. SUFFICES ASSUME NEW i \in 1 .. Len(out)
                PROVE  /\ out[i].phase = (i - 1) % Quantum /\ out[i].at < written'
                       /\ (i - 1) % Quantum # 0 => out[i].at = out[i - 1].at + 1
    BY <1>5 DEF ReadWhole
  <2>1. out[i].at < written'  BY <1>3, <1>5, <1>14
  <2>. QED  BY <2>1 DEF RingInv, ReadWhole
<1>16. ReadInOrder'
  <2>1. ASSUME NEW i \in 1 .. Len(out), NEW j \in 0 .. used' - 1
        PROVE  out[i].at < Waiting(j)'.at
    <3>0. j \in Int /\ u \in Int  BY <1>7
    <3>1. CASE j < u
      <4>1. j \in 0 .. u - 1  BY <3>0, <3>1
      <4>2. drop + j \in 0 .. used - 1 /\ Waiting(j)' = Waiting(drop + j)  BY <4>1, <1>10
      <4>. QED  BY <4>2 DEF RingInv, ReadInOrder
    <3>2. CASE ~(j < u)
      <4>1. j \in u .. used' - 1  BY <3>0, <3>2, <1>7
      <4>2. Waiting(j)'.at \in Int /\ Waiting(j)'.at >= written  BY <4>1, <1>11
      <4>. QED  BY <1>3, <1>14, <4>2
    <3>. QED  BY <3>1, <3>2
  <2>2. \A i, j \in 1 .. Len(out) : i < j => out[i].at < out[j].at
    BY DEF RingInv, ReadInOrder
  <2>. QED  BY <1>5, <2>1, <2>2 DEF ReadInOrder, Waiting
<1>17. RingTypes'
  <2>1. buf' \in [Slots -> Bytes]
    <3>1. ASSUME NEW s \in Slots PROVE buf'[s] \in Bytes
      <4>. DEFINE d == (s - r - u) % size
      <4>1. buf'[s] = IF d < k THEN [at |-> written + lo + d, phase |-> (lo + d) % Quantum]
                               ELSE buf[s]
        BY <1>5
      <4>2. d \in Int /\ lo + d \in Int
        <5>1. s - r - u \in Int /\ lo \in Int  BY <1>1, <1>6, <1>7
        <5>. QED  BY <5>1, <1>1
      <4>. HIDE DEF d
      <4>3. written + lo + d \in Int /\ (lo + d) % Quantum \in Int  BY <1>2, <1>3, <1>7, <4>2
      <4>4. buf[s] \in Bytes  BY <1>3
      <4>. QED  BY <4>1, <4>3, <4>4 DEF Bytes
    <3>2. buf' = [s \in Slots |-> buf'[s]]  BY <1>5
    <3>. QED  BY <3>1, <3>2
  <2>2. read' \in Slots  BY <1>5, <1>6
  <2>3. dropped' \in Int /\ written' \in Int  BY <1>1, <1>3, <1>4, <1>5
  <2>4. size' = size /\ Slots' = Slots  BY DEF size, Slots, alignedLen
  <2>. QED  BY <1>3, <1>5, <1>7, <2>1, <2>2, <2>3, <2>4 DEF RingTypes
<1>18. BytesAccounted'
  BY <1>1, <1>3, <1>4, <1>5 DEF RingInv, BytesAccounted
<1>. QED  BY <1>12, <1>13, <1>15, <1>16, <1>17, <1>18 DEF RingInv

(* A read takes whole quanta off the front of the ring. *)
LEMMA ReadRingInv ==
  ASSUME RingSizes, RingInv, readLocked
  PROVE  RingInv'
<1>. DEFINE n == readable(reading)
<1>1. size \in Nat /\ size > 0 /\ Slots = 0 .. size - 1  BY RingSize
<1>2. Quantum \in Nat /\ Quantum > 0  BY DEF RingSizes
<1>3. /\ buf \in [Slots -> Bytes] /\ read \in Slots
      /\ used \in 0 .. size /\ used % Quantum = 0
      /\ dropped \in Int /\ written \in Int /\ ragged \in Int /\ taken \in Int
      /\ reading \in Nat /\ out \in Seq(Bytes)
  BY DEF RingInv, RingTypes
<1>. HIDE DEF size, Slots
<1>4. n \in 0 .. used /\ n % Quantum = 0
  <2>1. used \in Nat  BY <1>1, <1>3
  <2>2. /\ alignedLen(reading) \in 0 .. reading /\ alignedLen(reading) % Quantum = 0
        /\ alignedLen(used) \in 0 .. used /\ alignedLen(used) % Quantum = 0
    BY <1>3, <2>1, WholeQuanta
  <2>3. n = IF alignedLen(reading) > used THEN alignedLen(used) ELSE alignedLen(reading)
    BY DEF readable
  <2>. HIDE DEF n
  <2>4. CASE alignedLen(reading) > used  BY <2>2, <2>3, <2>4
  <2>5. CASE ~(alignedLen(reading) > used)  BY <2>1, <2>2, <2>3, <2>5
  <2>. QED  BY <2>4, <2>5
<1>5. /\ reading' = 0
      /\ out' = [i \in 1 .. n |-> buf[(read + i - 1) % size]]
      /\ read' = (read + n) % size /\ used' = used - n /\ taken' = taken + n
      /\ UNCHANGED <<buf, dropped, written, ragged>>
  BY DEF readLocked
<1>. HIDE DEF n
<1>6. ASSUME NEW i \in 0 .. used - 1
      PROVE  Waiting(i) \in Bytes /\ Waiting(i).at \in Int
  <2>1. read + i \in Int  BY <1>1, <1>3
  <2>2. Waiting(i) \in Bytes  BY <1>3, <2>1, RingSlot DEF Waiting
  <2>. QED  BY <2>2 DEF Bytes
<1>7. ASSUME NEW i \in 0 .. used' - 1
      PROVE  /\ n + i \in 0 .. used - 1 /\ (n + i) % Quantum = i % Quantum
             /\ Waiting(i)' = Waiting(n + i)
  <2>1. i \in Int /\ n \in Int /\ read + n \in Int /\ (read + n) + i = read + (n + i)
    BY <1>1, <1>3, <1>4
  <2>2. n + i \in 0 .. used - 1  BY <1>3, <1>4, <1>5
  <2>3. (n + i) % Quantum = i % Quantum  BY <1>2, <1>4, <2>1, Multiples
  <2>4. (((read + n) % size) + i) % size = ((read + n) + i) % size  BY <1>1, <2>1, ModAdd
  <2>5. size' = size  BY DEF size, alignedLen
  <2>6. Waiting(i)' = buf[(((read + n) % size) + i) % size]  BY <1>5, <2>5 DEF Waiting
  <2>. QED  BY <2>1, <2>2, <2>3, <2>4, <2>6 DEF Waiting
<1>8. /\ Len(out') = n /\ n \in Nat
      /\ \A i \in 1 .. n : i - 1 \in 0 .. used - 1 /\ out'[i] = Waiting(i - 1)
  <2>1. n \in Nat  BY <1>4
  <2>2. Len(out') = n  BY <1>5, <2>1
  <2>3. ASSUME NEW i \in 1 .. n PROVE i - 1 \in 0 .. used - 1 /\ out'[i] = Waiting(i - 1)
    <3>1. i - 1 \in 0 .. used - 1  BY <1>3, <1>4
    <3>2. read + i - 1 = read + (i - 1)  BY <1>1, <1>3
    <3>. QED  BY <1>5, <3>1, <3>2 DEF Waiting
  <2>. QED  BY <2>1, <2>2, <2>3
<1>9. WaitingWhole'
  <2>. SUFFICES ASSUME NEW i \in 0 .. used' - 1
                PROVE  /\ Waiting(i)'.phase = i % Quantum /\ Waiting(i)'.at < written'
                       /\ i % Quantum # 0 => Waiting(i)'.at = Waiting(i - 1)'.at + 1
    BY DEF WaitingWhole, Waiting
  <2>. DEFINE a == n + i
  <2>1. a \in 0 .. used - 1 /\ a % Quantum = i % Quantum /\ Waiting(i)' = Waiting(a)
    BY <1>7
  <2>2. i \in Int /\ n \in Int  BY <1>4
  <2>3. a - 1 = n + (i - 1)  BY <2>2
  <2>. HIDE DEF a
  <2>4. /\ Waiting(a).phase = a % Quantum /\ Waiting(a).at < written
        /\ a % Quantum # 0 => Waiting(a).at = Waiting(a - 1).at + 1
    BY <2>1 DEF RingInv, WaitingWhole
  <2>5. ASSUME i % Quantum # 0 PROVE Waiting(i - 1)' = Waiting(a - 1)
    <3>1. 0 % Quantum = 0  BY <1>2, <1>4, Multiples, WholeQuanta
    <3>2. i # 0  BY <2>5, <3>1
    <3>. DEFINE t == used'
    <3>3. t \in Int /\ i \in 0 .. t - 1  BY <1>1, <1>3, <1>4, <1>5
    <3>. HIDE DEF t
    <3>4. i - 1 \in 0 .. t - 1  BY <3>2, <3>3
    <3>5. Waiting(i - 1)' = Waiting(n + (i - 1))  BY <1>7, <3>4 DEF t
    <3>. QED  BY <2>3, <3>5
  <2>. QED  BY <1>5, <2>1, <2>4, <2>5
<1>10. WaitingInOrder'
  <2>. SUFFICES ASSUME NEW i \in 0 .. used' - 1, NEW j \in 0 .. used' - 1, i < j
                PROVE  Waiting(i)'.at < Waiting(j)'.at
    BY DEF WaitingInOrder, Waiting
  <2>1. /\ n + i \in 0 .. used - 1 /\ n + j \in 0 .. used - 1
        /\ Waiting(i)' = Waiting(n + i) /\ Waiting(j)' = Waiting(n + j)
    BY <1>7
  <2>2. n + i < n + j  BY <1>4
  <2>. QED  BY <2>1, <2>2 DEF RingInv, WaitingInOrder
<1>11. ReadWhole'
  <2>. SUFFICES ASSUME NEW i \in 1 .. n
                PROVE  /\ out'[i].phase = (i - 1) % Quantum /\ out'[i].at < written
                       /\ (i - 1) % Quantum # 0 => out'[i].at = out'[i - 1].at + 1
    BY <1>5, <1>8 DEF ReadWhole
  <2>. DEFINE a == i - 1
  <2>1. a \in 0 .. used - 1 /\ out'[i] = Waiting(a)  BY <1>8
  <2>2. i \in Int /\ n \in Int /\ i >= 1 /\ i <= n  BY <1>4
  <2>. HIDE DEF a
  <2>3. /\ Waiting(a).phase = a % Quantum /\ Waiting(a).at < written
        /\ a % Quantum # 0 => Waiting(a).at = Waiting(a - 1).at + 1
    BY <2>1 DEF RingInv, WaitingWhole
  <2>4. ASSUME a % Quantum # 0 PROVE out'[i - 1] = Waiting(a - 1)
    <3>1. 0 % Quantum = 0  BY <1>2, <1>4, Multiples, WholeQuanta
    <3>2. a # 0  BY <2>4, <3>1
    <3>3. i - 1 \in 1 .. n  BY <2>2, <3>2 DEF a
    <3>4. out'[i - 1] = Waiting((i - 1) - 1)  BY <1>8, <3>3
    <3>. QED  BY <3>4 DEF a
  <2>5. /\ out'[i].phase = a % Quantum /\ out'[i].at < written
        /\ a % Quantum # 0 => out'[i].at = out'[i - 1].at + 1
    BY <2>1, <2>3, <2>4
  <2>. QED  BY <2>5 DEF a
<1>12. ReadInOrder'
  <2>1. ASSUME NEW i \in 1 .. n, NEW j \in 1 .. n, i < j
        PROVE  out'[i].at < out'[j].at
    <3>1. /\ i - 1 \in 0 .. used - 1 /\ j - 1 \in 0 .. used - 1
          /\ out'[i] = Waiting(i - 1) /\ out'[j] = Waiting(j - 1)
      BY <1>8
    <3>2. i - 1 < j - 1  BY <2>1
    <3>. QED  BY <3>1, <3>2 DEF RingInv, WaitingInOrder
  <2>2. ASSUME NEW i \in 1 .. n, NEW j \in 0 .. used' - 1
        PROVE  out'[i].at < Waiting(j)'.at
    <3>1. /\ i - 1 \in 0 .. used - 1 /\ n + j \in 0 .. used - 1
          /\ out'[i] = Waiting(i - 1) /\ Waiting(j)' = Waiting(n + j)
      BY <1>7, <1>8
    <3>2. i - 1 < n + j  BY <1>4
    <3>. QED  BY <3>1, <3>2 DEF RingInv, WaitingInOrder
  <2>. QED  BY <1>8, <2>1, <2>2 DEF ReadInOrder, Waiting
<1>13. RingTypes'
  <2>1. read' \in Slots
    <3>1. read + n \in Int  BY <1>1, <1>3, <1>4
    <3>. QED  BY <1>5, <3>1, RingSlot
  <2>2. used' \in 0 .. size  BY <1>1, <1>3, <1>4, <1>5
  <2>3. used' % Quantum = 0
    <3>1. used \in Int /\ n \in Int  BY <1>1, <1>3, <1>4
    <3>. QED  BY <1>2, <1>3, <1>4, <1>5, <3>1, Multiples
  <2>4. out' \in Seq(Bytes)
    <3>1. \A i \in 1 .. n : buf[(read + i - 1) % size] \in Bytes
      <4>. SUFFICES ASSUME NEW i \in 1 .. n PROVE buf[(read + i - 1) % size] \in Bytes
        OBVIOUS
      <4>1. read + i - 1 \in Int  BY <1>1, <1>3, <1>4
      <4>2. (read + i - 1) % size \in Slots  BY <4>1, RingSlot
      <4>. QED  BY <1>3, <4>2
    <3>. QED  BY <1>5, <1>8, <3>1
  <2>5. size' = size /\ Slots' = Slots  BY DEF size, Slots, alignedLen
  <2>6. taken' \in Int /\ reading' \in Nat  BY <1>3, <1>4, <1>5
  <2>. QED  BY <1>3, <1>5, <2>1, <2>2, <2>3, <2>4, <2>5, <2>6 DEF RingTypes
<1>14. BytesAccounted'
  BY <1>1, <1>3, <1>4, <1>5 DEF RingInv, BytesAccounted
<1>. QED  BY <1>9, <1>10, <1>11, <1>12, <1>13, <1>14 DEF RingInv

(* What the invariant says of what was read and what waits, in the words   *)
(* of the property.                                                        *)
LEMMA RingInvIntact == ASSUME RingSizes, RingInv PROVE CaptureIntact
<1>1. size \in Nat /\ size > 0 /\ Slots = 0 .. size - 1  BY RingSize
<1>2. /\ buf \in [Slots -> Bytes] /\ read \in Slots /\ used \in 0 .. size
      /\ out \in Seq(Bytes)
  BY DEF RingInv, RingTypes
<1>. HIDE DEF size, Slots
<1>3. used \in Nat /\ Len(out) \in Nat /\ DOMAIN out = 1 .. Len(out)  BY <1>1, <1>2
<1>4. /\ Unread \in Seq(Bytes) /\ Len(Unread) = used /\ DOMAIN Unread = 1 .. used
      /\ \A i \in 1 .. used : i - 1 \in 0 .. used - 1 /\ Unread[i] = Waiting(i - 1)
  <2>1. ASSUME NEW i \in 1 .. used
        PROVE  /\ i - 1 \in 0 .. used - 1 /\ buf[(read + i - 1) % size] \in Bytes
               /\ buf[(read + i - 1) % size] = Waiting(i - 1)
    <3>1. read + i - 1 \in Int /\ read + i - 1 = read + (i - 1)  BY <1>1, <1>2, <1>3
    <3>2. (read + i - 1) % size \in Slots  BY <3>1, RingSlot
    <3>. QED  BY <1>2, <1>3, <3>1, <3>2 DEF Waiting
  <2>. QED  BY <1>3, <2>1 DEF Unread
<1>5. FramesStayWhole
  <2>1. ASSUME NEW i \in DOMAIN out
        PROVE  /\ out[i].phase = (i - 1) % Quantum
               /\ (i > 1 /\ out[i].phase # 0) => out[i].at = out[i - 1].at + 1
    BY <1>3 DEF RingInv, ReadWhole
  <2>2. ASSUME NEW i \in DOMAIN Unread
        PROVE  /\ Unread[i].phase = (i - 1) % Quantum
               /\ (i > 1 /\ Unread[i].phase # 0) => Unread[i].at = Unread[i - 1].at + 1
    <3>. DEFINE a == i - 1
    <3>1. a \in 0 .. used - 1 /\ Unread[i] = Waiting(a)  BY <1>4
    <3>2. /\ Waiting(a).phase = a % Quantum
          /\ a % Quantum # 0 => Waiting(a).at = Waiting(a - 1).at + 1
      <4>. HIDE DEF a
      <4>. QED  BY <3>1 DEF RingInv, WaitingWhole
    <3>3. ASSUME i > 1 PROVE Unread[i - 1] = Waiting(a - 1)
      <4>1. i - 1 \in 1 .. used  BY <1>3, <1>4, <3>3
      <4>. QED  BY <1>4, <4>1
    <3>. QED  BY <3>1, <3>2, <3>3
  <2>. QED  BY <2>1, <2>2 DEF FramesStayWhole
<1>6. AudioInOrder
  <2>. DEFINE q == out \o Unread
  <2>1. Len(q) = Len(out) + used
    <3>1. Len(out \o Unread) = Len(out) + Len(Unread)  BY <1>2, <1>4, ConcatProperties
    <3>. QED  BY <1>4, <3>1
  <2>2. \A i \in 1 .. Len(out) : q[i] = out[i]  BY <1>2, <1>3, <1>4
  <2>3. \A i \in Len(out) + 1 .. Len(out) + used :
          i - Len(out) \in 1 .. used /\ q[i] = Unread[i - Len(out)]
    BY <1>2, <1>3, <1>4
  <2>. HIDE DEF q
  <2>4. ASSUME NEW i \in 2 .. Len(q) PROVE q[i - 1].at < q[i].at
    <3>1. CASE i <= Len(out)
      <4>1. i \in 1 .. Len(out) /\ i - 1 \in 1 .. Len(out) /\ i - 1 < i  BY <1>3, <3>1
      <4>. QED  BY <2>2, <4>1 DEF RingInv, ReadInOrder
    <3>2. CASE i = Len(out) + 1
      <4>1. i - 1 \in 1 .. Len(out) /\ i \in Len(out) + 1 .. Len(out) + used
            /\ i - Len(out) = 1
        BY <1>3, <2>1, <3>2
      <4>2. q[i - 1] = out[i - 1] /\ q[i] = Unread[1] /\ 1 \in 1 .. used  BY <2>2, <2>3, <4>1
      <4>3. Unread[1] = Waiting(0) /\ 0 \in 0 .. used - 1  BY <1>4, <4>2
      <4>. QED  BY <4>1, <4>2, <4>3 DEF RingInv, ReadInOrder
    <3>3. CASE i > Len(out) + 1
      <4>. DEFINE a == i - Len(out)
      <4>1. /\ i \in Len(out) + 1 .. Len(out) + used
            /\ i - 1 \in Len(out) + 1 .. Len(out) + used
            /\ a - 1 = (i - 1) - Len(out)
        BY <1>3, <2>1, <3>3
      <4>2. a \in 1 .. used /\ a - 1 \in 1 .. used /\ q[i] = Unread[a] /\ q[i - 1] = Unread[a - 1]
        BY <2>3, <4>1
      <4>. HIDE DEF a
      <4>3. /\ a - 1 \in 0 .. used - 1 /\ (a - 1) - 1 \in 0 .. used - 1
            /\ (a - 1) - 1 < a - 1
            /\ Unread[a] = Waiting(a - 1) /\ Unread[a - 1] = Waiting((a - 1) - 1)
        BY <1>4, <4>2
      <4>4. Waiting((a - 1) - 1).at < Waiting(a - 1).at
        BY <4>3 DEF RingInv, WaitingInOrder
      <4>. QED  BY <4>2, <4>3, <4>4
    <3>. QED  BY <1>3, <2>1, <3>1, <3>2, <3>3
  <2>. QED  BY <2>4 DEF AudioInOrder, q
<1>. QED  BY <1>5, <1>6 DEF RingInv, CaptureIntact

(* What comes out of the capture ring is what went in, for every frame     *)
(* size, every ring size (a ring smaller than a frame included) and every  *)
(* size of a block and of a read (ring.go: TryWrite, Read).                *)
THEOREM CaptureRingIntact == ASSUME RingSizes PROVE RingSpec => []CaptureIntact
<1>1. RingInit => RingInv  BY InitRingInv
<1>2. RingInv /\ [RingNext]_ringVars => RingInv'
  <2>. SUFFICES ASSUME RingInv, [RingNext]_ringVars PROVE RingInv'  OBVIOUS
  <2>1. CASE UNCHANGED ringVars
    <3>1. \A i : Waiting(i)' = Waiting(i)  BY <2>1 DEF ringVars, Waiting
    <3>. QED
      BY <2>1, <3>1 DEF ringVars, RingInv, RingTypes, WaitingWhole, WaitingInOrder, ReadWhole,
                        ReadInOrder, BytesAccounted
  <2>2. CASE readLocked  BY <2>2, ReadRingInv
  <2>3. ASSUME NEW n \in Blocks, TryWrite(n) PROVE RingInv'
    <3>1. n \in Nat  BY DEF RingSizes
    <3>. QED  BY <2>3, <3>1, ContendedRingInv, LockedRingInv DEF TryWrite
  <2>4. ASSUME NEW n \in Reads, lock(n) PROVE RingInv'  BY <2>4, LockRingInv
  <2>. QED  BY <2>1, <2>2, <2>3, <2>4 DEF RingNext
<1>3. RingInv => CaptureIntact  BY RingInvIntact
<1>. QED  BY <1>1, <1>2, <1>3, PTL DEF RingSpec
=============================================================================
