------------------------- MODULE ClientMediaProofs -------------------------
(***************************************************************************)
(* Proofs about ClientMedia for every modulus, window size and hold time.  *)
(*                                                                         *)
(* PlayedInPlace is not inductive: that a frame comes out at its own       *)
(* position rests on what the window knows of the frames it holds.  IInv   *)
(* adds that nextSeq is nextPos modulo SeqMod, that a held frame is stored *)
(* under its own number and lies in nextPos .. sent-1, that the spread of  *)
(* the network is below half the sequence space, and that no frame is both *)
(* held and in flight (the network does not duplicate).  AccountInv, on    *)
(* top of it, carries AcceptedNotConcealed and StatsMatchOutput.           *)
(***************************************************************************)
EXTENDS ClientMedia, ModArithmetic, FiniteSetTheorems

(* What nextSeq and the window mean, for a given number and position. *)
Window(held, from, pos) ==
  /\ pos \in Nat /\ pos <= sent /\ sent - pos <= Half
  /\ from = pos % SeqMod
  /\ DOMAIN held \subseteq 0 .. SeqMod - 1
  /\ held \in [DOMAIN held -> Nat]
  /\ \A k \in DOMAIN held : Wire(held[k]) = k /\ pos <= held[k] /\ held[k] < sent

NetSpread == \A f \in inFlight : f < sent /\ sent - f <= Half
NoCopies  == \A k \in Held : future[k] \notin inFlight

IInv ==
  /\ MediaTypes
  /\ nextPos <= sent /\ sent - nextPos <= Half
  /\ ~seen => Held = {}
  /\ seen => Window(future, nextSeq, nextPos)
  /\ NetSpread
  /\ NoCopies
  /\ PlayedInPlace

-----------------------------------------------------------------------------
(* The constants, as the arithmetic below uses them. *)
LEMMA HalfFact == Half \in Nat /\ Half > 0 /\ SeqMod = 2 * Half /\ SeqMod \in Nat /\ SeqMod > 0
BY ConstantsAssumption DEF Half

(* The same facts for the modulus of the wire numbers. *)
LEMMA SeqSub == \A a, b \in Int : ((a % SeqMod) - (b % SeqMod)) % SeqMod = (a - b) % SeqMod
<1>. SUFFICES ASSUME NEW a \in Int, NEW b \in Int
              PROVE  ((a % SeqMod) - (b % SeqMod)) % SeqMod = (a - b) % SeqMod
  OBVIOUS
<1>. QED  BY ModSub, HalfFact

(* Adding to a wire number is adding to the position. *)
LEMMA SeqAdd == \A a, i \in Int : ((a % SeqMod) + i) % SeqMod = (a + i) % SeqMod
<1>. SUFFICES ASSUME NEW a \in Int, NEW i \in Int
              PROVE  ((a % SeqMod) + i) % SeqMod = (a + i) % SeqMod
  OBVIOUS
<1>. QED  BY ModAdd, HalfFact

(* A number below the modulus is its own remainder. *)
LEMMA SeqSmall == \A a \in 0 .. SeqMod - 1 : a % SeqMod = a
<1>. SUFFICES ASSUME NEW a \in 0 .. SeqMod - 1 PROVE a % SeqMod = a
  OBVIOUS
<1>. QED  BY HalfFact

(* A position just before the origin wraps to the top of the range. *)
LEMMA SeqNegative == \A a \in -SeqMod .. -1 : a % SeqMod = a + SeqMod
<1>. SUFFICES ASSUME NEW a \in -SeqMod .. -1 PROVE a % SeqMod = a + SeqMod
  OBVIOUS
<1>1. a \in Int /\ a + SeqMod \in 0 .. SeqMod - 1 /\ a = SeqMod * (-1) + (a + SeqMod)
  BY HalfFact
<1>. QED  BY <1>1, ModRemainder, HalfFact

(* Every remainder is a wire number. *)
LEMMA SeqRange == \A a \in Int : a % SeqMod \in 0 .. SeqMod - 1
BY HalfFact

(* The int32 delta of accept is the distance of the positions whenever     *)
(* they are less than half the sequence space apart.                       *)
LEMMA DeltaIsDistance ==
  ASSUME NEW f \in Nat, NEW p \in Nat, f - p < Half, p - f <= Half
  PROVE  Delta(Wire(f), p % SeqMod) = f - p
<1>1. (Wire(f) - (p % SeqMod)) % SeqMod = (f - p) % SeqMod
  <2>1. f \in Int /\ p \in Int  OBVIOUS
  <2>. QED  BY <2>1, SeqSub, Zenon DEF Wire
<1>2. CASE f - p >= 0
  <2>1. f - p \in 0 .. SeqMod - 1  BY <1>2, HalfFact
  <2>2. (f - p) % SeqMod = f - p  BY <2>1, SeqSmall, Zenon
  <2>. QED  BY <1>1, <2>2, <1>2, HalfFact DEF Delta
<1>3. CASE f - p < 0
  <2>1. f - p \in -SeqMod .. -1  BY <1>3, HalfFact
  <2>2. (f - p) % SeqMod = f - p + SeqMod  BY <2>1, SeqNegative, Zenon
  <2>3. f - p + SeqMod >= Half  BY HalfFact
  <2>. QED  BY <1>1, <2>2, <2>3, HalfFact DEF Delta
<1>. QED  BY <1>2, <1>3

(* A held frame sits in the slot of its own position, and its unsigned     *)
(* distance from the next number is its distance in positions.             *)
LEMMA WindowSlots ==
  ASSUME NEW held, NEW from, NEW pos, sent \in Nat, Window(held, from, pos)
  PROVE  /\ \A i \in 0 .. SeqMod - 1 :
              Slot(from, i) \in DOMAIN held => held[Slot(from, i)] = pos + i
         /\ \A k \in DOMAIN held : (k - from) % SeqMod = held[k] - pos
<1>. USE HalfFact
<1>1. ASSUME NEW k \in DOMAIN held
      PROVE  (k - from) % SeqMod = held[k] - pos
  <2>1. k = held[k] % SeqMod /\ from = pos % SeqMod /\ held[k] \in Nat /\ pos \in Nat
    BY <1>1 DEF Window, Wire
  <2>2. (k - from) % SeqMod = (held[k] - pos) % SeqMod
    <3>1. held[k] \in Int /\ pos \in Int  BY <2>1
    <3>. QED  BY <2>1, <3>1, SeqSub, Zenon
  <2>3. held[k] - pos \in 0 .. SeqMod - 1  BY <2>1, <1>1 DEF Window
  <2>4. (held[k] - pos) % SeqMod = held[k] - pos  BY <2>3, SeqSmall, Zenon
  <2>. QED  BY <2>2, <2>4
<1>2. ASSUME NEW i \in 0 .. SeqMod - 1, Slot(from, i) \in DOMAIN held
      PROVE  held[Slot(from, i)] = pos + i
  <2>. DEFINE k == Slot(from, i)
              f == held[k]
  <2>1. pos \in Nat /\ from = pos % SeqMod /\ f \in Nat /\ k = f % SeqMod
    BY <1>2 DEF Window, Wire
  <2>2. k = (pos + i) % SeqMod
    <3>1. pos \in Int /\ i \in Int  BY <2>1
    <3>. QED  BY <2>1, <3>1, SeqAdd, Zenon DEF Slot
  <2>3. pos <= f /\ f < sent /\ sent - pos <= Half  BY <1>2 DEF Window
  <2>. HIDE DEF k, f
  <2>4. f % SeqMod = (pos + i) % SeqMod  BY <2>1, <2>2
  <2>5. f - (pos + i) < SeqMod /\ (pos + i) - f < SeqMod  BY <2>1, <2>3
  <2>6. f = pos + i
    <3>1. CASE f - (pos + i) >= 0  BY <3>1, <2>1, <2>4, <2>5, ModUnique
    <3>2. CASE (pos + i) - f >= 0  BY <3>2, <2>1, <2>4, <2>5, ModUnique
    <3>. QED  BY <3>1, <3>2, <2>1
  <2>. QED  BY <2>6 DEF k, f
<1>. QED  BY <1>1, <1>2

(* The number of concealed or recovered frames of one flush is a natural   *)
(* number.                                                                 *)
LEMMA MissingFinite ==
  ASSUME NEW held, NEW from, NEW n \in Nat
  PROVE  /\ Cardinality(Missing(held, from, n)) \in Nat
         /\ \A fec \in SUBSET FECCandidates(held, from, n) : Cardinality(fec) \in Nat
<1>1. IsFiniteSet(0 .. n - 1)  BY FS_Interval
<1>2. IsFiniteSet(Missing(held, from, n))
  BY <1>1, FS_Subset DEF Missing
<1>3. \A fec \in SUBSET FECCandidates(held, from, n) : IsFiniteSet(fec)
  BY <1>2, FS_Subset DEF FECCandidates
<1>. QED  BY <1>2, <1>3, FS_CardinalityType

-----------------------------------------------------------------------------
(* The variables a flush writes, apart from the window and its position. *)
OutputType ==
  /\ played \subseteq Nat \X Nat /\ concealed \subseteq Nat
  /\ lossPackets \in Nat /\ fecRecoveredFrames \in Nat /\ maxBurstLoss \in Nat
  /\ sinceFlush \in 0 .. Hold

(* flush keeps the window's meaning, hands over every held frame at its    *)
(* own position, and holds nothing it did not hold before.                 *)
LEMMA FlushStep ==
  ASSUME NEW held, NEW from, NEW pos, NEW force \in BOOLEAN, NEW emitted \in SUBSET (Nat \X Nat),
         sent \in Nat, OutputType, PlayedInPlace, Window(held, from, pos),
         \A p \in emitted : p[1] = p[2],
         flush(held, from, pos, force, emitted)
  PROVE  /\ Window(future', nextSeq', nextPos')
         /\ nextPos' >= pos
         /\ DOMAIN future' \subseteq DOMAIN held
         /\ \A k \in DOMAIN future' : future'[k] = held[k]
         /\ OutputType' /\ PlayedInPlace'
<1>. USE HalfFact
<1>1. PICK n \in 0 .. SeqMod :
        /\ flushCovers(held, from, force, n)
        /\ nextSeq' = Slot(from, n)
        /\ nextPos' = pos + n
        /\ future' = [k \in {j \in DOMAIN held : (j - from) % SeqMod >= n} |-> held[k]]
        /\ played' = played \cup emitted
             \cup {<<pos + i, held[Slot(from, i)]>> : i \in (0 .. n - 1) \ Missing(held, from, n)}
        /\ concealed' = concealed \cup {pos + i : i \in Missing(held, from, n)}
        /\ lossPackets' = lossPackets + Cardinality(Missing(held, from, n))
        /\ \E fec \in SUBSET FECCandidates(held, from, n) :
             fecRecoveredFrames' = fecRecoveredFrames + Cardinality(fec)
        /\ \E b \in 0 .. n :
             /\ LongestBurst(Missing(held, from, n), n, b)
             /\ maxBurstLoss' = IF b > maxBurstLoss THEN b ELSE maxBurstLoss
        /\ sinceFlush' = 0
  BY DEF flush
<1>2. /\ pos \in Nat /\ pos <= sent /\ sent - pos <= Half /\ from = pos % SeqMod
      /\ DOMAIN held \subseteq 0 .. SeqMod - 1
      /\ \A k \in DOMAIN held :
            held[k] \in Nat /\ Wire(held[k]) = k /\ pos <= held[k] /\ held[k] < sent
  BY DEF Window
<1>3. /\ \A i \in 0 .. SeqMod - 1 :
           Slot(from, i) \in DOMAIN held => held[Slot(from, i)] = pos + i
      /\ \A k \in DOMAIN held : (k - from) % SeqMod = held[k] - pos
  BY WindowSlots
<1>4. n = 0 \/ Slot(from, n - 1) \in DOMAIN held
  BY <1>1 DEF flushCovers
<1>5. pos + n <= sent
  <2>1. CASE n = 0  BY <2>1, <1>2
  <2>2. CASE n # 0
    <3>1. n - 1 \in 0 .. SeqMod - 1 /\ Slot(from, n - 1) \in DOMAIN held  BY <2>2, <1>4
    <3>2. held[Slot(from, n - 1)] = pos + (n - 1)  BY <3>1, <1>3
    <3>. QED  BY <3>1, <3>2, <1>2
  <2>. QED  BY <2>1, <2>2
<1>6. nextSeq' = (pos + n) % SeqMod
  <2>1. pos \in Int /\ n \in Int  BY <1>2
  <2>. QED  BY <2>1, <1>1, <1>2, SeqAdd, Zenon DEF Slot
<1>7. /\ DOMAIN future' \subseteq DOMAIN held
      /\ \A k \in DOMAIN future' : future'[k] = held[k] /\ (k - from) % SeqMod >= n
  BY <1>1
<1>8. \A k \in DOMAIN future' : pos + n <= future'[k]
  <2>. TAKE k \in DOMAIN future'
  <2>1. held[k] - pos >= n /\ future'[k] = held[k] /\ held[k] \in Nat  BY <1>7, <1>3, <1>2
  <2>. QED  BY <2>1, <1>2
<1>9. Window(future', nextSeq', nextPos')
  <2>1. future' \in [DOMAIN future' -> Nat]  BY <1>1, <1>2
  <2>2. \A k \in DOMAIN future' :
          Wire(future'[k]) = k /\ nextPos' <= future'[k] /\ future'[k] < sent
    BY <1>1, <1>2, <1>7, <1>8
  <2>3. nextPos' \in Nat /\ nextPos' <= sent /\ sent - nextPos' <= Half  BY <1>1, <1>2, <1>5
  <2>. QED  BY <2>1, <2>2, <2>3, <1>1, <1>2, <1>6, <1>7 DEF Window
<1>10. \A i \in (0 .. n - 1) \ Missing(held, from, n) :
          held[Slot(from, i)] = pos + i /\ pos + i \in Nat
  BY <1>2, <1>3 DEF Missing
<1>11. PlayedInPlace' /\ played' \subseteq Nat \X Nat
  BY <1>1, <1>10 DEF PlayedInPlace, OutputType
<1>12. OutputType'
  <2>1. concealed' \subseteq Nat
    <3>1. \A i \in Missing(held, from, n) : pos + i \in Nat  BY <1>2 DEF Missing
    <3>2. concealed' = concealed \cup {pos + i : i \in Missing(held, from, n)}  BY <1>1
    <3>. QED  BY <3>1, <3>2 DEF OutputType
  <2>2. lossPackets' \in Nat  BY <1>1, MissingFinite DEF OutputType
  <2>3. fecRecoveredFrames' \in Nat  BY <1>1, MissingFinite DEF OutputType
  <2>4. maxBurstLoss' \in Nat /\ sinceFlush' \in 0 .. Hold
    BY <1>1, ConstantsAssumption DEF OutputType
  <2>. QED  BY <1>11, <2>1, <2>2, <2>3, <2>4 DEF OutputType
<1>. QED  BY <1>1, <1>2, <1>7, <1>9, <1>11, <1>12

(* The same for the flush of accept, which may return early. *)
LEMMA FlushUnforcedStep ==
  ASSUME NEW held, NEW from, NEW pos, NEW emitted \in SUBSET (Nat \X Nat),
         sent \in Nat, OutputType, PlayedInPlace, Window(held, from, pos),
         \A p \in emitted : p[1] = p[2],
         flushUnforced(held, from, pos, emitted)
  PROVE  /\ Window(future', nextSeq', nextPos')
         /\ nextPos' >= pos
         /\ DOMAIN future' \subseteq DOMAIN held
         /\ \A k \in DOMAIN future' : future'[k] = held[k]
         /\ OutputType' /\ PlayedInPlace'
<1>1. CASE flushTooEarly(held, from, pos, emitted)
  <2>1. future' = held /\ nextSeq' = from /\ nextPos' = pos  BY <1>1 DEF flushTooEarly
  <2>2. Window(future', nextSeq', nextPos')  BY <2>1
  <2>3. nextPos' >= pos  BY <2>1 DEF Window
  <2>4. OutputType' /\ PlayedInPlace'
    BY <1>1 DEF flushTooEarly, OutputType, PlayedInPlace
  <2>. QED  BY <2>1, <2>2, <2>3, <2>4
<1>2. CASE flush(held, from, pos, FALSE, emitted)
  BY <1>2, FlushStep
<1>. QED  BY <1>1, <1>2 DEF flushUnforced

-----------------------------------------------------------------------------
(* The first instance of the invariant. *)
LEMMA InitIInv == MediaInit => IInv
<1>. SUFFICES ASSUME MediaInit PROVE IInv  OBVIOUS
<1>. USE ConstantsAssumption, HalfFact
<1>1. MediaTypes
  <2>1. future \in [Held -> Nat] /\ Held \subseteq 0 .. SeqMod - 1  BY DEF MediaInit, Held
  <2>2. seen \in BOOLEAN /\ sinceTick \in BOOLEAN  BY Zenon DEF MediaInit
  <2>3. nextSeq \in 0 .. SeqMod - 1 /\ sinceFlush \in 0 .. Hold /\ gapAge \in 0 .. Hold
    BY DEF MediaInit
  <2>. QED  BY <2>1, <2>2, <2>3 DEF MediaInit, MediaTypes
<1>2. Held = {} /\ inFlight = {} /\ played = {}  BY DEF MediaInit, Held
<1>3. nextPos <= sent /\ sent - nextPos <= Half  BY DEF MediaInit
<1>. QED  BY <1>1, <1>2, <1>3 DEF MediaInit, IInv, NetSpread, NoCopies, PlayedInPlace

(* The types of the variables accept and tick write only indirectly. *)
LEMMA TypeParts == MediaTypes <=>
  /\ OutputType
  /\ sent \in Nat /\ inFlight \subseteq Nat
  /\ seen \in BOOLEAN /\ nextSeq \in 0 .. SeqMod - 1
  /\ Held \subseteq 0 .. SeqMod - 1 /\ future \in [Held -> Nat]
  /\ sinceTick \in BOOLEAN /\ gapAge \in 0 .. Hold
  /\ nextPos \in Nat /\ start \in Nat /\ accepted \subseteq Nat
  /\ packetsSeen \in Nat /\ latePackets \in Nat /\ reorderedPackets \in Nat
BY DEF MediaTypes, OutputType

(* Window gives the types of the fields it relates. *)
LEMMA WindowTypes ==
  ASSUME NEW held, NEW from, NEW pos, sent \in Nat, Window(held, from, pos)
  PROVE  /\ pos \in Nat /\ pos <= sent /\ sent - pos <= Half
         /\ from \in 0 .. SeqMod - 1
         /\ DOMAIN held \subseteq 0 .. SeqMod - 1 /\ held \in [DOMAIN held -> Nat]
BY SeqRange DEF Window

(* What IInv says of the receiver in terms of the arguments of a branch:   *)
(* the frame f lies within half the sequence space of the next position.   *)
LEMMA DeliveredFrame ==
  ASSUME IInv, NEW f \in inFlight
  PROVE  /\ f \in Nat /\ f < sent /\ sent - f <= Half
         /\ sent \in Nat /\ nextPos \in Nat
         /\ seen => Delta(Wire(f), nextSeq) = f - nextPos
<1>1. /\ f \in Nat /\ f < sent /\ sent - f <= Half /\ sent \in Nat /\ nextPos \in Nat
      /\ nextPos <= sent /\ sent - nextPos <= Half
  BY DEF IInv, MediaTypes, NetSpread
<1>2. f - nextPos < Half /\ nextPos - f <= Half  BY <1>1, HalfFact
<1>3. Delta(Wire(f), nextPos % SeqMod) = f - nextPos  BY <1>1, <1>2, DeltaIsDistance
<1>4. seen => nextSeq = nextPos % SeqMod  BY DEF IInv, Window
<1>. QED  BY <1>1, <1>3, <1>4

(* Behind the expected frame the window means the same, one position on. *)
LEMMA WindowBehindNext ==
  ASSUME IInv, NEW f \in inFlight, seen, Delta(Wire(f), nextSeq) = 0
  PROVE  /\ f = nextPos /\ f \in Nat /\ nextPos \in Nat /\ sent \in Nat
         /\ Window(future, (Wire(f) + 1) % SeqMod, nextPos + 1)
<1>. USE HalfFact
<1>1. f \in Nat /\ f < sent /\ sent \in Nat /\ nextPos \in Nat /\ f = nextPos
  BY DeliveredFrame
<1>2. Window(future, nextSeq, nextPos)  BY DEF IInv
<1>3. (Wire(f) + 1) % SeqMod = (nextPos + 1) % SeqMod
  <2>1. f \in Int /\ 1 \in Int  BY <1>1
  <2>. QED  BY <2>1, <1>1, SeqAdd, Zenon DEF Wire
<1>4. \A k \in DOMAIN future : future[k] # f  BY DEF IInv, NoCopies, Held
<1>5. \A k \in DOMAIN future : nextPos + 1 <= future[k]
  BY <1>1, <1>2, <1>4 DEF Window
<1>6. nextPos + 1 \in Nat /\ nextPos + 1 <= sent /\ sent - (nextPos + 1) <= Half
  BY <1>1, <1>2 DEF Window
<1>7. /\ DOMAIN future \subseteq 0 .. SeqMod - 1 /\ future \in [DOMAIN future -> Nat]
      /\ \A k \in DOMAIN future : Wire(future[k]) = k /\ future[k] < sent
  BY <1>2 DEF Window
<1>8. Window(future, (Wire(f) + 1) % SeqMod, nextPos + 1)
  BY <1>3, <1>5, <1>6, <1>7, Zenon DEF Window
<1>. QED  BY <1>1, <1>8

(* The window with an early frame stored under its own number. *)
WithEarly(f) == [k \in Held \cup {Wire(f)} |-> IF k = Wire(f) THEN f ELSE future[k]]

(* Storing an early frame keeps the window's meaning and displaces nothing. *)
LEMMA WindowWithEarly ==
  ASSUME IInv, NEW f \in inFlight, seen, Delta(Wire(f), nextSeq) > 0
  PROVE  /\ f \in Nat /\ nextPos < f
         /\ Window(WithEarly(f), nextSeq, nextPos)
         /\ {WithEarly(f)[k] : k \in DOMAIN WithEarly(f)} = HeldFrames \cup {f}
<1>. USE HalfFact
<1>1. f \in Nat /\ f < sent /\ sent - f <= Half /\ sent \in Nat /\ nextPos \in Nat /\ f > nextPos
  BY DeliveredFrame
<1>2. Window(future, nextSeq, nextPos)  BY DEF IInv
<1>3. Wire(f) \in 0 .. SeqMod - 1
  <2>1. f \in Int  BY <1>1
  <2>. QED  BY <2>1, SeqRange DEF Wire
<1>4. Wire(f) \in Held => future[Wire(f)] = f
  <2>1. \A i \in 0 .. SeqMod - 1 :
          Slot(nextSeq, i) \in DOMAIN future => future[Slot(nextSeq, i)] = nextPos + i
    BY <1>1, <1>2, WindowSlots
  <2>2. f - nextPos \in 0 .. SeqMod - 1  BY <1>1, <1>2 DEF Window
  <2>3. Slot(nextSeq, f - nextPos) = Wire(f)
    <3>1. nextSeq = nextPos % SeqMod /\ nextPos \in Int /\ f - nextPos \in Int
      BY <1>1, <1>2 DEF Window
    <3>2. Slot(nextSeq, f - nextPos) = (nextPos + (f - nextPos)) % SeqMod
      BY <3>1, SeqAdd, Zenon DEF Slot
    <3>3. nextPos + (f - nextPos) = f  BY <1>1
    <3>. QED  BY <3>2, <3>3 DEF Wire
  <2>. QED  BY <1>1, <2>1, <2>2, <2>3 DEF Held
<1>. DEFINE h == WithEarly(f)
<1>5. /\ DOMAIN h = Held \cup {Wire(f)}
      /\ \A k \in Held : h[k] = future[k]
      /\ h[Wire(f)] = f
  BY <1>4 DEF WithEarly
<1>. HIDE DEF h
<1>6. Window(h, nextSeq, nextPos)
  <2>1. /\ DOMAIN h \subseteq 0 .. SeqMod - 1
        /\ \A k \in DOMAIN h : h[k] \in Nat /\ Wire(h[k]) = k /\ nextPos <= h[k] /\ h[k] < sent
    BY <1>1, <1>2, <1>3, <1>5 DEF Window, Held
  <2>2. h \in [DOMAIN h -> Nat]  BY <2>1 DEF h, WithEarly
  <2>. QED  BY <1>2, <2>1, <2>2 DEF Window
<1>7. {h[k] : k \in DOMAIN h} = HeldFrames \cup {f}  BY <1>5 DEF HeldFrames
<1>. QED  BY <1>1, <1>6, <1>7 DEF h

(* Each branch of accept re-establishes the window, keeps the output in    *)
(* place and holds no frame that is still in flight.                       *)
Accepted(f) ==
  /\ seen' = TRUE
  /\ Window(future', nextSeq', nextPos')
  /\ OutputType' /\ PlayedInPlace'
  /\ \A k \in DOMAIN future' : future'[k] \notin inFlight \ {f}

(* The first datagram sets nextSeq to its own number plus one. *)
LEMMA AcceptFirstStep ==
  ASSUME IInv, NEW f \in inFlight, acceptFirst(f)
  PROVE  Accepted(f)
<1>. USE HalfFact
<1>1. f \in Nat /\ f < sent /\ sent - f <= Half /\ sent \in Nat  BY DeliveredFrame
<1>2. future' = future /\ DOMAIN future = {}  BY DEF acceptFirst, IInv, Held
<1>3. nextSeq' = (f + 1) % SeqMod
  <2>1. f \in Int /\ 1 \in Int  BY <1>1
  <2>. QED  BY <2>1, SeqAdd, Zenon DEF acceptFirst, Wire
<1>4. Window(future', nextSeq', nextPos')
  <2>1. nextPos' = f + 1  BY DEF acceptFirst
  <2>2. future' \in [DOMAIN future' -> Nat]  BY <1>2 DEF IInv, MediaTypes, Held
  <2>. QED  BY <1>1, <1>2, <1>3, <2>1, <2>2 DEF Window
<1>5. OutputType' /\ PlayedInPlace'
  <2>1. /\ played' = played \cup {<<f, f>>} /\ concealed' = concealed
        /\ lossPackets' = lossPackets /\ fecRecoveredFrames' = fecRecoveredFrames
        /\ maxBurstLoss' = maxBurstLoss /\ sinceFlush' = 0
    BY DEF acceptFirst
  <2>2. OutputType /\ PlayedInPlace  BY TypeParts DEF IInv
  <2>. QED  BY <1>1, <2>1, <2>2, ConstantsAssumption DEF OutputType, PlayedInPlace
<1>6. seen' = TRUE  BY DEF acceptFirst
<1>. QED  BY <1>2, <1>4, <1>5, <1>6 DEF Accepted

(* A late datagram changes counters only. *)
LEMMA AcceptLateStep ==
  ASSUME IInv, NEW f \in inFlight, acceptLate(f)
  PROVE  Accepted(f)
<1>1. /\ seen = TRUE /\ seen' = seen /\ future' = future /\ nextSeq' = nextSeq /\ nextPos' = nextPos
      /\ played' = played /\ concealed' = concealed /\ lossPackets' = lossPackets
      /\ fecRecoveredFrames' = fecRecoveredFrames /\ maxBurstLoss' = maxBurstLoss
      /\ sinceFlush' = sinceFlush
  BY DEF acceptLate, histVars, IInv, MediaTypes
<1>2. OutputType /\ PlayedInPlace  BY TypeParts DEF IInv
<1>3. OutputType' /\ PlayedInPlace'  BY <1>1, <1>2 DEF OutputType, PlayedInPlace
<1>4. Window(future', nextSeq', nextPos')  BY <1>1 DEF IInv
<1>5. \A k \in DOMAIN future' : future'[k] \notin inFlight \ {f}  BY <1>1 DEF IInv, NoCopies, Held
<1>. QED  BY <1>1, <1>3, <1>4, <1>5 DEF Accepted

(* The expected datagram is played and the window is flushed behind it. *)
LEMMA AcceptNextStep ==
  ASSUME IInv, NEW f \in inFlight, acceptNext(f)
  PROVE  Accepted(f)
<1>. USE HalfFact
<1>1. seen /\ Delta(Wire(f), nextSeq) = 0
      /\ flushUnforced(future, (Wire(f) + 1) % SeqMod, nextPos + 1, {<<nextPos, f>>})
      /\ seen' = seen
  BY DEF acceptNext
<1>2. f \in Nat /\ f < sent /\ sent \in Nat /\ nextPos \in Nat /\ f = nextPos
  BY <1>1, DeliveredFrame
<1>3. Window(future, nextSeq, nextPos)  BY <1>1 DEF IInv
<1>4. Window(future, (Wire(f) + 1) % SeqMod, nextPos + 1)  BY <1>1, WindowBehindNext
<1>5. OutputType /\ PlayedInPlace  BY TypeParts DEF IInv
<1>6. /\ Window(future', nextSeq', nextPos')
      /\ DOMAIN future' \subseteq DOMAIN future
      /\ \A k \in DOMAIN future' : future'[k] = future[k]
      /\ OutputType' /\ PlayedInPlace'
  <2>1. {<<nextPos, f>>} \in SUBSET (Nat \X Nat) /\ \A p \in {<<nextPos, f>>} : p[1] = p[2]
    BY <1>2
  <2>. QED  BY <1>1, <1>2, <1>4, <1>5, <2>1, FlushUnforcedStep
<1>7. \A k \in DOMAIN future' : future'[k] \notin inFlight \ {f}
  BY <1>6 DEF IInv, NoCopies, Held
<1>8. seen' = TRUE  BY <1>1 DEF IInv, MediaTypes
<1>. QED  BY <1>6, <1>7, <1>8 DEF Accepted

(* An early datagram is held under its own number, or refused when full. *)
LEMMA AcceptFutureStep ==
  ASSUME IInv, NEW f \in inFlight, acceptFuture(f)
  PROVE  Accepted(f)
<1>1. PICK h \in {future, WithEarly(f)} :
        /\ flushUnforced(h, nextSeq, nextPos, {})
        /\ seen /\ Delta(Wire(f), nextSeq) > 0 /\ seen' = seen
  BY DEF acceptFuture, WithEarly
<1>2. sent \in Nat /\ OutputType /\ PlayedInPlace  BY TypeParts DEF IInv
<1>3. Window(h, nextSeq, nextPos) /\ \A k \in DOMAIN h : h[k] = f \/ h[k] \in HeldFrames
  <2>1. CASE h = future  BY <1>1, <2>1 DEF IInv, HeldFrames, Held
  <2>2. CASE h = WithEarly(f)  BY <1>1, <2>2, WindowWithEarly
  <2>. QED  BY <2>1, <2>2
<1>4. /\ Window(future', nextSeq', nextPos')
      /\ DOMAIN future' \subseteq DOMAIN h
      /\ \A k \in DOMAIN future' : future'[k] = h[k]
      /\ OutputType' /\ PlayedInPlace'
  <2>1. {} \in SUBSET (Nat \X Nat) /\ \A p \in {} : p[1] = p[2]
    OBVIOUS
  <2>. QED  BY <1>1, <1>2, <1>3, <2>1, FlushUnforcedStep
<1>5. \A k \in DOMAIN future' : future'[k] \notin inFlight \ {f}
  BY <1>3, <1>4 DEF IInv, NoCopies, HeldFrames
<1>6. seen' = TRUE  BY <1>1 DEF IInv, MediaTypes
<1>. QED  BY <1>4, <1>5, <1>6 DEF Accepted

(* Every step keeps IInv. *)
LEMMA NextIInv == IInv /\ [MediaNext]_mediaVars => IInv'
<1>. SUFFICES ASSUME IInv, [MediaNext]_mediaVars PROVE IInv'  OBVIOUS
<1>. USE HalfFact
<1>1. MediaTypes /\ OutputType /\ PlayedInPlace  BY TypeParts DEF IInv
<1>2. ASSUME SendMedia PROVE IInv'
  <2>1. /\ sent \in Nat /\ sent' = sent + 1 /\ inFlight' = inFlight \cup {sent} /\ nextPos' = nextPos
        /\ sent - nextPos < Half /\ \A f \in inFlight : sent - f < Half
        /\ nextPos \in Nat /\ inFlight \subseteq Nat /\ nextPos <= sent
    BY <1>2 DEF SendMedia, histVars, IInv, MediaTypes
  <2>2. /\ seen' = seen /\ future' = future /\ nextSeq' = nextSeq /\ played' = played
        /\ UNCHANGED <<timeVars, histVars, statVars>>
    BY <1>2 DEF SendMedia, histVars
  <2>3. MediaTypes'
    <3>1. sent' \in Nat /\ inFlight' \subseteq Nat  BY <2>1
    <3>. QED  BY <3>1, <2>2, <1>1 DEF MediaTypes, Held, timeVars, histVars, statVars
  <2>4. (nextPos <= sent /\ sent - nextPos <= Half)'  BY <2>1
  <2>5. (~seen => Held = {})'  BY <2>2 DEF IInv, Held
  <2>6. (seen => Window(future, nextSeq, nextPos))'
    <3>1. ASSUME seen PROVE Window(future, nextSeq, nextPos)'
      <4>1. Window(future, nextSeq, nextPos)  BY <3>1 DEF IInv
      <4>2. \A k \in DOMAIN future :
              Wire(future[k]) = k /\ nextPos <= future[k] /\ future[k] < sent'
        BY <4>1, <2>1 DEF Window
      <4>. QED  BY <4>1, <4>2, <2>1, <2>2, <2>4 DEF Window, Wire
    <3>. QED  BY <3>1, <2>2
  <2>7. NetSpread'  BY <2>1 DEF IInv, NetSpread
  <2>8. NoCopies'
    <3>1. \A k \in Held : future[k] # sent
      <4>1. CASE seen
        <5>1. \A k \in Held : future[k] \in Nat /\ future[k] < sent
          BY <4>1 DEF IInv, Window, Held
        <5>. QED  BY <5>1, <2>1
      <4>2. CASE ~seen  BY <4>2 DEF IInv
      <4>. QED  BY <4>1, <4>2
    <3>. QED  BY <3>1, <2>1, <2>2 DEF IInv, NoCopies, Held
  <2>9. PlayedInPlace'  BY <1>1, <2>2 DEF PlayedInPlace
  <2>. QED  BY <2>3, <2>4, <2>5, <2>6, <2>7, <2>8, <2>9 DEF IInv
<1>3. ASSUME NEW f \in inFlight, Lose(f) PROVE IInv'
  <2>1. /\ inFlight' = inFlight \ {f} /\ sent' = sent
        /\ seen' = seen /\ future' = future /\ nextSeq' = nextSeq /\ nextPos' = nextPos
        /\ played' = played /\ UNCHANGED <<timeVars, histVars, statVars>>
    BY <1>3 DEF Lose, histVars
  <2>2. MediaTypes'  BY <2>1, <1>1 DEF MediaTypes, Held, timeVars, histVars, statVars
  <2>. QED  BY <2>1, <2>2 DEF IInv, Window, NetSpread, NoCopies, PlayedInPlace, Held, Wire
<1>4. ASSUME NEW f \in inFlight, Deliver(f) PROVE IInv'
  <2>1. /\ inFlight' = inFlight \ {f} /\ sent' = sent /\ sinceTick' = sinceTick
        /\ packetsSeen' = packetsSeen + 1
        /\ acceptFirst(f) \/ acceptLate(f) \/ acceptNext(f) \/ acceptFuture(f)
    BY <1>4 DEF Deliver, accept
  <2>2. Accepted(f)
    BY <2>1, AcceptFirstStep, AcceptLateStep, AcceptNextStep, AcceptFutureStep
  <2>3. f \in Nat /\ sent \in Nat  BY DeliveredFrame
  <2>4. /\ start' \in Nat /\ accepted' \subseteq Nat /\ gapAge' \in 0 .. Hold
        /\ latePackets' \in Nat /\ reorderedPackets' \in Nat
    <3>1. CASE acceptFirst(f)  BY <3>1, <2>3, <1>1 DEF acceptFirst, MediaTypes
    <3>2. CASE acceptLate(f)  BY <3>2, <1>1 DEF acceptLate, MediaTypes, histVars
    <3>3. CASE acceptNext(f)  BY <3>3, <2>3, <1>1 DEF acceptNext, MediaTypes
    <3>4. CASE acceptFuture(f)
      <4>1. /\ start' = start /\ latePackets' = latePackets
            /\ reorderedPackets' = reorderedPackets + 1
            /\ gapAge' = 0 \/ gapAge' = gapAge
            /\ accepted' = accepted \cup {f} \/ accepted' = accepted
        BY <3>4 DEF acceptFuture
      <4>2. accepted' \subseteq Nat  BY <4>1, <2>3, <1>1 DEF MediaTypes
      <4>3. gapAge' \in 0 .. Hold  BY <4>1, <1>1, ConstantsAssumption DEF MediaTypes
      <4>. QED  BY <4>1, <4>2, <4>3, <1>1 DEF MediaTypes
    <3>. QED  BY <2>1, <3>1, <3>2, <3>3, <3>4
  <2>5. /\ Window(future', nextSeq', nextPos') /\ OutputType' /\ PlayedInPlace' /\ seen' = TRUE
        /\ \A k \in DOMAIN future' : future'[k] \notin inFlight'
    BY <2>1, <2>2 DEF Accepted
  <2>6. /\ nextPos' \in Nat /\ nextPos' <= sent' /\ sent' - nextPos' <= Half
        /\ nextSeq' \in 0 .. SeqMod - 1
        /\ DOMAIN future' \subseteq 0 .. SeqMod - 1 /\ future' \in [DOMAIN future' -> Nat]
    BY <2>1, <2>3, <2>5, WindowTypes
  <2>7. Window(future, nextSeq, nextPos)'  BY <2>1, <2>5 DEF Window, Wire
  <2>8. MediaTypes'
    <3>1. sent' \in Nat /\ inFlight' \subseteq Nat /\ packetsSeen' \in Nat
      BY <1>1, <2>1 DEF MediaTypes
    <3>2. seen' \in BOOLEAN /\ sinceTick' \in BOOLEAN  BY <1>1, <2>1, <2>5, Zenon DEF MediaTypes
    <3>. QED  BY <3>1, <3>2, <2>4, <2>5, <2>6 DEF MediaTypes, OutputType, Held
  <2>9. NetSpread'  BY <2>1 DEF IInv, NetSpread
  <2>10. NoCopies'  BY <2>5 DEF NoCopies, Held
  <2>. QED  BY <2>5, <2>6, <2>7, <2>8, <2>9, <2>10 DEF IInv
<1>5. ASSUME Elapse PROVE IInv'
  <2>1. /\ inFlight' = inFlight /\ sent' = sent
        /\ seen' = seen /\ future' = future /\ nextSeq' = nextSeq /\ nextPos' = nextPos
        /\ played' = played /\ UNCHANGED <<histVars, statVars>>
    BY <1>5 DEF Elapse, netVars, histVars
  <2>2. sinceTick' \in BOOLEAN  BY <1>5, Zenon DEF Elapse
  <2>3. sinceFlush' \in 0 .. Hold /\ gapAge' \in 0 .. Hold
    BY <1>5, <1>1, ConstantsAssumption DEF Elapse, MediaTypes
  <2>4. MediaTypes'  BY <2>1, <2>2, <2>3, <1>1 DEF MediaTypes, Held, histVars, statVars
  <2>. QED  BY <2>1, <2>4 DEF IInv, Window, NetSpread, NoCopies, PlayedInPlace, Held, Wire
<1>6. ASSUME tick PROVE IInv'
  <2>1. /\ inFlight' = inFlight /\ sent' = sent /\ seen' = seen /\ gapAge' = gapAge /\ start' = start
        /\ accepted' = accepted /\ packetsSeen' = packetsSeen /\ latePackets' = latePackets
        /\ reorderedPackets' = reorderedPackets /\ sent \in Nat
    BY <1>6, <1>1 DEF tick, netVars, MediaTypes
  <2>2. sinceTick' \in BOOLEAN  BY <1>6, Zenon DEF tick
  <2>3. CASE ~seen
    <3>1. /\ future' = future /\ nextSeq' = nextSeq /\ nextPos' = nextPos
          /\ played' = played /\ concealed' = concealed /\ lossPackets' = lossPackets
          /\ fecRecoveredFrames' = fecRecoveredFrames /\ maxBurstLoss' = maxBurstLoss
          /\ sinceFlush' = sinceFlush
      BY <1>6, <2>3 DEF tick
    <3>2. MediaTypes'  BY <2>1, <2>2, <3>1, <1>1 DEF MediaTypes, Held
    <3>. QED  BY <2>1, <3>1, <3>2 DEF IInv, Window, NetSpread, NoCopies, PlayedInPlace, Held, Wire
  <2>4. CASE seen
    <3>1. flush(future, nextSeq, nextPos, TRUE, {}) /\ Window(future, nextSeq, nextPos)
      BY <1>6, <2>4 DEF tick, IInv
    <3>2. /\ Window(future', nextSeq', nextPos') /\ OutputType' /\ PlayedInPlace'
          /\ DOMAIN future' \subseteq DOMAIN future
          /\ \A k \in DOMAIN future' : future'[k] = future[k]
      <4>1. {} \in SUBSET (Nat \X Nat) /\ TRUE \in BOOLEAN /\ \A p \in {} : p[1] = p[2]
        OBVIOUS
      <4>. QED  BY <4>1, <3>1, <2>1, <1>1, FlushStep
    <3>3. /\ nextPos' \in Nat /\ nextPos' <= sent' /\ sent' - nextPos' <= Half
          /\ nextSeq' \in 0 .. SeqMod - 1
          /\ DOMAIN future' \subseteq 0 .. SeqMod - 1 /\ future' \in [DOMAIN future' -> Nat]
      BY <2>1, <3>2, WindowTypes
    <3>4. Window(future, nextSeq, nextPos)'  BY <2>1, <3>2 DEF Window, Wire
    <3>5. MediaTypes'
      <4>1. seen' \in BOOLEAN  BY <1>1, <2>1 DEF MediaTypes
      <4>. QED  BY <4>1, <2>1, <2>2, <3>2, <3>3, <1>1 DEF MediaTypes, OutputType, Held
    <3>6. NetSpread' /\ NoCopies'  BY <2>1, <3>2 DEF IInv, NetSpread, NoCopies, Held
    <3>. QED  BY <2>1, <2>4, <3>2, <3>3, <3>4, <3>5, <3>6 DEF IInv
  <2>. QED  BY <2>3, <2>4
<1>7. ASSUME UNCHANGED mediaVars PROVE IInv'
  <2>1. /\ inFlight' = inFlight /\ sent' = sent
        /\ seen' = seen /\ future' = future /\ nextSeq' = nextSeq /\ nextPos' = nextPos
        /\ played' = played /\ UNCHANGED <<timeVars, histVars, statVars>>
    BY <1>7 DEF mediaVars, netVars, histVars
  <2>2. MediaTypes'  BY <2>1, <1>1 DEF MediaTypes, Held, timeVars, histVars, statVars
  <2>. QED  BY <2>1, <2>2 DEF IInv, Window, NetSpread, NoCopies, PlayedInPlace, Held, Wire
<1>. QED  BY <1>2, <1>3, <1>4, <1>5, <1>6, <1>7 DEF MediaNext

(* The invariant holds of every behaviour. *)
THEOREM IInvHolds == MediaSpec => []IInv
<1>1. MediaInit => IInv  BY InitIInv
<1>2. IInv /\ [MediaNext]_mediaVars => IInv'  BY NextIInv
<1>. QED  BY <1>1, <1>2, PTL DEF MediaSpec

(* Type correctness of the receiver's state: nextSeq and the keys of the   *)
(* window stay uint32 numbers through every wrap of accept and flush.      *)
THEOREM TypeCorrect == MediaSpec => []MediaTypes
<1>1. IInv => MediaTypes  BY DEF IInv
<1>. QED  BY <1>1, IInvHolds, PTL

(* accept and flush hand every frame over at its own position in the       *)
(* host's stream, whatever the network loses or reorders.                  *)
THEOREM FramesInPlace == MediaSpec => []PlayedInPlace
<1>1. IInv => PlayedInPlace  BY DEF IInv
<1>. QED  BY <1>1, IInvHolds, PTL

(* No held frame lies behind nextSeq, so the forced flush of tick conceals *)
(* fewer than half the sequence space and stops at the last held frame.    *)
THEOREM WindowAhead == MediaSpec => []HeldAhead
<1>1. IInv => HeldAhead
  <2>. SUFFICES ASSUME IInv, NEW k \in Held PROVE (k - nextSeq) % SeqMod < Half
    BY DEF HeldAhead
  <2>1. Window(future, nextSeq, nextPos) /\ sent \in Nat  BY DEF IInv, MediaTypes
  <2>2. (k - nextSeq) % SeqMod = future[k] - nextPos  BY <2>1, WindowSlots DEF Held
  <2>. QED  BY <2>1, <2>2, HalfFact DEF Window, Held
<1>. QED  BY <1>1, IInvHolds, PTL

-----------------------------------------------------------------------------
(***************************************************************************)
(* What becomes of an accepted frame, and what the statistics count.       *)
(*                                                                         *)
(* Neither AcceptedNotConcealed nor StatsMatchOutput is inductive.  What   *)
(* was handed over lies behind nextPos, so that a flush adds to it and     *)
(* never meets it; and the position just behind nextPos was not concealed, *)
(* so that a run of concealed frames never goes on from one flush to the   *)
(* next and burstLoss may start again at zero.                             *)
(***************************************************************************)
PlayedBehind == \A p \in played : p[2] < nextPos
LostBehind   == \A q \in concealed : q + 1 < nextPos
NothingYet   == ~seen => played = {} /\ concealed = {}

(* Every part but NothingYet is re-established by a flush. *)
Account ==
  /\ AcceptedNotConcealed /\ StatsMatchOutput
  /\ IsFiniteSet(concealed)
  /\ PlayedBehind /\ LostBehind

AccountInv == Account /\ NothingYet

(* The positions of some offsets are as many as the offsets. *)
LEMMA ShiftedCardinality ==
  ASSUME NEW S, S \subseteq Int, IsFiniteSet(S), NEW pos \in Int
  PROVE  IsFiniteSet({pos + i : i \in S}) /\ Cardinality({pos + i : i \in S}) = Cardinality(S)
<1>. DEFINE T == {pos + i : i \in S}
            g == [i \in S |-> pos + i]
<1>1. g \in Bijection(S, T)
  <2>1. g \in [S -> T]  OBVIOUS
  <2>2. DOMAIN g = S /\ \A x, y \in S : g[x] = g[y] => x = y  OBVIOUS
  <2>3. \A t \in T : \E x \in S : g[x] = t  OBVIOUS
  <2>. HIDE DEF g, T
  <2>. QED  BY <2>1, <2>2, <2>3 DEF Bijection, Injection, IsInjective, Surjection
<1>2. ExistsBijection(S, T)  BY <1>1 DEF ExistsBijection
<1>. QED  BY <1>2, FS_Bijection

(* Sets of which one lies above the other add up. *)
LEMMA AboveCardinality ==
  ASSUME NEW S, NEW T, S \subseteq Int, T \subseteq Int, IsFiniteSet(S), IsFiniteSet(T),
         \A x \in S, y \in T : x < y
  PROVE  IsFiniteSet(S \cup T) /\ Cardinality(S \cup T) = Cardinality(S) + Cardinality(T)
<1>1. S \cap T = {}
  <2>. SUFFICES ASSUME NEW x \in S, x \in T PROVE FALSE  OBVIOUS
  <2>1. x < x /\ x \in Int  OBVIOUS
  <2>. QED  BY <2>1
<1>2. Cardinality(S) \in Nat /\ Cardinality(T) \in Nat  BY FS_CardinalityType
<1>3. /\ IsFiniteSet(S \cup T)
      /\ Cardinality(S \cup T) = Cardinality(S) + Cardinality(T) - Cardinality(S \cap T)
  BY FS_Union
<1>4. Cardinality(S \cap T) = 0  BY <1>1, FS_EmptySet
<1>. QED  BY <1>2, <1>3, <1>4

(* m is the length of the longest run of l. *)
Longest(l, m) ==
  /\ m = 0 \/ \E p \in l : p .. p + m - 1 \subseteq l
  /\ \A p \in l : ~(p .. p + m \subseteq l)

(* A run of the newly concealed positions does not touch an older one, so  *)
(* the longest run is the longer of the two.                               *)
LEMMA LongestOfBoth ==
  ASSUME NEW l \in SUBSET Nat, NEW m \in Nat, Longest(l, m),
         NEW pos \in Nat, \A q \in l : q + 1 < pos,
         NEW n \in Nat, NEW miss \in SUBSET (0 .. n - 1),
         NEW b \in 0 .. n, LongestBurst(miss, n, b)
  PROVE  Longest(l \cup {pos + i : i \in miss}, IF b > m THEN b ELSE m)
<1>. DEFINE new == {pos + i : i \in miss}
            all == l \cup new
            mm  == IF b > m THEN b ELSE m
<1>1. \A x \in new : x \in Nat /\ x >= pos /\ x - pos \in miss  OBVIOUS
<1>2. mm \in Nat /\ m <= mm /\ b <= mm  OBVIOUS
<1>3. mm = 0 \/ \E p \in all : p .. p + mm - 1 \subseteq all
  <2>1. CASE b > m
    <3>1. PICK i \in 0 .. n : i .. i + b - 1 \subseteq miss  BY DEF LongestBurst
    <3>2. b \in Nat /\ b > 0 /\ i \in Nat /\ i \in i .. i + b - 1  BY <2>1
    <3>3. pos + i \in all  BY <3>1, <3>2
    <3>4. ASSUME NEW x \in pos + i .. (pos + i) + b - 1 PROVE x \in all
      <4>1. x - pos \in i .. i + b - 1 /\ x = pos + (x - pos)  BY <3>2
      <4>. QED  BY <3>1, <4>1
    <3>5. mm = b  BY <2>1
    <3>. QED  BY <3>3, <3>4, <3>5
  <2>2. CASE ~(b > m)
    <3>1. mm = m  BY <2>2
    <3>2. m = 0 \/ \E p \in l : p .. p + m - 1 \subseteq l  BY DEF Longest
    <3>. QED  BY <3>1, <3>2
  <2>. QED  BY <2>1, <2>2
<1>4. ASSUME NEW p \in all, p .. p + mm \subseteq all PROVE FALSE
  <2>1. CASE p \in l
    <3>1. p \in Nat /\ p + 1 < pos /\ ~(p .. p + m \subseteq l)  BY <2>1 DEF Longest
    <3>2. pos - 1 \notin all  BY <1>1
    <3>. HIDE DEF mm, all, new
    <3>3. p + mm < pos - 1
      <4>. SUFFICES ASSUME p + mm >= pos - 1 PROVE FALSE  BY <1>2, <3>1
      <4>1. pos - 1 \in p .. p + mm  BY <1>2, <3>1
      <4>. QED  BY <1>4, <3>2, <4>1
    <3>4. ASSUME NEW x \in p .. p + m PROVE x \in l
      <4>1. x \in p .. p + mm /\ x < pos  BY <1>2, <3>1, <3>3
      <4>2. x \in all /\ x \notin new  BY <1>1, <1>4, <4>1
      <4>. QED  BY <4>2 DEF all
    <3>. QED  BY <3>1, <3>4
  <2>2. CASE p \in new
    <3>1. p \in Nat /\ p >= pos /\ p - pos \in miss /\ p - pos \in 0 .. n  BY <1>1, <2>2
    <3>. HIDE DEF mm, all, new
    <3>2. ASSUME NEW i \in p - pos .. (p - pos) + b PROVE i \in miss
      <4>1. pos + i \in p .. p + mm /\ pos + i >= pos /\ i \in Int  BY <1>2, <3>1
      <4>2. pos + i \in all /\ pos + i \notin l
        <5>1. pos + i \in all  BY <1>4, <4>1
        <5>2. pos + i \in l => FALSE  BY <4>1
        <5>. QED  BY <5>1, <5>2
      <4>3. (pos + i) - pos \in miss  BY <1>1, <4>2 DEF all
      <4>. QED  BY <4>1, <4>3
    <3>. QED  BY <3>1, <3>2 DEF LongestBurst
  <2>. QED  BY <2>1, <2>2
<1>. HIDE DEF mm, all
<1>5. Longest(all, mm)  BY <1>3, <1>4 DEF Longest
<1>. QED  BY <1>5 DEF mm, all

(* A flush accounts for the window it is given: what it held is handed     *)
(* over or still held, and what it conceals was not held.                  *)
LEMMA FlushAccounts ==
  ASSUME NEW held, NEW from, NEW pos, NEW force \in BOOLEAN, NEW emitted \in SUBSET (Nat \X Nat),
         sent \in Nat, OutputType, Window(held, from, pos),
         StatsMatchOutput, IsFiniteSet(concealed), \A q \in concealed : q + 1 < pos,
         \A p \in played \cup emitted : p[2] < pos,
         accepted' = {p[2] : p \in played \cup emitted} \cup {held[k] : k \in DOMAIN held},
         concealed \cap accepted' = {},
         flush(held, from, pos, force, emitted)
  PROVE  Account'
<1>. USE HalfFact
<1>. DEFINE held2(n) == {j \in DOMAIN held : (j - from) % SeqMod >= n}
            fresh(n) == {<<pos + i, held[Slot(from, i)]>> : i \in (0 .. n - 1) \ Missing(held, from, n)}
<1>1. PICK n \in 0 .. SeqMod :
        /\ flushCovers(held, from, force, n)
        /\ nextPos' = pos + n
        /\ future' = [k \in held2(n) |-> held[k]]
        /\ played' = played \cup emitted \cup fresh(n)
        /\ concealed' = concealed \cup {pos + i : i \in Missing(held, from, n)}
        /\ lossPackets' = lossPackets + Cardinality(Missing(held, from, n))
        /\ \E fec \in SUBSET FECCandidates(held, from, n) :
             fecRecoveredFrames' = fecRecoveredFrames + Cardinality(fec)
        /\ \E b \in 0 .. n :
             /\ LongestBurst(Missing(held, from, n), n, b)
             /\ maxBurstLoss' = IF b > maxBurstLoss THEN b ELSE maxBurstLoss
  BY DEF flush
<1>. DEFINE miss == Missing(held, from, n)
            new  == {pos + i : i \in miss}
<1>2. /\ pos \in Nat /\ from = pos % SeqMod /\ n \in Nat
      /\ DOMAIN held \subseteq 0 .. SeqMod - 1
      /\ \A k \in DOMAIN held : held[k] \in Nat /\ Wire(held[k]) = k /\ pos <= held[k]
  BY DEF Window
<1>3. /\ \A i \in 0 .. SeqMod - 1 :
           Slot(from, i) \in DOMAIN held => held[Slot(from, i)] = pos + i
      /\ \A k \in DOMAIN held : (k - from) % SeqMod = held[k] - pos
  BY WindowSlots
<1>4. \A i \in Int : Slot(from, i) = (pos + i) % SeqMod
  <2>. TAKE i \in Int
  <2>1. pos \in Int /\ from = pos % SeqMod  BY <1>2
  <2>. QED  BY <2>1, SeqAdd, Zenon DEF Slot
<1>5. \A k \in DOMAIN held : Slot(from, held[k] - pos) = k
  <2>. TAKE k \in DOMAIN held
  <2>1. held[k] - pos \in Int /\ pos + (held[k] - pos) = held[k] /\ Wire(held[k]) = k  BY <1>2
  <2>. QED  BY <2>1, <1>4 DEF Wire
<1>6. miss \subseteq 0 .. n - 1 /\ \A i \in miss : i + 1 < n /\ i \in Nat
  <2>1. n = 0 \/ Slot(from, n - 1) \in DOMAIN held  BY <1>1 DEF flushCovers
  <2>2. \A i \in miss : i \in 0 .. n - 1 /\ Slot(from, i) \notin DOMAIN held  BY DEF Missing
  <2>. HIDE DEF miss
  <2>. QED  BY <1>2, <2>1, <2>2
<1>7. IsFiniteSet(miss)
  <2>1. IsFiniteSet(0 .. n - 1)  BY <1>2, FS_Interval
  <2>. QED  BY <1>6, <2>1, FS_Subset
<1>8. \A q \in new : q \in Nat /\ pos <= q /\ q + 1 < nextPos'
  BY <1>1, <1>2, <1>6
<1>9. LostBehind'
  BY <1>1, <1>2, <1>8 DEF LostBehind, OutputType
<1>10. \A i \in (0 .. n - 1) \ miss : Slot(from, i) \in DOMAIN held /\ held[Slot(from, i)] = pos + i
  BY <1>2, <1>3 DEF Missing
<1>11. PlayedBehind'
  <2>1. ASSUME NEW p \in played \cup emitted PROVE p[2] < nextPos'
    <3>1. p[2] \in Nat /\ p[2] < pos  BY DEF OutputType
    <3>. QED  BY <1>1, <1>2, <3>1
  <2>2. ASSUME NEW p \in fresh(n) PROVE p[2] < nextPos'
    BY <1>1, <1>2, <1>10
  <2>. QED  BY <1>1, <2>1, <2>2 DEF PlayedBehind
<1>12. {p[2] : p \in played'} \cup HeldFrames' = accepted'
  <2>1. HeldFrames' = {held[k] : k \in held2(n)}  BY <1>1 DEF HeldFrames, Held
  <2>2. {p[2] : p \in fresh(n)} = {held[k] : k \in DOMAIN held \ held2(n)}
    <3>1. ASSUME NEW i \in (0 .. n - 1) \ miss
          PROVE  \E k \in DOMAIN held \ held2(n) : held[k] = held[Slot(from, i)]
      <4>1. Slot(from, i) \in DOMAIN held /\ held[Slot(from, i)] = pos + i  BY <1>10
      <4>2. (Slot(from, i) - from) % SeqMod = i  BY <1>2, <1>3, <4>1
      <4>. QED  BY <1>2, <4>1, <4>2
    <3>2. ASSUME NEW k \in DOMAIN held \ held2(n)
          PROVE  \E i \in (0 .. n - 1) \ miss : held[Slot(from, i)] = held[k]
      <4>1. held[k] - pos \in 0 .. n - 1  BY <1>2, <1>3
      <4>2. Slot(from, held[k] - pos) = k  BY <1>5
      <4>3. held[k] - pos \notin miss  BY <4>2 DEF Missing
      <4>. QED  BY <4>1, <4>2, <4>3
    <3>3. ASSUME NEW p \in fresh(n)
          PROVE  \E i \in (0 .. n - 1) \ miss : p[2] = held[Slot(from, i)]
      OBVIOUS
    <3>4. ASSUME NEW i \in (0 .. n - 1) \ miss
          PROVE  \E p \in fresh(n) : p[2] = held[Slot(from, i)]
      <4>1. <<pos + i, held[Slot(from, i)]>> \in fresh(n)  OBVIOUS
      <4>. HIDE DEF fresh
      <4>. QED  BY <4>1
    <3>. HIDE DEF miss, held2, fresh
    <3>5. \A p \in fresh(n) : \E k \in DOMAIN held \ held2(n) : p[2] = held[k]
      BY <3>1, <3>3
    <3>6. \A k \in DOMAIN held \ held2(n) : \E p \in fresh(n) : p[2] = held[k]
      BY <3>2, <3>4
    <3>. QED  BY <3>5, <3>6
  <2>3. {p[2] : p \in played'} = {p[2] : p \in played \cup emitted} \cup {p[2] : p \in fresh(n)}
    BY <1>1
  <2>. HIDE DEF held2, fresh
  <2>4. held2(n) \subseteq DOMAIN held  BY DEF held2
  <2>. QED  BY <2>1, <2>2, <2>3, <2>4
<1>13. concealed' \cap accepted' = {}
  <2>1. ASSUME NEW q \in new, NEW k \in DOMAIN held, held[k] = q PROVE FALSE
    <3>1. PICK i \in miss : q = pos + i  OBVIOUS
    <3>2. held[k] - pos = i  BY <1>2, <1>6, <2>1, <3>1
    <3>3. Slot(from, i) = k  BY <1>5, <3>2
    <3>. QED  BY <3>3 DEF Missing
  <2>2. ASSUME NEW q \in new, NEW p \in played \cup emitted, p[2] = q PROVE FALSE
    <3>1. q < pos /\ pos <= q /\ q \in Nat  BY <1>8, <2>2
    <3>. QED  BY <1>2, <3>1
  <2>3. concealed' = concealed \cup new  BY <1>1
  <2>. HIDE DEF new
  <2>. QED  BY <2>1, <2>2, <2>3
<1>14. AcceptedNotConcealed'
  BY <1>12, <1>13 DEF AcceptedNotConcealed
<1>15. IsFiniteSet(concealed') /\ Cardinality(concealed') = Cardinality(concealed) + Cardinality(miss)
  <2>1. concealed \subseteq Int /\ new \subseteq Int /\ concealed' = concealed \cup new
    BY <1>1, <1>8 DEF OutputType
  <2>2. IsFiniteSet(new) /\ Cardinality(new) = Cardinality(miss)
    <3>1. miss \subseteq Int /\ pos \in Int  BY <1>2, <1>6
    <3>. QED  BY <1>7, <3>1, ShiftedCardinality
  <2>3. \A x \in concealed, y \in new : x < y
    <3>1. ASSUME NEW x \in concealed, NEW y \in new PROVE x < y
      <4>1. x \in Nat /\ x + 1 < pos /\ pos <= y /\ y \in Nat  BY <1>8 DEF OutputType
      <4>. QED  BY <1>2, <4>1
    <3>. QED  BY <3>1
  <2>. HIDE DEF new
  <2>. QED  BY <2>1, <2>2, <2>3, AboveCardinality
<1>16. lossPackets' = Cardinality(concealed')
  BY <1>1, <1>15 DEF StatsMatchOutput
<1>17. fecRecoveredFrames' <= lossPackets'
  <2>1. PICK fec \in SUBSET FECCandidates(held, from, n) :
          fecRecoveredFrames' = fecRecoveredFrames + Cardinality(fec)
    BY <1>1
  <2>2. fec \in SUBSET miss  BY DEF FECCandidates
  <2>3. IsFiniteSet(fec) /\ Cardinality(fec) <= Cardinality(miss)  BY <1>7, <2>2, FS_Subset
  <2>4. Cardinality(fec) \in Nat /\ Cardinality(miss) \in Nat  BY <1>7, <2>3, FS_CardinalityType
  <2>. QED  BY <1>1, <2>1, <2>3, <2>4 DEF StatsMatchOutput, OutputType
<1>18. Longest(concealed', maxBurstLoss')
  <2>1. PICK b \in 0 .. n :
          /\ LongestBurst(miss, n, b)
          /\ maxBurstLoss' = IF b > maxBurstLoss THEN b ELSE maxBurstLoss
    BY <1>1
  <2>2. Longest(concealed, maxBurstLoss) /\ concealed \in SUBSET Nat /\ maxBurstLoss \in Nat
    BY DEF StatsMatchOutput, Longest, OutputType
  <2>3. miss \in SUBSET (0 .. n - 1) /\ concealed' = concealed \cup new  BY <1>1, <1>6
  <2>. HIDE DEF miss
  <2>4. Longest(concealed \cup new, IF b > maxBurstLoss THEN b ELSE maxBurstLoss)
    BY <1>2, <2>1, <2>2, <2>3, LongestOfBoth
  <2>. QED  BY <2>1, <2>3, <2>4
<1>19. StatsMatchOutput'
  BY <1>16, <1>17, <1>18 DEF StatsMatchOutput, Longest
<1>. QED  BY <1>9, <1>11, <1>14, <1>15, <1>19 DEF Account

(* The same for the flush of accept, which may return early. *)
LEMMA FlushUnforcedAccounts ==
  ASSUME NEW held, NEW from, NEW pos, NEW emitted \in SUBSET (Nat \X Nat),
         sent \in Nat, OutputType, Window(held, from, pos),
         StatsMatchOutput, IsFiniteSet(concealed), \A q \in concealed : q + 1 < pos,
         \A p \in played \cup emitted : p[2] < pos,
         accepted' = {p[2] : p \in played \cup emitted} \cup {held[k] : k \in DOMAIN held},
         concealed \cap accepted' = {},
         flushUnforced(held, from, pos, emitted)
  PROVE  Account'
<1>1. CASE flushTooEarly(held, from, pos, emitted)
  <2>1. /\ future' = held /\ nextPos' = pos /\ played' = played \cup emitted
        /\ concealed' = concealed /\ lossPackets' = lossPackets
        /\ fecRecoveredFrames' = fecRecoveredFrames /\ maxBurstLoss' = maxBurstLoss
    BY <1>1 DEF flushTooEarly
  <2>2. AcceptedNotConcealed'  BY <2>1 DEF AcceptedNotConcealed, HeldFrames, Held
  <2>3. StatsMatchOutput'  BY <2>1 DEF StatsMatchOutput
  <2>. QED  BY <2>1, <2>2, <2>3 DEF Account, PlayedBehind, LostBehind
<1>2. CASE flush(held, from, pos, FALSE, emitted)
  BY <1>2, FlushAccounts
<1>. QED  BY <1>1, <1>2 DEF flushUnforced

(* What the account is about. *)
accountVars == <<seen, future, nextPos, played, concealed, accepted,
                 lossPackets, fecRecoveredFrames, maxBurstLoss>>

(* A step that hands nothing over and holds nothing new keeps the account. *)
LEMMA AccountUntouched == AccountInv /\ UNCHANGED accountVars => AccountInv'
BY DEF AccountInv, Account, AcceptedNotConcealed, StatsMatchOutput, PlayedBehind, LostBehind,
       NothingYet, HeldFrames, Held, accountVars

(* Nothing was handed over yet. *)
LEMMA InitAccount == MediaInit => AccountInv
<1>. SUFFICES ASSUME MediaInit PROVE AccountInv  OBVIOUS
<1>1. IsFiniteSet({}) /\ Cardinality({}) = 0  BY FS_EmptySet
<1>2. HeldFrames = {}  BY DEF MediaInit, HeldFrames, Held
<1>. QED  BY <1>1, <1>2 DEF MediaInit, AccountInv, Account, AcceptedNotConcealed, StatsMatchOutput,
            PlayedBehind, LostBehind, NothingYet

(* The account as the flushes of a started stream find it. *)
LEMMA AccountFacts ==
  ASSUME IInv, AccountInv
  PROVE  /\ sent \in Nat /\ nextPos \in Nat /\ OutputType
         /\ StatsMatchOutput /\ IsFiniteSet(concealed)
         /\ accepted = {p[2] : p \in played} \cup HeldFrames /\ concealed \cap accepted = {}
         /\ \A q \in concealed : q \in Nat /\ q + 1 < nextPos
         /\ \A p \in played : p[2] \in Nat /\ p[2] < nextPos
BY TypeParts DEF IInv, OutputType, MediaTypes, AccountInv, Account, AcceptedNotConcealed, PlayedBehind, LostBehind

(* The first datagram of a stream is the first frame accounted for. *)
LEMMA FirstAccounts ==
  ASSUME IInv, AccountInv, NEW f \in inFlight, acceptFirst(f)
  PROVE  AccountInv'
<1>1. f \in Nat  BY DeliveredFrame
<1>2. /\ seen' = TRUE /\ future' = future /\ nextPos' = f + 1
      /\ played' = played \cup {<<f, f>>} /\ accepted' = accepted \cup {f} /\ concealed' = concealed
      /\ lossPackets' = lossPackets /\ fecRecoveredFrames' = fecRecoveredFrames
      /\ maxBurstLoss' = maxBurstLoss /\ played = {} /\ concealed = {}
  BY DEF acceptFirst, AccountInv, NothingYet
<1>3. AcceptedNotConcealed'
  BY <1>2, AccountFacts DEF AcceptedNotConcealed, HeldFrames, Held
<1>4. StatsMatchOutput' /\ IsFiniteSet(concealed')
  BY <1>2, AccountFacts DEF StatsMatchOutput
<1>5. PlayedBehind' /\ LostBehind'
  BY <1>1, <1>2 DEF PlayedBehind, LostBehind
<1>. QED  BY <1>2, <1>3, <1>4, <1>5 DEF AccountInv, Account, NothingYet

(* The expected datagram is played, and the flush goes on behind it. *)
LEMMA NextAccounts ==
  ASSUME IInv, AccountInv, NEW f \in inFlight, acceptNext(f)
  PROVE  Account'
<1>1. /\ flushUnforced(future, (Wire(f) + 1) % SeqMod, nextPos + 1, {<<nextPos, f>>})
      /\ accepted' = accepted \cup {f} /\ seen /\ Delta(Wire(f), nextSeq) = 0
  BY DEF acceptNext
<1>2. /\ f = nextPos /\ f \in Nat /\ nextPos \in Nat /\ sent \in Nat
      /\ Window(future, (Wire(f) + 1) % SeqMod, nextPos + 1)
  BY <1>1, WindowBehindNext
<1>. DEFINE one == {<<nextPos, f>>}
<1>3. one \in SUBSET (Nat \X Nat) /\ \A p \in one : p[2] = f  BY <1>2
<1>4. \A q \in concealed : q + 1 < nextPos + 1  BY <1>2, AccountFacts
<1>5. \A p \in played \cup one : p[2] < nextPos + 1
  <2>1. ASSUME NEW p \in played PROVE p[2] < nextPos + 1
    <3>1. p[2] \in Nat /\ p[2] < nextPos  BY AccountFacts
    <3>. QED  BY <1>2, <3>1
  <2>. QED  BY <1>2, <1>3, <2>1
<1>6. accepted' = {p[2] : p \in played \cup one} \cup {future[k] : k \in DOMAIN future}
  <2>1. accepted = {p[2] : p \in played} \cup {future[k] : k \in DOMAIN future}
    BY AccountFacts DEF HeldFrames, Held
  <2>2. {p[2] : p \in played \cup one} = {p[2] : p \in played} \cup {f}
    <3>1. <<nextPos, f>> \in one /\ <<nextPos, f>>[2] = f  OBVIOUS
    <3>. HIDE DEF one
    <3>. QED  BY <1>3, <3>1
  <2>. HIDE DEF one
  <2>. QED  BY <1>1, <2>1, <2>2
<1>7. concealed \cap accepted' = {}
  <2>1. f \notin concealed
    <3>1. f \in concealed => f + 1 < nextPos  BY AccountFacts
    <3>. QED  BY <1>2, <3>1
  <2>. QED  BY <1>1, <2>1, AccountFacts
<1>. HIDE DEF one
<1>8. StatsMatchOutput /\ IsFiniteSet(concealed) /\ OutputType  BY AccountFacts
<1>9. flushUnforced(future, (Wire(f) + 1) % SeqMod, nextPos + 1, one)  BY <1>1 DEF one
<1>. QED  BY <1>2, <1>3, <1>4, <1>5, <1>6, <1>7, <1>8, <1>9, FlushUnforcedAccounts

(* An early datagram enters the window or is refused by it. *)
LEMMA FutureAccounts ==
  ASSUME IInv, AccountInv, NEW f \in inFlight, acceptFuture(f)
  PROVE  Account'
<1>1. seen /\ Delta(Wire(f), nextSeq) > 0
  BY DEF acceptFuture
<1>2. /\ f \in Nat /\ nextPos < f
      /\ Window(WithEarly(f), nextSeq, nextPos)
      /\ {WithEarly(f)[k] : k \in DOMAIN WithEarly(f)} = HeldFrames \cup {f}
  BY <1>1, WindowWithEarly
<1>3. Window(future, nextSeq, nextPos) /\ HeldFrames = {future[k] : k \in DOMAIN future}
  BY <1>1 DEF IInv, HeldFrames, Held
<1>4. ASSUME NEW h, Window(h, nextSeq, nextPos), flushUnforced(h, nextSeq, nextPos, {}),
             accepted' = {p[2] : p \in played} \cup {h[k] : k \in DOMAIN h},
             concealed \cap accepted' = {}
      PROVE  Account'
  <2>1. {} \in SUBSET (Nat \X Nat) /\ played \cup {} = played  OBVIOUS
  <2>2. /\ sent \in Nat /\ StatsMatchOutput /\ IsFiniteSet(concealed) /\ OutputType
        /\ \A q \in concealed : q + 1 < nextPos
        /\ \A p \in played \cup {} : p[2] < nextPos
    BY <2>1, AccountFacts
  <2>. QED  BY <1>4, <2>1, <2>2, FlushUnforcedAccounts
<1>5. CASE Cardinality(Held) < FutureCap
  <2>1. flushUnforced(WithEarly(f), nextSeq, nextPos, {}) /\ accepted' = accepted \cup {f}
    BY <1>5 DEF acceptFuture, WithEarly
  <2>2. f \notin concealed
    <3>1. f \in concealed => f + 1 < nextPos  BY AccountFacts
    <3>. QED  BY <1>2, <3>1, AccountFacts
  <2>3. accepted' = {p[2] : p \in played} \cup {WithEarly(f)[k] : k \in DOMAIN WithEarly(f)}
        /\ concealed \cap accepted' = {}
    BY <1>2, <2>1, <2>2, AccountFacts
  <2>. QED  BY <1>2, <1>4, <2>1, <2>3
<1>6. CASE ~(Cardinality(Held) < FutureCap)
  <2>1. flushUnforced(future, nextSeq, nextPos, {}) /\ accepted' = accepted
    BY <1>6 DEF acceptFuture
  <2>. QED  BY <1>3, <1>4, <2>1, AccountFacts
<1>. QED  BY <1>5, <1>6

(* Every step keeps the account. *)
LEMMA NextAccount == IInv /\ AccountInv /\ [MediaNext]_mediaVars => AccountInv'
<1>. SUFFICES ASSUME IInv, AccountInv, [MediaNext]_mediaVars PROVE AccountInv'  OBVIOUS
<1>1. CASE SendMedia
  BY <1>1, AccountUntouched DEF SendMedia, accountVars, histVars, statVars
<1>2. ASSUME NEW f \in inFlight, Lose(f) PROVE AccountInv'
  BY <1>2, AccountUntouched DEF Lose, accountVars, histVars, statVars
<1>3. ASSUME NEW f \in inFlight, Deliver(f) PROVE AccountInv'
  <2>1. CASE acceptFirst(f)  BY <2>1, FirstAccounts
  <2>2. CASE acceptLate(f)
    BY <2>2, AccountUntouched DEF acceptLate, accountVars, histVars
  <2>3. CASE acceptNext(f)
    <3>1. Account' /\ seen'  BY <2>3, NextAccounts DEF acceptNext
    <3>. QED  BY <3>1 DEF AccountInv, NothingYet
  <2>4. CASE acceptFuture(f)
    <3>1. Account' /\ seen'  BY <2>4, FutureAccounts DEF acceptFuture
    <3>. QED  BY <3>1 DEF AccountInv, NothingYet
  <2>. QED  BY <1>3, <2>1, <2>2, <2>3, <2>4 DEF Deliver, accept
<1>4. CASE Elapse
  BY <1>4, AccountUntouched DEF Elapse, accountVars, histVars, statVars
<1>5. CASE tick
  <2>1. CASE seen
    <3>1. flush(future, nextSeq, nextPos, TRUE, {}) /\ accepted' = accepted /\ seen'
      BY <1>5, <2>1 DEF tick
    <3>2. Window(future, nextSeq, nextPos) /\ HeldFrames = {future[k] : k \in DOMAIN future}
      BY <2>1 DEF IInv, HeldFrames, Held
    <3>3. {} \in SUBSET (Nat \X Nat) /\ played \cup {} = played /\ TRUE \in BOOLEAN  OBVIOUS
    <3>4. /\ sent \in Nat /\ StatsMatchOutput /\ IsFiniteSet(concealed) /\ OutputType
          /\ \A q \in concealed : q + 1 < nextPos
          /\ \A p \in played \cup {} : p[2] < nextPos
          /\ accepted' = {p[2] : p \in played \cup {}} \cup {future[k] : k \in DOMAIN future}
          /\ concealed \cap accepted' = {}
      BY <3>1, <3>2, <3>3, AccountFacts
    <3>5. Account'  BY <3>1, <3>2, <3>3, <3>4, FlushAccounts
    <3>. QED  BY <3>1, <3>5 DEF AccountInv, NothingYet
  <2>2. CASE ~seen
    BY <1>5, <2>2, AccountUntouched DEF tick, accountVars
  <2>. QED  BY <2>1, <2>2
<1>6. CASE UNCHANGED mediaVars
  BY <1>6, AccountUntouched DEF mediaVars, accountVars, histVars, statVars
<1>. QED  BY <1>1, <1>2, <1>3, <1>4, <1>5, <1>6 DEF MediaNext

(* The account holds of every behaviour. *)
LEMMA AccountHolds == MediaSpec => []AccountInv
<1>1. MediaInit => AccountInv  BY InitAccount
<1>2. IInv /\ AccountInv /\ [MediaNext]_mediaVars => AccountInv'  BY NextAccount
<1>. QED  BY <1>1, <1>2, IInvHolds, PTL DEF MediaSpec

(* A frame that entered the window is played or still held: accept and     *)
(* flush neither conceal it nor drop it.                                   *)
THEOREM AcceptedIsDelivered == MediaSpec => []AcceptedNotConcealed
<1>1. AccountInv => AcceptedNotConcealed  BY DEF AccountInv, Account
<1>. QED  BY <1>1, AccountHolds, PTL

(* lossPackets, fecRecoveredFrames and maxBurstLoss, which the host's      *)
(* quality controller reads, count what the consumer really got.           *)
THEOREM StatsAreTrue == MediaSpec => []StatsMatchOutput
<1>1. AccountInv => StatsMatchOutput  BY DEF AccountInv, Account
<1>. QED  BY <1>1, AccountHolds, PTL
=============================================================================
