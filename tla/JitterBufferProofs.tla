------------------------- MODULE JitterBufferProofs -------------------------
(***************************************************************************)
(* Proofs about JitterBuffer for every target, high watermark, write size  *)
(* and read size.  The ring's contents, the accounting and the types hold  *)
(* one another up: the accounting bounds the names of the queued frames,   *)
(* and the bound on used keeps writeLocked off the frames still queued.    *)
(***************************************************************************)
EXTENDS JitterBuffer, ModArithmetic, SequenceTheorems

(* The inductive invariant: types, contents and accounting together. *)
IInv == BufferTypes /\ RingHoldsNewest /\ FramesAccounted

(* The high watermark is positive (NewJitterBuffer refuses any other). *)
LEMMA HighPositive == High \in Nat /\ High > 0
BY JitterAssumption

(* Positions reduced modulo the ring's size are slots. *)
LEMMA ModSlot == ASSUME NEW a \in Int PROVE a % High \in Slots
BY HighPositive DEF Slots

(* What Write keeps and drops always fits: dropOldestLocked makes exactly  *)
(* the room writeLocked needs, and an oversized packet leaves nothing of   *)
(* the old queue.                                                          *)
LEMMA RoomForPacket ==
  ASSUME BufferTypes, writing # 0
  PROVE  /\ kept(writing) \in 1 .. High /\ kept(writing) <= writing
         /\ dropOldest(writing) \in 0 .. used
         /\ used - dropOldest(writing) + kept(writing) \in 0 .. High
         /\ used - dropOldest(writing) > 0 => kept(writing) = writing
BY HighPositive DEF BufferTypes, kept, dropOldest

(* The distance from the write position decides which slots writeLocked    *)
(* touches: the new frames follow the queue, the queued ones are spared.   *)
LEMMA RingOffset ==
  ASSUME NEW r \in Int, NEW u \in 0 .. High, NEW k \in 1 .. High,
         u + k <= High, NEW i \in 0 .. u + k - 1
  PROVE  (((r + i) % High) - ((r + u) % High)) % High
           = IF i >= u THEN i - u ELSE High + i - u
<1>1. (((r + i) % High) - ((r + u) % High)) % High = ((r + i) - (r + u)) % High
  <2>1. r + i \in Int /\ r + u \in Int  OBVIOUS
  <2>. QED  BY <2>1, HighPositive, ModSub
<1>2. (r + i) - (r + u) = i - u  OBVIOUS
<1>3. CASE i >= u
  <2>1. i - u \in 0 .. High - 1 /\ i - u = High * 0 + (i - u)  BY <1>3, HighPositive
  <2>2. (i - u) % High = i - u  BY <2>1, HighPositive, ModRemainder
  <2>. QED  BY <1>1, <1>2, <1>3, <2>2
<1>4. CASE i < u
  <2>1. High + i - u \in 0 .. High - 1 /\ i - u = High * (-1) + (High + i - u)
    BY <1>4, HighPositive
  <2>2. i - u \in Int /\ -1 \in Int  OBVIOUS
  <2>3. (i - u) % High = High + i - u  BY <2>1, <2>2, HighPositive, ModRemainder
  <2>. QED  BY <1>1, <1>2, <1>4, <2>3
<1>. QED  BY <1>3, <1>4

(* An empty ring satisfies the invariant. *)
LEMMA InitIInv == BufferInit => IInv
<1>. SUFFICES ASSUME BufferInit PROVE IInv  OBVIOUS
<1>1. 0 \in Slots  BY HighPositive DEF Slots
<1>2. BufferTypes  BY <1>1, HighPositive DEF BufferInit, BufferTypes
<1>3. RingHoldsNewest  BY DEF BufferInit, RingHoldsNewest
<1>4. FramesAccounted  BY DEF BufferInit, FramesAccounted
<1>. QED  BY <1>2, <1>3, <1>4 DEF IInv

(* Taking the mutex names the packet's frames and moves none. *)
LEMMA LockIInv ==
  ASSUME IInv, NEW n \in WriteSizes, lock(n)
  PROVE  IInv'
<1>1. n \in Nat  BY JitterAssumption
<1>2. BufferTypes'  BY <1>1 DEF IInv, BufferTypes, lock
<1>3. RingHoldsNewest'
  <2>1. written' - writing' - used' = written - writing - used
    BY <1>1 DEF IInv, BufferTypes, lock
  <2>2. UNCHANGED <<buf, read, used>>  BY DEF lock
  <2>. QED  BY <2>1, <2>2 DEF IInv, RingHoldsNewest
<1>4. FramesAccounted'  BY <1>1 DEF IInv, BufferTypes, FramesAccounted, lock
<1>. QED  BY <1>2, <1>3, <1>4 DEF IInv

(* Write appends to the queue, or replaces its oldest frames. *)
LEMMA WriteIInv ==
  ASSUME IInv, Write
  PROVE  IInv'
<1>. DEFINE k == kept(writing)
            drop == dropOldest(writing)
            u == used - drop
            r == (read + drop) % High
            at == (r + u) % High
            off(s) == (s - at) % High
<1>t. BufferTypes /\ writing # 0  BY DEF IInv, Write
<1>1. /\ k \in 1 .. High /\ k <= writing /\ drop \in 0 .. used
      /\ u + k \in 0 .. High /\ (u > 0 => k = writing)
  BY <1>t, RoomForPacket
<1>2. /\ read \in Slots /\ used \in 0 .. High /\ written \in Nat /\ writing \in Nat
      /\ returned \in Nat /\ discarded \in Nat /\ buf \in [Slots -> Nat]
  BY <1>t DEF BufferTypes
<1>3. r \in Slots /\ at \in Slots /\ u \in 0 .. High
  <2>1. read + drop \in Int  BY <1>1, <1>2 DEF Slots
  <2>2. r \in Slots  BY <2>1, ModSlot
  <2>3. r + u \in Int  BY <2>2, <1>1, <1>2 DEF Slots
  <2>4. at \in Slots  BY <2>3, ModSlot
  <2>5. u \in 0 .. High
    <3>. HIDE DEF drop
    <3>. QED  BY <1>1, <1>2, HighPositive
  <2>. QED  BY <2>2, <2>4, <2>5
<1>4. written = returned + discarded + used + writing  BY DEF IInv, FramesAccounted
<1>5. /\ buf' = [s \in Slots |-> IF off(s) < k THEN written - k + off(s) ELSE buf[s]]
      /\ read' = r /\ used' = u + k
      /\ discarded' = discarded + (writing - k) + drop
      /\ primed' = (primed \/ used' >= Target)
      /\ writing' = 0 /\ UNCHANGED <<written, returned, latest>>
  <2>1. at = (r + used - drop) % High  BY <1>1, <1>2, <1>3 DEF Slots
  <2>. QED  BY <2>1 DEF Write, writeLocked
<1>. HIDE DEF k, drop, u, r, at
<1>6. BufferTypes'
  <2>1. \A s \in Slots : off(s) \in Nat  BY <1>3, HighPositive DEF Slots
  <2>2. \A s \in Slots : written - k + off(s) \in Nat  BY <2>1, <1>1, <1>2, <1>4
  <2>3. buf' \in [Slots -> Nat]
    <3>. HIDE DEF off
    <3>. QED  BY <2>2, <1>2, <1>5
  <2>4. primed' \in BOOLEAN  BY <1>5, <1>t DEF BufferTypes
  <2>5. discarded' \in Nat  BY <1>1, <1>2, <1>5
  <2>. QED  BY <2>3, <2>4, <2>5, <1>t, <1>1, <1>3, <1>5 DEF BufferTypes
<1>7. ASSUME NEW i \in 0 .. u + k - 1
      PROVE  buf'[(r + i) % High] = written - (u + k) + i
  <2>. DEFINE s == (r + i) % High
  <2>1. s \in Slots  BY <1>3, ModSlot DEF Slots
  <2>2. off(s) = IF i >= u THEN i - u ELSE High + i - u
    <3>1. r \in Int /\ u + k <= High  BY <1>1, <1>3 DEF Slots
    <3>. QED  BY <3>1, <1>1, <1>3, RingOffset DEF at
  <2>3. buf'[s] = IF off(s) < k THEN written - k + off(s) ELSE buf[s]
    BY <2>1, <1>5
  <2>. HIDE DEF off
  <2>4. CASE i >= u
    <3>1. off(s) = i - u /\ i - u < k  BY <2>2, <2>4, <1>1, <1>3
    <3>2. buf'[s] = written - k + (i - u)  BY <2>3, <3>1
    <3>. QED  BY <3>2, <1>1, <1>2, <1>3
  <2>5. CASE i < u
    <3>1. off(s) = High + i - u /\ ~(High + i - u < k) /\ k = writing
      BY <2>2, <2>5, <1>1, <1>3, HighPositive
    <3>2. buf'[s] = buf[s]  BY <2>3, <3>1
    <3>3. s = (read + (drop + i)) % High
      <4>1. read + drop \in Int /\ (read + drop) + i = read + (drop + i)
        BY <1>1, <1>2 DEF Slots
      <4>2. i \in Int  BY <1>1, <1>2 DEF u
      <4>3. s = ((read + drop) + i) % High  BY <4>1, <4>2, HighPositive, ModAdd DEF r
      <4>. QED  BY <4>1, <4>3
    <3>4. drop + i \in 0 .. used - 1  BY <2>5, <1>1, <1>2 DEF u
    <3>5. buf[s] = written - writing - used + (drop + i)
      BY <3>3, <3>4 DEF IInv, RingHoldsNewest
    <3>. QED  BY <3>1, <3>2, <3>5, <1>1, <1>2 DEF u
  <2>. QED  BY <2>4, <2>5, <1>3
<1>8. RingHoldsNewest'
  <2>1. written' - writing' - used' = written - (u + k)  BY <1>1, <1>2, <1>3, <1>5
  <2>2. ASSUME NEW i \in 0 .. used' - 1
        PROVE  buf'[(read' + i) % High] = written' - writing' - used' + i
    <3>. HIDE DEF off
    <3>1. used' = u + k /\ read' = r  BY <1>5
    <3>2. i \in 0 .. u + k - 1  BY <3>1, <1>1, <1>3
    <3>3. buf'[(r + i) % High] = written - (u + k) + i  BY <3>2, <1>7
    <3>. QED  BY <3>1, <3>3, <2>1
  <2>. QED  BY <2>2 DEF RingHoldsNewest
<1>9. FramesAccounted'
  BY <1>1, <1>2, <1>4, <1>5 DEF FramesAccounted, u
<1>. QED  BY <1>6, <1>8, <1>9 DEF IInv

(* A Read that returns silence moves nothing. *)
LEMMA SilenceIInv ==
  ASSUME IInv, silence, primed' \in BOOLEAN
  PROVE  IInv'
<1>1. BufferTypes'  BY DEF IInv, BufferTypes, silence
<1>2. RingHoldsNewest'  BY DEF IInv, RingHoldsNewest, silence
<1>3. FramesAccounted'  BY DEF IInv, FramesAccounted, silence
<1>. QED  BY <1>1, <1>2, <1>3 DEF IInv

(* A Read takes the oldest frames. *)
LEMMA ReadFramesIInv ==
  ASSUME IInv, NEW n \in ReadSizes, ReadFrames(n)
  PROVE  IInv'
<1>1. /\ n \in Nat /\ n <= used /\ read \in Slots /\ used \in 0 .. High
      /\ written \in Nat /\ writing \in Nat /\ returned \in Nat /\ discarded \in Nat
      /\ buf \in [Slots -> Nat]
  BY JitterAssumption DEF IInv, BufferTypes, ReadFrames
<1>2. /\ latest' = [i \in 1 .. n |-> buf[(read + i - 1) % High]]
      /\ read' = (read + n) % High /\ used' = used - n
      /\ primed' = TRUE /\ returned' = returned + n
      /\ UNCHANGED <<buf, discarded, writing, written>>
  BY DEF ReadFrames, readLocked
<1>3. BufferTypes'
  <2>1. read' \in Slots  BY <1>1, <1>2, ModSlot DEF Slots
  <2>2. \A i \in 1 .. n : buf[(read + i - 1) % High] \in Nat
    <3>. SUFFICES ASSUME NEW i \in 1 .. n
                  PROVE  buf[(read + i - 1) % High] \in Nat
      OBVIOUS
    <3>1. read + i - 1 \in Int  BY <1>1 DEF Slots
    <3>2. (read + i - 1) % High \in Slots  BY <3>1, ModSlot
    <3>. QED  BY <3>2, <1>1
  <2>3. latest' \in Seq(Nat)  BY <2>2, <1>1, <1>2
  <2>4. used' \in 0 .. High /\ returned' \in Nat  BY <1>1, <1>2, HighPositive
  <2>. QED  BY <2>1, <2>3, <2>4, <1>1, <1>2 DEF BufferTypes
<1>4. RingHoldsNewest'
  <2>. SUFFICES ASSUME NEW i \in 0 .. used - n - 1
                PROVE  buf[(((read + n) % High) + i) % High]
                         = written - writing - (used - n) + i
    BY <1>1, <1>2 DEF RingHoldsNewest
  <2>1. read + n \in Int /\ (read + n) + i = read + (n + i)  BY <1>1 DEF Slots
  <2>2. (((read + n) % High) + i) % High = (read + (n + i)) % High
    <3>1. i \in Int  BY <1>1
    <3>2. (((read + n) % High) + i) % High = ((read + n) + i) % High
      BY <3>1, <2>1, HighPositive, ModAdd
    <3>. QED  BY <3>2, <2>1
  <2>3. n + i \in 0 .. used - 1  BY <1>1
  <2>4. buf[(read + (n + i)) % High] = written - writing - used + (n + i)
    BY <2>3 DEF IInv, RingHoldsNewest
  <2>. QED  BY <2>2, <2>4, <1>1
<1>5. FramesAccounted'  BY <1>1, <1>2 DEF IInv, FramesAccounted
<1>. QED  BY <1>3, <1>4, <1>5 DEF IInv

(* Every step of the writer and of the reader keeps the invariant. *)
LEMMA NextIInv == IInv /\ [BufferNext]_bufferVars => IInv'
<1>. SUFFICES ASSUME IInv, [BufferNext]_bufferVars PROVE IInv'  OBVIOUS
<1>1. CASE Write  BY <1>1, WriteIInv
<1>2. ASSUME NEW n \in WriteSizes, lock(n) PROVE IInv'  BY <1>2, LockIInv
<1>3. ASSUME NEW n \in ReadSizes, Read(n) PROVE IInv'
  <2>1. primed \in BOOLEAN  BY DEF IInv, BufferTypes
  <2>2. CASE ReadContended(n)  BY <2>1, <2>2, SilenceIInv DEF ReadContended
  <2>3. CASE ReadUnprimed(n)  BY <2>1, <2>3, SilenceIInv DEF ReadUnprimed
  <2>4. CASE ReadShort(n)  BY <2>4, SilenceIInv DEF ReadShort
  <2>5. CASE ReadFrames(n)  BY <2>5, ReadFramesIInv
  <2>. QED  BY <1>3, <2>2, <2>3, <2>4, <2>5 DEF Read
<1>4. CASE UNCHANGED bufferVars
  BY <1>4 DEF bufferVars, IInv, BufferTypes, RingHoldsNewest, FramesAccounted
<1>. QED  BY <1>1, <1>2, <1>3, <1>4 DEF BufferNext

(* Every reachable state satisfies the inductive invariant. *)
LEMMA IInvHolds == BufferSpec => []IInv
BY InitIInv, NextIInv, PTL DEF BufferSpec

(* Every variable of the ring keeps its type; in particular the queue      *)
(* never outgrows the ring and read stays inside it.                       *)
THEOREM TypeCorrect == BufferSpec => []BufferTypes
<1>1. IInv => BufferTypes  BY DEF IInv
<1>. QED  BY <1>1, IInvHolds, PTL

(* Whatever writes, wraps, overruns and reads interleave, the ring holds   *)
(* the newest frames in order (writeLocked, dropOldestLocked, readLocked). *)
THEOREM RingKeepsNewest == BufferSpec => []RingHoldsNewest
<1>1. IInv => RingHoldsNewest  BY DEF IInv
<1>. QED  BY <1>1, IInvHolds, PTL

(* Every frame given to Write is played, queued, under way or counted in   *)
(* discardedFrames.                                                        *)
THEOREM NoFrameVanishes == BufferSpec => []FramesAccounted
<1>1. IInv => FramesAccounted  BY DEF IInv
<1>. QED  BY <1>1, IInvHolds, PTL

-----------------------------------------------------------------------------
(* The ring implements the drop-oldest queue.  What the queue holds is a   *)
(* run of consecutive frames, so the steps are compared as runs.           *)

(* The n frames of the stream from frame a on. *)
Run(a, n) == [i \in 1 .. n |-> a + i - 1]

(* A run is a sequence of frames. *)
LEMMA RunIsSeq ==
  ASSUME NEW a \in Int, NEW n \in Nat
  PROVE  /\ Run(a, n) \in Seq(Int) /\ Len(Run(a, n)) = n
         /\ \A i \in 1 .. n : Run(a, n)[i] = a + i - 1
BY DEF Run

(* Adjacent runs make one run. *)
LEMMA RunConcat ==
  ASSUME NEW a \in Int, NEW n \in Nat, NEW m \in Nat
  PROVE  Run(a, n) \o Run(a + n, m) = Run(a, n + m)
<1>1. /\ Run(a, n) \in Seq(Int) /\ Len(Run(a, n)) = n
      /\ \A i \in 1 .. n : Run(a, n)[i] = a + i - 1
  BY RunIsSeq
<1>2. /\ Run(a + n, m) \in Seq(Int) /\ Len(Run(a + n, m)) = m
      /\ \A i \in 1 .. m : Run(a + n, m)[i] = (a + n) + i - 1
  <2>1. a + n \in Int  OBVIOUS
  <2>. QED  BY <2>1, RunIsSeq
<1>3. /\ Run(a, n + m) \in Seq(Int) /\ Len(Run(a, n + m)) = n + m
      /\ \A i \in 1 .. n + m : Run(a, n + m)[i] = a + i - 1
  <2>1. n + m \in Nat  OBVIOUS
  <2>. QED  BY <2>1, RunIsSeq
<1>. DEFINE s == Run(a, n)
            t == Run(a + n, m)
            v == Run(a, n + m)
<1>. HIDE DEF s, t, v
<1>4. /\ s \o t \in Seq(Int) /\ Len(s \o t) = n + m
      /\ \A i \in 1 .. n + m : (s \o t)[i] = IF i <= n THEN s[i] ELSE t[i - n]
  <2>1. s \in Seq(Int) /\ t \in Seq(Int) /\ Len(s) = n /\ Len(t) = m
    BY <1>1, <1>2 DEF s, t
  <2>2. /\ s \o t \in Seq(Int) /\ Len(s \o t) = Len(s) + Len(t)
        /\ \A i \in 1 .. Len(s) + Len(t) :
             (s \o t)[i] = IF i <= Len(s) THEN s[i] ELSE t[i - Len(s)]
    BY <2>1, ConcatProperties
  <2>. QED  BY <2>1, <2>2
<1>5. \A i \in 1 .. n + m : (s \o t)[i] = v[i]
  <2>. TAKE i \in 1 .. n + m
  <2>1. (s \o t)[i] = IF i <= n THEN s[i] ELSE t[i - n]  BY <1>4
  <2>2. v[i] = a + i - 1  BY <1>3 DEF v
  <2>3. CASE i <= n
    <3>1. i \in 1 .. n  BY <2>3
    <3>2. s[i] = a + i - 1  BY <3>1, <1>1 DEF s
    <3>3. (s \o t)[i] = s[i]  BY <2>1, <2>3
    <3>. QED  BY <2>2, <3>2, <3>3
  <2>4. CASE ~(i <= n)
    <3>1. i - n \in 1 .. m  BY <2>4
    <3>2. t[i - n] = (a + n) + (i - n) - 1  BY <3>1, <1>2 DEF t
    <3>3. (a + n) + (i - n) - 1 = a + i - 1  BY <2>4
    <3>4. (s \o t)[i] = t[i - n]  BY <2>1, <2>4
    <3>. QED  BY <2>2, <3>2, <3>3, <3>4
  <2>. QED  BY <2>3, <2>4, Zenon
<1>6. v \in Seq(Int) /\ Len(v) = n + m  BY <1>3 DEF v
<1>7. s \o t = v  BY <1>4, <1>5, <1>6, SeqEqual
<1>. QED  BY <1>7 DEF s, t, v

(* A piece of a run is a run. *)
LEMMA RunSub ==
  ASSUME NEW a \in Int, NEW n \in Nat, NEW k \in 1 .. n + 1, NEW l \in k - 1 .. n
  PROVE  SubSeq(Run(a, n), k, l) = Run(a + k - 1, l - k + 1)
<1>. DEFINE s == Run(a, n)
            b == a + k - 1
            m == l - k + 1
            v == Run(b, m)
<1>1. \A i \in 1 .. n : s[i] = a + i - 1  BY RunIsSeq
<1>2. b \in Int /\ m \in Nat /\ k \in Int /\ l \in Int /\ l - k + 1 = m  OBVIOUS
<1>3. v \in Seq(Int) /\ Len(v) = m /\ \A i \in 1 .. m : v[i] = b + i - 1
  <2>. HIDE DEF b, m
  <2>. QED  BY <1>2, RunIsSeq
<1>. HIDE DEF s, v
<1>4. \A i \in k .. l : s[i] \in Int  BY <1>1
<1>5. /\ SubSeq(s, k, l) \in Seq(Int)
      /\ Len(SubSeq(s, k, l)) = IF k <= l THEN l - k + 1 ELSE 0
      /\ \A i \in 1 .. l - k + 1 : SubSeq(s, k, l)[i] = s[k + i - 1]
  BY <1>4, <1>2, SubSeqProperties
<1>6. Len(SubSeq(s, k, l)) = m  BY <1>5
<1>7. \A i \in 1 .. m : SubSeq(s, k, l)[i] = v[i]
  <2>. TAKE i \in 1 .. m
  <2>1. k + i - 1 \in 1 .. n  OBVIOUS
  <2>2. s[k + i - 1] = a + (k + i - 1) - 1  BY <2>1, <1>1
  <2>. QED  BY <2>2, <1>3, <1>5
<1>8. SubSeq(s, k, l) = v  BY <1>3, <1>5, <1>6, <1>7, SeqEqual
<1>. QED  BY <1>8 DEF s, v

(* The frames waiting in the ring, as the refinement mapping reads them. *)
Waiting == [i \in 1 .. used |-> buf[(read + i - 1) % High]]

(* They are the newest frames handed over. *)
LEMMA WaitingIsRun ==
  IInv => Waiting = Run(written - writing - used, used)
<1>. SUFFICES ASSUME IInv PROVE Waiting = Run(written - writing - used, used)
  OBVIOUS
<1>1. \A i \in 1 .. used :
        buf[(read + i - 1) % High] = (written - writing - used) + i - 1
  <2>. TAKE i \in 1 .. used
  <2>1. i - 1 \in 0 .. used - 1 /\ read + i - 1 = read + (i - 1)
    BY DEF IInv, BufferTypes, Slots
  <2>2. buf[(read + (i - 1)) % High] = written - writing - used + (i - 1)
    BY <2>1 DEF IInv, RingHoldsNewest
  <2>. QED  BY <2>1, <2>2 DEF IInv, BufferTypes
<1>. QED  BY <1>1, Zenon DEF Waiting, Run

(* The packet that holds the mutex is one the network goroutine writes. *)
PacketOnItsWay == writing \in WriteSizes \cup {0}

(* No packet of another size is ever under way. *)
LEMMA PacketHolds == BufferSpec => []PacketOnItsWay
<1>1. BufferInit => PacketOnItsWay  BY DEF BufferInit, PacketOnItsWay
<1>2. PacketOnItsWay /\ [BufferNext]_bufferVars => PacketOnItsWay'
  BY DEF PacketOnItsWay, BufferNext, bufferVars, Write, lock, Read, ReadContended, ReadUnprimed,
         ReadShort, ReadFrames, silence
<1>. QED  BY <1>1, <1>2, PTL DEF BufferSpec

(* The end of a Write is an Enqueue of its packet. *)
LEMMA WriteEnqueues ==
  ASSUME IInv, IInv', PacketOnItsWay, Write
  PROVE  Queue!Enqueue
<1>. DEFINE n == writing
            p == written - writing
<1>1. /\ n \in WriteSizes /\ n \in Nat /\ n > 0 /\ p \in Int
      /\ used \in 0 .. High /\ used' \in Nat /\ written' = written /\ writing' = 0
      /\ UNCHANGED latest
  BY JitterAssumption DEF IInv, BufferTypes, PacketOnItsWay, Write
<1>2. used' = IF used + n <= High THEN used + n ELSE High
  BY <1>1, HighPositive DEF Write, kept, dropOldest
<1>3. Waiting = Run(p - used, used)  BY WaitingIsRun
<1>4. Waiting' = Run(written - used', used')
  <2>1. (IInv => Waiting = Run(written - writing - used, used))'  BY WaitingIsRun, PTL
  <2>2. Waiting' = Run(written' - writing' - used', used')  BY <2>1 DEF Run
  <2>3. written' - writing' - used' = written - used'  BY <1>1 DEF IInv, BufferTypes
  <2>. QED  BY <2>2, <2>3
<1>5. Waiting \o Run(p, n) = Run(p - used, used + n)
  <2>1. p - used \in Int /\ (p - used) + used = p /\ used \in Nat  BY <1>1
  <2>2. Run(p - used, used) \o Run((p - used) + used, n) = Run(p - used, used + n)
    <3>. HIDE DEF n, p
    <3>. QED  BY <2>1, <1>1, RunConcat
  <2>. QED  BY <1>3, <2>1, <2>2
<1>6. Waiting' = Queue!Newest(Waiting \o Run(p, n))
  <2>. DEFINE a == p - used
              m == used + n
              s == Run(a, m)
  <2>1. a \in Int /\ m \in Nat  BY <1>1
  <2>2. Len(s) = m  
    <3>. HIDE DEF a, m
    <3>. QED  BY <2>1, RunIsSeq
  <2>3. Queue!Newest(s) = IF m <= High THEN s ELSE SubSeq(s, m - High + 1, m)
    <3>. HIDE DEF s, m
    <3>. QED  BY <2>2 DEF Queue!Newest
  <2>4. CASE m <= High
    <3>1. used' = m /\ written - m = a  BY <2>4, <1>1, <1>2 DEF IInv, BufferTypes
    <3>. HIDE DEF m, a
    <3>2. Waiting' = s  BY <1>4, <3>1
    <3>. QED  BY <1>5, <2>3, <2>4, <3>2 DEF m, a
  <2>5. CASE ~(m <= High)
    <3>1. /\ used' = High /\ m - High + 1 \in 1 .. m + 1 /\ m \in (m - High + 1) - 1 .. m
          /\ a + (m - High + 1) - 1 = written - High /\ m - (m - High + 1) + 1 = High
      BY <2>5, <1>1, <1>2, HighPositive DEF IInv, BufferTypes
    <3>2. SubSeq(s, m - High + 1, m) = Run(written - High, High)
      <4>. HIDE DEF a, m
      <4>1. SubSeq(s, m - High + 1, m) = Run(a + (m - High + 1) - 1, m - (m - High + 1) + 1)
        BY <2>1, <3>1, RunSub
      <4>. QED  BY <3>1, <4>1
    <3>. HIDE DEF m, s
    <3>3. Queue!Newest(s) = Run(written - High, High)  BY <2>3, <2>5, <3>2
    <3>4. Waiting' = Run(written - High, High)  BY <1>4, <3>1
    <3>. QED  BY <1>5, <3>3, <3>4 DEF m, s
  <2>. QED  BY <2>4, <2>5
<1>7. Queue!Packet(n) = Run(p, n)  BY DEF Queue!Packet, Run
<1>8. written' - writing' = (written - writing) + n  BY <1>1 DEF IInv, BufferTypes
<1>. HIDE DEF n, p
<1>. QED  BY <1>1, <1>6, <1>7, <1>8 DEF Queue!Enqueue, Waiting

(* A Read that returns frames is a Dequeue of as many. *)
LEMMA ReadDequeues ==
  ASSUME IInv, IInv', NEW n \in ReadSizes, ReadFrames(n)
  PROVE  Queue!Dequeue
<1>. DEFINE a == written - writing - used
<1>1. /\ n \in Nat /\ n > 0 /\ n <= used /\ used \in Nat /\ a \in Int
      /\ used' = used - n /\ UNCHANGED <<written, writing>>
  BY JitterAssumption DEF IInv, BufferTypes, ReadFrames, readLocked
<1>2. Waiting = Run(a, used)  BY WaitingIsRun
<1>3. Waiting' = Run(a + n, used - n)
  <2>1. (IInv => Waiting = Run(written - writing - used, used))'  BY WaitingIsRun, PTL
  <2>2. Waiting' = Run(written' - writing' - used', used')  BY <2>1 DEF Run
  <2>3. written' - writing' - used' = a + n  BY <1>1 DEF IInv, BufferTypes
  <2>. QED  BY <1>1, <2>2, <2>3
<1>4. latest' = Run(a, n)
  <2>1. latest' = [i \in 1 .. n |-> buf[(read + i - 1) % High]]
    BY DEF ReadFrames, readLocked
  <2>2. \A i \in 1 .. n : buf[(read + i - 1) % High] = a + i - 1
    <3>. TAKE i \in 1 .. n
    <3>1. i \in 1 .. used  BY <1>1
    <3>2. Waiting[i] = buf[(read + i - 1) % High]  BY <3>1 DEF Waiting
    <3>3. Run(a, used)[i] = a + i - 1  BY <3>1 DEF Run
    <3>. QED  BY <1>2, <3>2, <3>3
  <2>. HIDE DEF a
  <2>. QED  BY <2>1, <2>2, Zenon DEF Run
<1>. HIDE DEF a
<1>5. Len(Waiting) = used  BY <1>1, <1>2, RunIsSeq
<1>6. n \in 1 .. Len(Waiting)  BY <1>1, <1>5
<1>7. latest' = SubSeq(Waiting, 1, n)
  <2>1. SubSeq(Run(a, used), 1, n) = Run(a + 1 - 1, n - 1 + 1)
    <3>1. 1 \in 1 .. used + 1 /\ n \in 1 - 1 .. used  BY <1>1
    <3>. QED  BY <1>1, <3>1, RunSub
  <2>2. a + 1 - 1 = a /\ n - 1 + 1 = n  BY <1>1
  <2>. QED  BY <1>2, <1>4, <2>1, <2>2
<1>8. Waiting' = SubSeq(Waiting, n + 1, Len(Waiting))
  <2>1. SubSeq(Run(a, used), n + 1, used) = Run(a + (n + 1) - 1, used - (n + 1) + 1)
    <3>1. n + 1 \in 1 .. used + 1 /\ used \in (n + 1) - 1 .. used  BY <1>1
    <3>. QED  BY <1>1, <3>1, RunSub
  <2>2. a + (n + 1) - 1 = a + n /\ used - (n + 1) + 1 = used - n  BY <1>1
  <2>. QED  BY <1>2, <1>3, <1>5, <2>1, <2>2
<1>9. written' - writing' = written - writing  BY <1>1
<1>. QED  BY <1>6, <1>7, <1>8, <1>9 DEF Queue!Dequeue, Waiting

(* Every step of the ring is a step of the queue or changes nothing of it. *)
LEMMA StepRefines ==
  IInv /\ IInv' /\ PacketOnItsWay /\ [BufferNext]_bufferVars
    => [Queue!Next]_<<written - writing, Waiting, latest>>
<1>. SUFFICES ASSUME IInv, IInv', PacketOnItsWay, [BufferNext]_bufferVars
              PROVE  [Queue!Next]_<<written - writing, Waiting, latest>>
  OBVIOUS
<1>1. CASE Write  BY <1>1, WriteEnqueues DEF Queue!Next
<1>2. ASSUME NEW n \in WriteSizes, lock(n)
      PROVE  UNCHANGED <<written - writing, Waiting, latest>>
  <2>1. writing = 0 /\ writing' = n /\ written' = written + n /\ n \in Nat
        /\ UNCHANGED <<buf, read, used, latest>>
    BY <1>2, JitterAssumption DEF lock
  <2>2. written' - writing' = written - writing  BY <2>1 DEF IInv, BufferTypes
  <2>. QED  BY <2>1, <2>2 DEF Waiting
<1>3. ASSUME silence PROVE Queue!Silence
  BY <1>3 DEF silence, Queue!Silence
<1>4. ASSUME NEW n \in ReadSizes, Read(n) PROVE Queue!Next
  <2>1. CASE ReadFrames(n)  BY <2>1, ReadDequeues DEF Queue!Next
  <2>2. CASE ~ReadFrames(n)
    <3>1. silence  BY <1>4, <2>2 DEF Read, ReadContended, ReadUnprimed, ReadShort
    <3>. QED  BY <1>3, <3>1 DEF Queue!Next
  <2>. QED  BY <2>1, <2>2
<1>5. CASE UNCHANGED bufferVars  BY <1>5 DEF bufferVars, Waiting
<1>. QED  BY <1>1, <1>2, <1>4, <1>5 DEF BufferNext

(* The ring, for every size, target and packet, implements the drop-oldest *)
(* playout queue: the player never gets a frame the queue would not have   *)
(* given it, however Write and Read contend and the ring wraps.            *)
THEOREM RingImplementsQueue == BufferSpec => RingIsQueue
<1>1. BufferInit => Queue!Init
  <2>. SUFFICES ASSUME BufferInit PROVE Queue!Init  OBVIOUS
  <2>1. written - writing = 0 /\ latest = <<>> /\ used = 0  BY DEF BufferInit
  <2>2. [i \in 1 .. used |-> buf[(read + i - 1) % High]] = <<>>  BY <2>1
  <2>. QED  BY <2>1, <2>2 DEF Queue!Init
<1>2. IInv /\ IInv' /\ PacketOnItsWay /\ [BufferNext]_bufferVars
        => [Queue!Next]_<<written - writing, Waiting, latest>>
  BY StepRefines
<1>3. [Queue!Next]_<<written - writing, Waiting, latest>>
        => [Queue!Next]_<<written - writing, [i \in 1 .. used |-> buf[(read + i - 1) % High]], latest>>
  BY DEF Waiting
<1>. QED  BY <1>1, <1>2, <1>3, IInvHolds, PacketHolds, PTL DEF BufferSpec, RingIsQueue, Queue!Spec
=============================================================================
