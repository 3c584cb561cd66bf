----------------------------- MODULE AudioRing -----------------------------
(***************************************************************************)
(* The PCM ring between an audio device's callback and a goroutine         *)
(* (audio/ring.go).  The callback only tries the mutex (TryWrite); the     *)
(* consumer waits for it (Read).  Sizes are bytes; the ring moves whole    *)
(* quanta (audio frames) only.  A byte is known by its place in the        *)
(* callback's stream and by its offset within its audio frame.             *)
(***************************************************************************)
EXTENDS Integers, Sequences

CONSTANTS
  Quantum,      \* quantum: bytes of one audio frame
  SizeBytes,    \* sizeBytes, as NewRing is given it
  Blocks,       \* bytes of one TryWrite
  Reads,        \* bytes of one Read
  MaxBytes      \* bound: bytes written in one behaviour

VARIABLES
  buf,
  read, used,
  dropped,
  reading,   \* bytes asked for by the Read that holds the mutex, 0 when none does
  written,   \* history: bytes given to TryWrite
  ragged,    \* history: bytes of refused blocks beyond their whole quanta
  taken,     \* history: bytes read
  out        \* history: the bytes of the latest Read

ringVars == <<buf, read, used, dropped, reading, written, ragged, taken, out>>

(* A quantum is not empty, and nobody reads or writes less than nothing. *)
RingSizes ==
  Quantum \in Nat \ {0} /\ SizeBytes \in Nat /\ Blocks \subseteq Nat /\ Reads \subseteq Nat

alignedLen(n) == n - (n % Quantum)

alignUp(n) == IF n % Quantum = 0 THEN n ELSE n + Quantum - (n % Quantum)

(* NewRing: whole quanta, at least one. *)
size == IF SizeBytes < Quantum THEN Quantum ELSE alignedLen(SizeBytes)

Slots == 0 .. size - 1

RingInit ==
  /\ buf = [s \in Slots |-> [at |-> 0, phase |-> 0]]
  /\ read = 0 /\ used = 0 /\ dropped = 0 /\ reading = 0
  /\ written = 0 /\ ragged = 0 /\ taken = 0 /\ out = <<>>

-----------------------------------------------------------------------------
(* The mutex is taken: the block is lost; only its whole quanta are        *)
(* counted.                                                                *)
TryWriteContended(n) ==
  /\ reading # 0
  /\ dropped' = dropped + alignedLen(n)
  /\ ragged' = ragged + (n % Quantum)
  /\ written' = written + n
  /\ UNCHANGED <<buf, read, used, reading, taken, out>>

(* The bytes at offsets lo .. lo + m - 1 of the block go to the end of the *)
(* ring, whose first unread slot is now r.                                 *)
copyBytes(r, u, lo, m) ==
  buf' = [s \in Slots |->
            LET i == (s - r - u) % size
            IN IF i < m THEN [at |-> written + lo + i, phase |-> (lo + i) % Quantum]
                        ELSE buf[s]]

makeRoomWhenFull(n) == IF used < size THEN 0 ELSE n

(* The oldest bytes that make room, whole quanta. *)
makeRoom(n) ==
  LET drop == alignUp(n - (size - used))
  IN IF n <= size - used THEN 0 ELSE IF drop > used THEN used ELSE drop

(* Only whole quanta are stored. *)
keep(n) == alignedLen(n)

(* writeLocked: the tail of an oversize block, after the oldest bytes. *)
TryWriteLocked(n) ==
  LET kept == IF keep(n) > size THEN size ELSE keep(n)
      drop == makeRoom(kept)
      r    == (read + drop) % size
  IN /\ reading = 0
     /\ copyBytes(r, used - drop, keep(n) - kept, kept)
     /\ read' = r
     /\ used' = used - drop + kept
     /\ dropped' = dropped + (n - kept) + drop
     /\ written' = written + n
     /\ UNCHANGED <<reading, ragged, taken, out>>

TryWrite(n) ==
  /\ written + n <= MaxBytes
  /\ TryWriteContended(n) \/ TryWriteLocked(n)

-----------------------------------------------------------------------------
(* Read takes the mutex; the callback may come while it holds it. *)
lock(n) ==
  /\ reading = 0 /\ reading' = n
  /\ UNCHANGED <<buf, read, used, dropped, written, ragged, taken, out>>

readable(n) == LET a == alignedLen(n) IN IF a > used THEN alignedLen(used) ELSE a

readLocked ==
  LET n == readable(reading)
  IN /\ reading # 0 /\ reading' = 0
     /\ out' = [i \in 1 .. n |-> buf[(read + i - 1) % size]]
     /\ read' = (read + n) % size
     /\ used' = used - n
     /\ taken' = taken + n
     /\ UNCHANGED <<buf, dropped, written, ragged>>

RingNext == readLocked \/ (\E n \in Blocks : TryWrite(n)) \/ (\E n \in Reads : lock(n))

RingSpec == RingInit /\ [][RingNext]_ringVars

-----------------------------------------------------------------------------
(* What the ring holds and what was read from it, in stream order. *)
Unread == [i \in 1 .. used |-> buf[(read + i - 1) % size]]

(* The consumer always gets whole audio frames: neither a block that is    *)
(* not frame-aligned, nor a drop of the oldest bytes, nor a block larger   *)
(* than the ring shifts the channels of what follows (writeLocked,         *)
(* readLocked).                                                            *)
FramesStayWhole ==
  \A q \in {out, Unread} :
    \A i \in DOMAIN q :
      /\ q[i].phase = (i - 1) % Quantum
      /\ (i > 1 /\ q[i].phase # 0) => q[i].at = q[i - 1].at + 1

(* Every byte given to TryWrite was read, waits, or is counted as dropped, *)
(* except what a refused block has beyond its whole frames (TryWrite       *)
(* counts alignedLen of a block it refuses, writeLocked all it cuts off).  *)
BytesAccounted == written = taken + used + dropped + ragged

(* Audio stays in order, and nothing is handed out twice. *)
AudioInOrder ==
  LET q == out \o Unread
  IN \A i \in 2 .. Len(q) : q[i - 1].at < q[i].at

(* What comes out of the capture ring is what went in: whole audio frames, *)
(* in order, and every byte read, waiting or counted as dropped.           *)
CaptureIntact == FramesStayWhole /\ AudioInOrder /\ BytesAccounted
=============================================================================
