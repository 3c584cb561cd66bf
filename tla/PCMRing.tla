------------------------------ MODULE PCMRing ------------------------------
(***************************************************************************)
(* The phone's ring between the network thread and the render callback     *)
(* (Engine/PCMRing.swift), which resamples as it drains: an output frame   *)
(* interpolates two neighbouring source frames, and the read position      *)
(* advances by a ratio near one.  Positions within a frame are in units of *)
(* 1/Scale.  The producer waits for the lock, the callback only tries it.  *)
(* A source frame is known by its place in the producer's stream; sizes    *)
(* are frames, since write cuts a partial frame off before it locks.       *)
(***************************************************************************)
EXTENDS Integers, Sequences

CONSTANTS
  Frames,       \* the ring's size
  Scale,        \* steps of the fractional position within a frame
  Ratios,       \* drift ratios, in 1/Scale of a source frame per output frame
  Packets,      \* frames of one write
  Callbacks,    \* frames of one render callback
  MaxFrames     \* bound: frames written in one behaviour

VARIABLES
  buf, readPos, used,
  dropped,      \* droppedFramesCount
  writing,      \* frames of the write that holds the lock, 0 when none does
  phase,        \* the callback's fractional position
  written,      \* history: frames given to write
  consumed,     \* history: frames drained
  cleared,      \* history: frames that reset threw away
  out           \* history: the source frame pairs of the latest callback

vars == <<buf, readPos, used, dropped, writing, phase, written, consumed, cleared, out>>

(* The source always advances, and a packet fits the ring. *)
RingSizes ==
  /\ Frames \in Nat \ {0} /\ Scale \in Nat \ {0} /\ Ratios \subseteq Nat \ {0}
  /\ Packets \subseteq 1 .. Frames /\ Callbacks \subseteq Nat

Slots == 0 .. Frames - 1

Init ==
  /\ buf = [s \in Slots |-> 0]
  /\ readPos = 0 /\ used = 0 /\ dropped = 0 /\ writing = 0 /\ phase = 0
  /\ written = 0 /\ consumed = 0 /\ cleared = 0 /\ out = <<>>

-----------------------------------------------------------------------------
lock(n) ==
  /\ writing = 0 /\ written + n <= MaxFrames
  /\ writing' = n /\ written' = written + n
  /\ UNCHANGED <<buf, readPos, used, dropped, phase, consumed, cleared, out>>

free == Frames - used

(* write, under the lock: room first (consumeLocked), then writeLocked. *)
write ==
  LET drop == IF writing > free THEN writing - free ELSE 0
      r    == (readPos + drop) % Frames
  IN /\ writing # 0 /\ writing' = 0
     /\ buf' = [s \in Slots |->
                  LET i == (s - r - (used - drop)) % Frames
                  IN IF i < writing THEN written - writing + i ELSE buf[s]]
     /\ readPos' = r
     /\ used' = used - drop + writing
     /\ dropped' = dropped + drop
     /\ UNCHANGED <<phase, written, consumed, cleared, out>>

-----------------------------------------------------------------------------
(* The lock is busy: silence. *)
DrainContended(n) == writing # 0 /\ out' = <<>> /\ UNCHANGED <<buf, readPos, used, dropped,
                       writing, phase, written, consumed, cleared>>

producibleToLast(n, ratio) ==
  CHOOSE k \in 0 .. n :
    /\ \A j \in 0 .. k - 1 : (phase + j * ratio) \div Scale <= used - 1
    /\ k = n \/ (phase + k * ratio) \div Scale > used - 1

(* The output frames for which both neighbours are in the ring. *)
producible(n, ratio) ==
  CHOOSE k \in 0 .. n :
    /\ \A j \in 0 .. k - 1 : (phase + j * ratio) \div Scale + 1 <= used - 1
    /\ k = n \/ (phase + k * ratio) \div Scale + 1 > used - 1

source(i) == buf[(readPos + i) % Frames]

(* Interpolate k frames and consume the whole source frames passed. *)
drain(k, ratio) ==
  LET pos  == phase + k * ratio
      n    == IF pos \div Scale > used THEN used ELSE pos \div Scale
  IN /\ out' = [j \in 1 .. k |->
                  LET i == (phase + (j - 1) * ratio) \div Scale IN <<source(i), source(i + 1)>>]
     /\ phase' = pos % Scale
     /\ readPos' = (readPos + n) % Frames
     /\ used' = used - n
     /\ consumed' = consumed + n

(* tryDrainAdvanced: an empty ring is an underrun. *)
tryDrainAdvanced(n, ratio) ==
  /\ writing = 0
  /\ IF used < 1 THEN out' = <<>> /\ UNCHANGED <<readPos, used, phase, consumed>>
                 ELSE drain(producible(n, ratio), ratio)
  /\ UNCHANGED <<buf, dropped, writing, written, cleared>>

(* reset, from the watchdog, disconnect or a new stream's HELLO. *)
reset ==
  /\ writing = 0 /\ used > 0
  /\ readPos' = 0 /\ used' = 0 /\ cleared' = cleared + used
  /\ UNCHANGED <<buf, dropped, writing, phase, written, consumed, out>>

Next ==
  \/ write \/ reset
  \/ \E n \in Packets : lock(n)
  \/ \E n \in Callbacks : DrainContended(n) \/ \E ratio \in Ratios : tryDrainAdvanced(n, ratio)

Spec == Init /\ [][Next]_vars

-----------------------------------------------------------------------------
(* The render callback interpolates between neighbours of the stream only: *)
(* never between a fresh frame and a stale slot of the ring, at the wrap,  *)
(* after a drop of the oldest frames, after a reset or at any drift ratio  *)
(* (tryDrainAdvanced's guard on the frames it needs).                      *)
InterpolatesNeighbours ==
  \A j \in DOMAIN out :
    /\ out[j][2] = out[j][1] + 1
    /\ j > 1 => out[j][1] >= out[j - 1][1]

(* Every frame given to write was drained, is counted as dropped, was      *)
(* cleared by a reset or waits: what resampling consumes is what it passed *)
(* over (droppedFramesCount, usedBytes).                                   *)
FramesAccounted == written = writing + used + dropped + consumed + cleared

(* The phone's drift correction plays between neighbours of the stream and *)
(* accounts for every frame.                                               *)
PhoneIntact == InterpolatesNeighbours /\ FramesAccounted
=============================================================================
