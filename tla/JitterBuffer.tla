---------------------------- MODULE JitterBuffer ----------------------------
(***************************************************************************)
(* The playback buffer of one v1 stream (mixer/jitterbuffer.go): a ring    *)
(* written by the network goroutine and read by the playback callback.     *)
(* Write waits for the mutex, Read only tries it.  Sizes and positions are *)
(* in audio frames (the code counts bytes, always whole frames); a frame   *)
(* is named by its position in the stream given to Write.                  *)
(***************************************************************************)
EXTENDS Integers, Sequences

CONSTANTS
  Target,     \* targetFrames: frames to collect before playback starts
  High,       \* highFrames: the ring's size
  WriteSizes, \* frames of one Write
  ReadSizes,  \* frames of one Read
  MaxWritten  \* bound: frames written in one behaviour

ASSUME JitterAssumption ==
  /\ Target \in Nat \ {0} /\ High \in Nat /\ Target <= High
  /\ WriteSizes \subseteq Nat \ {0} /\ ReadSizes \subseteq Nat \ {0}
  /\ MaxWritten \in Nat

VARIABLES
  buf,        \* the ring
  read, used, \* first unread slot, number of unread frames
  primed,
  discarded,  \* discardedFrames
  writing,    \* frames of the Write that holds the mutex, 0 when none does
  written,    \* history: frames given to Write
  returned,   \* history: frames Read has returned
  latest      \* history: the frames of the latest Read, <<>> for silence

bufferVars == <<buf, read, used, primed, discarded, writing, written, returned, latest>>

Slots == 0 .. High - 1

(* NewJitterBuffer *)
BufferInit ==
  /\ buf = [s \in Slots |-> 0]
  /\ read = 0 /\ used = 0 /\ primed = FALSE /\ discarded = 0
  /\ writing = 0 /\ written = 0 /\ returned = 0 /\ latest = <<>>

-----------------------------------------------------------------------------
(* Write, up to holding the mutex. *)
lock(n) ==
  /\ writing = 0 /\ written + n <= MaxWritten
  /\ writing' = n /\ written' = written + n
  /\ UNCHANGED <<buf, read, used, primed, discarded, returned, latest>>

(* The frames of a packet that Write keeps: its last High. *)
kept(n) == IF n > High THEN High ELSE n

dropOldestOffByOne(n) ==
  IF used + kept(n) > High + 1 THEN used + kept(n) - High ELSE 0

(* dropOldestLocked: the frames that make room for the packet. *)
dropOldest(n) ==
  IF used + kept(n) > High THEN used + kept(n) - High ELSE 0

(* writeLocked: the last m frames go to m slots from position at on. *)
writeLocked(at, m) ==
  buf' = [s \in Slots |->
            IF (s - at) % High < m THEN written - m + ((s - at) % High) ELSE buf[s]]

WriteForgetsOversize ==
  LET drop == dropOldest(writing)
      r == (read + drop) % High
  IN /\ writing # 0
     /\ writeLocked((r + used - drop) % High, kept(writing))
     /\ read' = r
     /\ used' = used - drop + kept(writing)
     /\ discarded' = discarded + drop
     /\ primed' = (primed \/ used' >= Target)
     /\ writing' = 0
     /\ UNCHANGED <<written, returned, latest>>

(* The rest of Write, under the mutex. *)
Write ==
  LET drop == dropOldest(writing)
      r == (read + drop) % High
  IN /\ writing # 0
     /\ writeLocked((r + used - drop) % High, kept(writing))
     /\ read' = r
     /\ used' = used - drop + kept(writing)
     /\ discarded' = discarded + (writing - kept(writing)) + drop
     /\ primed' = (primed \/ used' >= Target)
     /\ writing' = 0
     /\ UNCHANGED <<written, returned, latest>>

-----------------------------------------------------------------------------
(* Read returns silence and leaves the queue alone. *)
silence == latest' = <<>> /\ UNCHANGED <<buf, read, used, discarded, writing, written, returned>>

(* TryLock fails. *)
ReadContended(n) == writing # 0 /\ silence /\ UNCHANGED primed

ReadUnprimed(n) ==
  /\ writing = 0 /\ ~primed /\ used < Target
  /\ silence /\ UNCHANGED primed

(* A genuine underrun: collect Target frames again. *)
ReadShort(n) ==
  /\ writing = 0 /\ (primed \/ used >= Target) /\ used < n
  /\ silence /\ primed' = FALSE

readLockedNoWrap(n) ==
  /\ latest' = [i \in 1 .. n |-> buf[(read + i - 1) % High]]
  /\ read' = read + n
  /\ used' = used - n

readLocked(n) ==
  /\ latest' = [i \in 1 .. n |-> buf[(read + i - 1) % High]]
  /\ read' = (read + n) % High
  /\ used' = used - n

ReadFrames(n) ==
  /\ writing = 0 /\ (primed \/ used >= Target) /\ used >= n
  /\ readLocked(n)
  /\ primed' = TRUE
  /\ returned' = returned + n
  /\ UNCHANGED <<buf, discarded, writing, written>>

ReadNeverPrimes(n) ==
  \/ ReadContended(n)
  \/ writing = 0 /\ ~primed /\ silence /\ UNCHANGED primed
  \/ primed /\ (ReadShort(n) \/ ReadFrames(n))

Read(n) == ReadContended(n) \/ ReadUnprimed(n) \/ ReadShort(n) \/ ReadFrames(n)

BufferNext == Write \/ (\E n \in WriteSizes : lock(n)) \/ (\E n \in ReadSizes : Read(n))

BufferSpec == BufferInit /\ [][BufferNext]_bufferVars

(* The device asks for audio for as long as it plays, for any of the sizes *)
(* it uses, and a Write that has the mutex goes on to its end.             *)
BufferFairness == WF_bufferVars(Write) /\ \A n \in ReadSizes : WF_bufferVars(Read(n))

-----------------------------------------------------------------------------
BufferTypes ==
  /\ buf \in [Slots -> Nat] /\ read \in Slots /\ used \in 0 .. High
  /\ primed \in BOOLEAN /\ discarded \in Nat
  /\ writing \in Nat /\ written \in Nat /\ returned \in Nat /\ latest \in Seq(Nat)

(* The ring holds the newest frames, each once and in order: what Read     *)
(* will return is the tail of the stream given to Write, whatever was      *)
(* dropped, wrapped or refused in between (dropOldestLocked, writeLocked,  *)
(* readLocked).                                                            *)
RingHoldsNewest ==
  \A i \in 0 .. used - 1 : buf[(read + i) % High] = written - writing - used + i

(* No frame vanishes uncounted: every frame given to Write was played, is  *)
(* counted as discarded, is queued or belongs to the Write under way       *)
(* (discardedFrames feeds Stats).                                          *)
FramesAccounted == written = returned + discarded + used + writing

(* The ring implements the drop-oldest queue; a Write takes effect when it *)
(* ends.                                                                   *)
Queue == INSTANCE PlayoutQueue WITH
  Capacity <- High, PacketSizes <- WriteSizes, out <- latest,
  produced <- written - writing,
  queue <- [i \in 1 .. used |-> buf[(read + i - 1) % High]]
RingIsQueue == Queue!Spec

(* Audio that could be played is played: a buffer that has reached its     *)
(* target does not stay there while the device asks for frames (primed and *)
(* the underrun rule of Read).                                             *)
FullBufferPlays == used >= Target ~> used < Target
=============================================================================
