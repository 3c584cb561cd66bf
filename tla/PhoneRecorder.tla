---------------------------- MODULE PhoneRecorder ----------------------------
(***************************************************************************)
(* The phone's WAV recorder (Engine/SessionRecorder.swift): append on the  *)
(* threads that bring sound, drain on a serial queue, start and stop on    *)
(* the main thread.  The recorder's lock is given up before a drain is put *)
(* on the queue, by append and by stop, so the others may come in between. *)
(* Sound is numbered in the order append is given it.                      *)
(***************************************************************************)
EXTENDS Integers, Sequences, SequencesExt

CONSTANTS
  Appenders,      \* threads that call append
  MaxPending,     \* maxPendingBytes, in appends
  MaxAppends,     \* bound: appends of one behaviour
  MaxRecordings   \* bound: recordings of one behaviour

VARIABLES
  active,         \* recording, the recorder's own flag
  file,           \* the open recording, 0 when none is open
  pending, scheduled,
  posting,        \* calls of append that have still to put their drain on the queue
  ioQueue,        \* drains on the queue, the running one included
  ahead,          \* of these, how many stop waits for
  chunk,          \* what the running drain took, with its file
  stopping,       \* stop: not running, about to call ioQueue.sync, or in it
  appended,       \* history: appends taken
  recordings,     \* history: recordings started
  takenBy,        \* history: the recording each append was for
  wavs,           \* history: the sound in each recording's file
  lost            \* history: appends dropped by the cap or a failed write

recorderVars ==
  <<active, file, pending, scheduled, posting, ioQueue, ahead, chunk, stopping, appended,
    recordings, takenBy, wavs, lost>>

Idle == [file |-> 0, sound |-> <<>>]

RecorderInit ==
  /\ active = FALSE /\ file = 0 /\ pending = <<>> /\ scheduled = FALSE
  /\ posting = 0 /\ ioQueue = 0 /\ ahead = 0 /\ chunk = Idle /\ stopping = "no"
  /\ appended = 0 /\ recordings = 0 /\ takenBy = <<>>
  /\ wavs = [r \in 1 .. MaxRecordings |-> <<>>] /\ lost = {}

-----------------------------------------------------------------------------
(* start, whose first act, stop, has been done. *)
startRecording ==
  /\ ~active /\ stopping = "no" /\ file = 0 /\ recordings < MaxRecordings
  /\ recordings' = recordings + 1 /\ file' = recordings + 1
  /\ pending' = <<>> /\ scheduled' = FALSE /\ active' = TRUE
  /\ UNCHANGED <<posting, ioQueue, ahead, chunk, stopping, appended, takenBy, wavs, lost>>

(* append under the lock. *)
append ==
  LET all == Append(pending, appended + 1)
  IN /\ active /\ appended < MaxAppends /\ posting < Appenders
     /\ appended' = appended + 1 /\ takenBy' = Append(takenBy, file)
     /\ pending' = IF Len(all) > MaxPending THEN Tail(all) ELSE all
     /\ lost' = IF Len(all) > MaxPending THEN lost \union {Head(all)} ELSE lost
     /\ scheduled' = TRUE
     /\ posting' = IF scheduled THEN posting ELSE posting + 1
     /\ UNCHANGED <<active, file, ioQueue, ahead, chunk, stopping, recordings, wavs>>

(* append's ioQueue.async, after the lock is given up. *)
postDrain ==
  /\ posting > 0 /\ posting' = posting - 1 /\ ioQueue' = ioQueue + 1
  /\ UNCHANGED <<active, file, pending, scheduled, ahead, chunk, stopping, appended, recordings,
                 takenBy, wavs, lost>>

(* stop of a recording, its first turn under the lock. *)
beginStop ==
  /\ active /\ stopping = "no"
  /\ active' = FALSE /\ stopping' = "unlocked"
  /\ UNCHANGED <<file, pending, scheduled, posting, ioQueue, ahead, chunk, appended, recordings,
                 takenBy, wavs, lost>>

(* ioQueue.sync puts a drain of its own behind those there. *)
syncStop ==
  /\ stopping = "unlocked" /\ stopping' = "sync"
  /\ ioQueue' = ioQueue + 1 /\ ahead' = ioQueue + 1
  /\ UNCHANGED <<active, file, pending, scheduled, posting, chunk, appended, recordings,
                 takenBy, wavs, lost>>

(* Mutant: the drain is put on the queue by async. *)
doesNotWait == TRUE

(* ioQueue.sync comes back: its drain has ended, though not those that a   *)
(* late append has put behind it.                                          *)
drained == ahead = 0

endStop ==
  /\ stopping = "sync" /\ drained
  /\ stopping' = "no" /\ file' = 0 /\ pending' = <<>> /\ scheduled' = FALSE /\ ahead' = 0
  /\ UNCHANGED <<active, posting, ioQueue, chunk, appended, recordings, takenBy, wavs, lost>>

-----------------------------------------------------------------------------
(* drain: one turn of its loop under the lock.  That it meets sound but no *)
(* file, which would drop the sound, does not happen.                      *)
drainTakes ==
  /\ ioQueue > 0 /\ chunk = Idle /\ pending # <<>> /\ file # 0
  /\ chunk' = [file |-> file, sound |-> pending] /\ pending' = <<>>
  /\ UNCHANGED <<active, file, scheduled, posting, ioQueue, ahead, stopping, appended, recordings,
                 takenBy, wavs, lost>>

drainEnds ==
  /\ ioQueue > 0 /\ chunk = Idle /\ pending = <<>>
  /\ ioQueue' = ioQueue - 1 /\ ahead' = (IF ahead > 0 THEN ahead - 1 ELSE 0)
  /\ scheduled' = FALSE
  /\ UNCHANGED <<active, file, pending, posting, chunk, stopping, appended, recordings, takenBy,
                 wavs, lost>>

(* write, outside the lock; a failed write drops the chunk. *)
writeChunk(ok) ==
  /\ chunk # Idle /\ chunk' = Idle
  /\ wavs' = IF ok THEN [wavs EXCEPT ![chunk.file] = @ \o chunk.sound] ELSE wavs
  /\ lost' = IF ok THEN lost ELSE lost \union ToSet(chunk.sound)
  /\ UNCHANGED <<active, file, pending, scheduled, posting, ioQueue, ahead, stopping, appended,
                 recordings, takenBy>>

RecorderNext ==
  \/ startRecording \/ append \/ postDrain \/ beginStop \/ syncStop \/ endStop
  \/ drainTakes \/ drainEnds
  \/ \E ok \in BOOLEAN : writeChunk(ok)

RecorderSpec == RecorderInit /\ [][RecorderNext]_recorderVars

-----------------------------------------------------------------------------
(* Sound in the order append was given it. *)
Increasing(s) == \A i, j \in DOMAIN s : i < j => s[i] < s[j]

(* The appends of recording r that were not dropped. *)
Kept(r) == {i \in 1 .. appended : takenBy[i] = r /\ i \notin lost}

(* A file that stop has closed holds, in order, all the sound appended to  *)
(* that recording and to no other, but for what the cap or a failed write  *)
(* dropped: a drain that a late append left to the next recording, a chunk *)
(* in the drain's hands while stop runs and the scheduled flag, reset with *)
(* a drain still to come, lose nothing and mix nothing (append, stop,      *)
(* drain).                                                                 *)
RecordingComplete ==
  \A r \in 1 .. recordings :
    r # file => Increasing(wavs[r]) /\ ToSet(wavs[r]) = Kept(r)
=============================================================================
