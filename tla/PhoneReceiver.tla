---------------------------- MODULE PhoneReceiver ----------------------------
(***************************************************************************)
(* The phone's v1 receiver (Engine/ReceiverModel.swift): the audio thread, *)
(* which binds the first sender that is heard and gives it up after three  *)
(* silent seconds; the main thread, which runs the user's commands and the *)
(* closures other threads post to it; the utility timer.  A datagram is    *)
(* handled in three steps, since disconnect and stop on the main thread    *)
(* come between reading the binding, writing it and posting the stream's   *)
(* closure.  A datagram that does not decode, or that the manual address   *)
(* filter refuses, is one that never came.                                 *)
(*                                                                         *)
(* Timing assumption: a stopped audio thread leaves its ten millisecond    *)
(* poll before the user starts the receiver again.                         *)
(***************************************************************************)
EXTENDS Integers, Sequences

CONSTANTS
  Senders,
  MaxPosted,      \* bound: closures of other threads waiting for the main thread
  MaxEvents       \* bound: commands of the user and comings and goings of senders

VARIABLES
  running, loop,  \* loop: where the audio thread is
  datagram,       \* the datagram in hand, [from, kind]
  readAddr,       \* boundAddr, the binding as the thread read it
  senderAddr,     \* Nobody or a sender
  silent,         \* lastPacketUptime is more than three seconds ago
  main,           \* the main queue
  state, senderName,
  recording, external,  \* external: v2 sound came within two seconds
  streaming,      \* the senders that stream to the phone at present
  events

receiverVars ==
  <<running, loop, datagram, readAddr, senderAddr, silent, main, state, senderName,
    recording, external, streaming, events>>

Nobody == "nobody"
NoDatagram == [from |-> Nobody, kind |-> "none"]
Post(c) == main' = Append(main, c)
room == Len(main) < MaxPosted
Closure(what, s) == [what |-> what, from |-> s]

ReceiverInit ==
  /\ running = FALSE /\ loop = "off" /\ datagram = NoDatagram /\ readAddr = Nobody
  /\ senderAddr = Nobody /\ silent = TRUE /\ main = <<>>
  /\ state = "idle" /\ senderName = Nobody
  /\ recording = FALSE /\ external = FALSE /\ streaming = {} /\ events = 0

-----------------------------------------------------------------------------
(* The user, on the main thread. *)
event == events < MaxEvents /\ events' = events + 1

start ==
  /\ event /\ ~running /\ loop = "off"
  /\ running' = TRUE /\ loop' = "poll"
  /\ Post(Closure("waiting", Nobody))
  /\ UNCHANGED <<datagram, readAddr, senderAddr, silent, state, senderName, recording,
                 external, streaming>>

stop ==
  /\ event /\ running
  /\ running' = FALSE /\ senderAddr' = Nobody
  /\ Post(Closure("idle", Nobody))
  /\ UNCHANGED <<loop, datagram, readAddr, silent, state, senderName, recording,
                 external, streaming>>

(* The button is there while a stream is shown. *)
disconnect ==
  /\ event /\ running /\ state = "streaming"
  /\ senderAddr' = Nobody
  /\ Post(Closure("forget", Nobody))
  /\ UNCHANGED <<running, loop, datagram, readAddr, silent, state, senderName, recording,
                 external, streaming>>

toggleRecording ==
  /\ event /\ recording' = ~recording
  /\ UNCHANGED <<running, loop, datagram, readAddr, senderAddr, silent, main, state,
                 senderName, external, streaming>>

-----------------------------------------------------------------------------
(* Senders and the v2 engine come and go. *)
SenderTurns(s) ==
  /\ event
  /\ streaming' = IF s \in streaming THEN streaming \ {s} ELSE streaming \union {s}
  /\ UNCHANGED <<running, loop, datagram, readAddr, senderAddr, silent, main, state,
                 senderName, recording, external>>

(* feedExternalPCM starts or has been quiet for two seconds. *)
ExternalTurns ==
  /\ event /\ external' = ~external
  /\ UNCHANGED <<running, loop, datagram, readAddr, senderAddr, silent, main, state,
                 senderName, recording, streaming>>

(* Three seconds without a packet that refreshes lastPacketUptime. *)
ThreeSecondsPass ==
  /\ ~silent /\ senderAddr \notin streaming /\ datagram = NoDatagram
  /\ silent' = TRUE
  /\ UNCHANGED <<running, loop, datagram, readAddr, senderAddr, main, state, senderName,
                 recording, external, streaming, events>>

-----------------------------------------------------------------------------
(* runAudio *)
loopEnds ==
  /\ loop = "poll" /\ ~running /\ loop' = "off"
  /\ UNCHANGED <<running, datagram, readAddr, senderAddr, silent, main, state, senderName,
                 recording, external, streaming, events>>

pollTimesOut ==
  /\ loop = "poll" /\ running /\ loop' = "watch"
  /\ UNCHANGED <<running, datagram, readAddr, senderAddr, silent, main, state, senderName,
                 recording, external, streaming, events>>

heedsAll(s) == TRUE
heeds(s) == senderAddr \in {Nobody, s}

(* handleDatagram up to its switch: the binding is read under the lock. *)
receive(s, kind) ==
  /\ loop = "poll" /\ running /\ s \in streaming
  /\ IF heeds(s)
     THEN /\ datagram' = [from |-> s, kind |-> kind] /\ readAddr' = senderAddr
          /\ loop' = "handle"
     ELSE loop' = "watch" /\ UNCHANGED <<datagram, readAddr>>
  /\ UNCHANGED <<running, senderAddr, silent, main, state, senderName, recording, external,
                 streaming, events>>

handleHandshake ==
  /\ loop = "handle" /\ datagram.kind = "hello"
  /\ senderAddr' = datagram.from /\ silent' = FALSE /\ loop' = "configure"
  /\ UNCHANGED <<running, datagram, readAddr, main, state, senderName, recording,
                 external, streaming, events>>

(* configureStream posts what the main thread shows. *)
configureStream ==
  /\ loop = "configure" /\ room
  /\ Post(Closure("streaming", datagram.from))
  /\ loop' = "watch" /\ datagram' = NoDatagram
  /\ UNCHANGED <<running, readAddr, senderAddr, silent, state, senderName, recording,
                 external, streaming, events>>

handleAudio ==
  /\ loop = "handle" /\ datagram.kind = "audio"
  /\ senderAddr' = IF readAddr = Nobody THEN datagram.from ELSE senderAddr
  /\ silent' = FALSE /\ loop' = "watch" /\ datagram' = NoDatagram
  /\ UNCHANGED <<running, readAddr, main, state, senderName, recording, external,
                 streaming, events>>

keepsBinding == UNCHANGED senderAddr
dropBinding == senderAddr' = Nobody

(* The watchdog, under senderLock. *)
watchdog ==
  /\ loop = "watch" /\ loop' = "poll" /\ room
  /\ IF senderAddr # Nobody /\ silent
     THEN dropBinding /\ Post(Closure("interrupted", Nobody))
     ELSE UNCHANGED <<senderAddr, main>>
  /\ UNCHANGED <<running, datagram, readAddr, silent, state, senderName, recording,
                 external, streaming, events>>

(* housekeeping, by the thread or the timer, as far as recording goes; the *)
(* second of two passes before the main thread runs posts the same again.  *)
housekeeping ==
  /\ running /\ room /\ \A i \in DOMAIN main : main[i].what # "autoStop"
  /\ Post(Closure("autoStop", Nobody))
  /\ UNCHANGED <<running, loop, datagram, readAddr, senderAddr, silent, state, senderName,
                 recording, external, streaming, events>>

-----------------------------------------------------------------------------
(* The main thread runs the oldest closure. *)
shows == [waiting |-> "waiting", idle |-> "idle", forget |-> "waiting",
          interrupted |-> "interrupted", streaming |-> "streaming"]

show(c) ==
  /\ c.what \in DOMAIN shows
  /\ state' = shows[c.what]
  /\ senderName' = IF c.what \in {"forget", "interrupted", "streaming"} THEN c.from ELSE senderName
  /\ UNCHANGED recording

autoStop(c) ==
  /\ c.what = "autoStop"
  /\ recording' = (recording /\ (state = "streaming" \/ external))
  /\ UNCHANGED <<state, senderName>>

mainRuns ==
  /\ main # <<>> /\ main' = Tail(main)
  /\ show(Head(main)) \/ autoStop(Head(main))
  /\ UNCHANGED <<running, loop, datagram, readAddr, senderAddr, silent, external,
                 streaming, events>>

audioThread == loopEnds \/ handleHandshake \/ configureStream \/ handleAudio \/ watchdog

ReceiverNext ==
  \/ start \/ stop \/ disconnect \/ toggleRecording \/ ExternalTurns \/ ThreeSecondsPass
  \/ audioThread \/ pollTimesOut \/ housekeeping \/ mainRuns
  \/ \E s \in Senders : SenderTurns(s) \/ \E k \in {"hello", "audio"} : receive(s, k)

ReceiverSpec == ReceiverInit /\ [][ReceiverNext]_receiverVars

-----------------------------------------------------------------------------
(* The first active sender wins: a binding is given up before another PC   *)
(* is bound, although handleDatagram reads the binding, lets go of the     *)
(* lock and binds later, with the main thread unbinding in between.        *)
FirstSenderWins ==
  [][senderAddr' # senderAddr => Nobody \in {senderAddr, senderAddr'}]_receiverVars

(* When one PC is left streaming to a running receiver, the phone ends up  *)
(* bound to it and shows it, whoever was bound before and however the      *)
(* watchdog, disconnect and the posted closures interleave.                *)
RemainingSenderHeard ==
  \A s \in Senders :
    <>[](running /\ streaming = {s})
      => <>[](senderAddr = s /\ state = "streaming" /\ senderName = s)

(* A recording is finalized once the stream has ended.                     *)
RecordingEnds == <>[](running /\ streaming = {} /\ ~external) => <>[]~recording
=============================================================================
