---------------------------- MODULE ClientMedia ----------------------------
(***************************************************************************)
(* The v2 receiver's media pipeline (engine/internal/engine/media.go): one *)
(* clientMedia, created when a stream starts, fed by mediaLoop with the    *)
(* datagrams of an unreliable network and drained by flushLoop's 2 ms      *)
(* ticker.  Both goroutines hold mediaM for a whole call, so accept and    *)
(* tick are atomic.                                                        *)
(*                                                                         *)
(* A frame is named by its position in the host's stream, a natural        *)
(* number; on the wire it carries that number modulo SeqMod (uint32 in the *)
(* code).  The decoded audio is abstracted to the frame's name.            *)
(***************************************************************************)
EXTENDS Integers, FiniteSets

CONSTANTS
  SeqMod,      \* number of wire sequence numbers (2^32 in the code)
  FutureCap,   \* frames the reorder window holds (64 in the code)
  Hold,        \* holdPeriod, in ticker periods of 2 ms
  First,       \* position of the first frame the host sends
  MaxSent,     \* bound: frames sent in one behaviour
  HasFEC       \* the codec implements FECDecoder (Opus builds)

ASSUME ConstantsAssumption ==
  /\ SeqMod \in Nat /\ SeqMod > 1 /\ SeqMod % 2 = 0
  /\ FutureCap \in Nat \ {0}
  /\ Hold \in Nat \ {0}
  /\ First \in Nat
  /\ MaxSent \in Nat
  /\ HasFEC \in BOOLEAN

VARIABLES
  sent,      \* position of the next frame the host sends
  inFlight,  \* frames in flight
  seen,      \* clientMedia.seen
  nextSeq,   \* clientMedia.nextSeq, a wire sequence number
  future,    \* clientMedia.future: wire sequence number -> frame
  sinceFlush,\* ticker periods since lastFlush, saturating at Hold
  sinceTick, \* TRUE when a ticker period has passed since the last tick
  gapAge,    \* history: ticker periods since the oldest held frame arrived
  nextPos,   \* history: position of the next frame handed to the consumer
  start,     \* history: position of the first frame handed over
  played,    \* history: <<position, frame>> of every real frame handed over
  concealed, \* history: positions handed over as concealment or FEC output
  accepted,  \* history: frames that entered the window or were played
  packetsSeen, latePackets, reorderedPackets, lossPackets,
  fecRecoveredFrames, maxBurstLoss

netVars   == <<sent, inFlight>>
timeVars  == <<sinceFlush, sinceTick, gapAge>>
statVars  == <<packetsSeen, latePackets, reorderedPackets, lossPackets,
               fecRecoveredFrames, maxBurstLoss>>
histVars  == <<nextPos, start, played, concealed, accepted>>
mediaVars == <<netVars, timeVars, seen, nextSeq, future, histVars, statVars>>

Half == SeqMod \div 2
Wire(f) == f % SeqMod

DeltaUnsigned(a, b) == (a - b) % SeqMod

(* int32(seq - nextSeq): the signed distance of two uint32 numbers. *)
Delta(a, b) == LET d == (a - b) % SeqMod IN IF d < Half THEN d ELSE d - SeqMod

Held == DOMAIN future

MediaInit ==
  /\ sent = First /\ inFlight = {}
  /\ seen = FALSE /\ nextSeq = 0
  /\ future = [k \in {} |-> 0]
  /\ sinceFlush = 0 /\ sinceTick = FALSE /\ gapAge = 0
  /\ nextPos = First /\ start = First /\ played = {} /\ concealed = {} /\ accepted = {}
  /\ packetsSeen = 0 /\ latePackets = 0 /\ reorderedPackets = 0
  /\ lossPackets = 0 /\ fecRecoveredFrames = 0 /\ maxBurstLoss = 0

(***************************************************************************)
(* flush(now, force).  held is the window, from the number of the next     *)
(* frame, pos its position.  The loop hands over the held run that starts  *)
(* at from; when forced it goes on, concealing each missing frame, until   *)
(* the window is empty.  n is the number of positions it covers.           *)
(***************************************************************************)
Slot(from, i) == (from + i) % SeqMod

flushCovers(held, from, force, n) ==
  IF force
  THEN /\ \A k \in DOMAIN held : (k - from) % SeqMod < n
       /\ n = 0 \/ Slot(from, n - 1) \in DOMAIN held
  ELSE /\ \A i \in 0 .. n - 1 : Slot(from, i) \in DOMAIN held
       /\ Slot(from, n) \notin DOMAIN held

(* The offsets the loop has to conceal, and those among them whose next    *)
(* frame is held, so that emitFEC is tried (and may still fail).           *)
Missing(held, from, n) == {i \in 0 .. n - 1 : Slot(from, i) \notin DOMAIN held}
FECCandidates(held, from, n) ==
  {i \in Missing(held, from, n) : HasFEC /\ Slot(from, i + 1) \in DOMAIN held}

(* b is the longest run of concealed frames: burstLoss counts a run and    *)
(* the held frame that ends it resets the count.                           *)
BurstNeverReset(missing, n, b) == b = Cardinality(missing)

LongestBurst(missing, n, b) ==
  /\ \E i \in 0 .. n : i .. i + b - 1 \subseteq missing
  /\ \A i \in 0 .. n : ~(i .. i + b \subseteq missing)

flush(held, from, pos, force, emitted) ==
  \E n \in 0 .. SeqMod :
    /\ flushCovers(held, from, force, n)
    /\ nextSeq' = Slot(from, n)
    /\ nextPos' = pos + n
    /\ future' = [k \in {j \in DOMAIN held : (j - from) % SeqMod >= n} |-> held[k]]
    /\ played' = played \cup emitted
         \cup {<<pos + i, held[Slot(from, i)]>> : i \in (0 .. n - 1) \ Missing(held, from, n)}
    /\ concealed' = concealed \cup {pos + i : i \in Missing(held, from, n)}
    /\ lossPackets' = lossPackets + Cardinality(Missing(held, from, n))
    /\ \E fec \in SUBSET FECCandidates(held, from, n) :
         fecRecoveredFrames' = fecRecoveredFrames + Cardinality(fec)
    /\ \E b \in 0 .. n :
         /\ LongestBurst(Missing(held, from, n), n, b)
         /\ maxBurstLoss' = IF b > maxBurstLoss THEN b ELSE maxBurstLoss
    /\ sinceFlush' = 0

(* The early return of flush: not forced and the hold has not expired. *)
flushTooEarly(held, from, pos, emitted) ==
  /\ sinceFlush < Hold
  /\ nextSeq' = from /\ nextPos' = pos /\ future' = held
  /\ played' = played \cup emitted
  /\ UNCHANGED <<concealed, lossPackets, fecRecoveredFrames, maxBurstLoss, sinceFlush>>

flushUnforcedDrops(held, from, pos, emitted) ==
  \/ flushTooEarly(held, from, pos, emitted)
  \/ sinceFlush >= Hold /\ flush([k \in {} |-> 0], from, pos, FALSE, emitted)

flushUnforced(held, from, pos, emitted) ==
  \/ flushTooEarly(held, from, pos, emitted)
  \/ sinceFlush >= Hold /\ flush(held, from, pos, FALSE, emitted)

(***************************************************************************)
(* accept(seq, flags, payload), one action per branch.                     *)
(***************************************************************************)
acceptFirstNoWrap(f) ==
  /\ ~seen
  /\ seen' = TRUE
  /\ nextSeq' = Wire(f) + 1
  /\ start' = f /\ nextPos' = f + 1
  /\ played' = played \cup {<<f, f>>}
  /\ accepted' = accepted \cup {f}
  /\ sinceFlush' = 0
  /\ UNCHANGED <<future, concealed, latePackets, reorderedPackets, lossPackets,
                 fecRecoveredFrames, maxBurstLoss, gapAge>>

acceptFirst(f) ==
  /\ ~seen
  /\ seen' = TRUE
  /\ nextSeq' = (Wire(f) + 1) % SeqMod
  /\ start' = f /\ nextPos' = f + 1
  /\ played' = played \cup {<<f, f>>}
  /\ accepted' = accepted \cup {f}
  /\ sinceFlush' = 0
  /\ UNCHANGED <<future, concealed, latePackets, reorderedPackets, lossPackets,
                 fecRecoveredFrames, maxBurstLoss, gapAge>>

acceptLate(f) ==
  /\ seen /\ Delta(Wire(f), nextSeq) < 0
  /\ latePackets' = latePackets + 1
  /\ UNCHANGED <<seen, nextSeq, future, sinceFlush, gapAge, histVars,
                 reorderedPackets, lossPackets, fecRecoveredFrames, maxBurstLoss>>

acceptNextNoAdvance(f) ==
  /\ seen /\ Delta(Wire(f), nextSeq) = 0
  /\ flushUnforced(future, Wire(f), nextPos + 1, {<<nextPos, f>>})
  /\ accepted' = accepted \cup {f}
  /\ UNCHANGED <<seen, start, latePackets, reorderedPackets, gapAge>>

acceptNext(f) ==
  /\ seen /\ Delta(Wire(f), nextSeq) = 0
  /\ flushUnforced(future, (Wire(f) + 1) % SeqMod, nextPos + 1, {<<nextPos, f>>})
  /\ accepted' = accepted \cup {f}
  /\ UNCHANGED <<seen, start, latePackets, reorderedPackets, gapAge>>

acceptFuture(f) ==
  LET room == Cardinality(Held) < FutureCap
      held == IF room THEN [k \in Held \cup {Wire(f)} |-> IF k = Wire(f) THEN f ELSE future[k]]
              ELSE future
  IN /\ seen /\ Delta(Wire(f), nextSeq) > 0
     /\ reorderedPackets' = reorderedPackets + 1
     /\ accepted' = IF room THEN accepted \cup {f} ELSE accepted
     /\ gapAge' = IF Held = {} THEN 0 ELSE gapAge
     /\ flushUnforced(held, nextSeq, nextPos, {})
     /\ UNCHANGED <<seen, start, latePackets>>

accept(f) ==
  /\ packetsSeen' = packetsSeen + 1
  /\ UNCHANGED sinceTick
  /\ acceptFirst(f) \/ acceptLate(f) \/ acceptNext(f) \/ acceptFuture(f)

(***************************************************************************)
(* tick(): the ticker goroutine forces a flush whatever holdPeriod says.   *)
(***************************************************************************)
tickUnforced ==
  /\ sinceTick
  /\ sinceTick' = FALSE
  /\ IF seen THEN flushUnforced(future, nextSeq, nextPos, {})
     ELSE UNCHANGED <<nextSeq, nextPos, future, played, concealed, lossPackets,
                      fecRecoveredFrames, maxBurstLoss, sinceFlush>>
  /\ UNCHANGED <<netVars, seen, gapAge, start, accepted,
                 packetsSeen, latePackets, reorderedPackets>>

tick ==
  /\ sinceTick
  /\ sinceTick' = FALSE
  /\ IF seen THEN flush(future, nextSeq, nextPos, TRUE, {})
     ELSE UNCHANGED <<nextSeq, nextPos, future, played, concealed, lossPackets,
                      fecRecoveredFrames, maxBurstLoss, sinceFlush>>
  /\ UNCHANGED <<netVars, seen, gapAge, start, accepted,
                 packetsSeen, latePackets, reorderedPackets>>

(***************************************************************************)
(* The environment.  The host numbers its frames consecutively; the        *)
(* network loses and reorders datagrams (QUIC does not duplicate them),    *)
(* but its spread stays below half the sequence space: 2^31 frames of 5 ms *)
(* are four months of audio.                                               *)
(***************************************************************************)
SendMedia ==
  /\ sent < First + MaxSent
  /\ \A f \in inFlight : sent - f < Half
  /\ sent - nextPos < Half
  /\ inFlight' = inFlight \cup {sent}
  /\ sent' = sent + 1
  /\ UNCHANGED <<timeVars, seen, nextSeq, future, histVars, statVars>>

Lose(f) ==
  /\ inFlight' = inFlight \ {f}
  /\ UNCHANGED <<sent, timeVars, seen, nextSeq, future, histVars, statVars>>

(* mediaLoop: one received datagram goes through accept. *)
Deliver(f) ==
  /\ inFlight' = inFlight \ {f}
  /\ UNCHANGED sent
  /\ accept(f)

(* One ticker period passes. *)
Elapse ==
  /\ sinceTick' = TRUE
  /\ sinceFlush' = IF sinceFlush < Hold THEN sinceFlush + 1 ELSE Hold
  /\ gapAge' = IF gapAge < Hold THEN gapAge + 1 ELSE Hold
  /\ UNCHANGED <<netVars, seen, nextSeq, future, histVars, statVars>>

MediaNext ==
  \/ SendMedia
  \/ \E f \in inFlight : Lose(f) \/ Deliver(f)
  \/ Elapse
  \/ tick

MediaSpec == MediaInit /\ [][MediaNext]_mediaVars

(* The ticker keeps running for as long as the stream does. *)
MediaFairness == WF_mediaVars(Elapse) /\ WF_mediaVars(tick)

-----------------------------------------------------------------------------
HeldFrames == {future[k] : k \in Held}

MediaTypes ==
  /\ sent \in Nat /\ inFlight \subseteq Nat
  /\ seen \in BOOLEAN /\ nextSeq \in 0 .. SeqMod - 1
  /\ Held \subseteq 0 .. SeqMod - 1 /\ future \in [Held -> Nat]
  /\ sinceFlush \in 0 .. Hold /\ sinceTick \in BOOLEAN /\ gapAge \in 0 .. Hold
  /\ nextPos \in Nat /\ start \in Nat
  /\ played \subseteq Nat \X Nat /\ concealed \subseteq Nat /\ accepted \subseteq Nat
  /\ packetsSeen \in Nat /\ latePackets \in Nat /\ reorderedPackets \in Nat
  /\ lossPackets \in Nat /\ fecRecoveredFrames \in Nat /\ maxBurstLoss \in Nat

(* Every real frame the consumer gets comes out at its own position in the *)
(* host's stream, across losses, reordering and the wrap of the uint32     *)
(* sequence number (accept's int32 delta and flush's nextSeq arithmetic).  *)
PlayedInPlace == \A p \in played : p[1] = p[2]

(* The reported statistics describe the output: lossPackets is the number  *)
(* of concealed frames, maxBurstLoss the longest run of them, and FEC      *)
(* recoveries are a part of the losses (emit and emitFEC both count).      *)
StatsMatchOutput ==
  /\ lossPackets = Cardinality(concealed)
  /\ fecRecoveredFrames <= lossPackets
  /\ maxBurstLoss = 0 \/ \E p \in concealed : p .. p + maxBurstLoss - 1 \subseteq concealed
  /\ \A p \in concealed : ~(p .. p + maxBurstLoss \subseteq concealed)

(* A frame the window accepted is never replaced by concealment and never  *)
(* disappears: it has been played or is still held (flush deletes only     *)
(* what it emits).                                                         *)
AcceptedNotConcealed ==
  /\ accepted = {p[2] : p \in played} \cup HeldFrames
  /\ concealed \cap accepted = {}

(* Every held frame lies at or ahead of nextSeq, so a forced flush ends    *)
(* after it and does not conceal its way around the sequence space.        *)
HeldAhead == \A k \in Held : (k - nextSeq) % SeqMod < Half

(* A held frame reaches the consumer, in its own place: whatever the       *)
(* window has accepted, the ticker drains it (tick, flush), so that again  *)
(* and again every accepted frame has been played.                         *)
HeldIsPlayed == []<>(\A f \in accepted : <<f, f>> \in played)

(* "tick flushes held frames after the reorder hold expires": a frame is   *)
(* concealed only when the window has waited holdPeriod for it.            *)
ConcealAfterHold == [][concealed' # concealed => gapAge >= Hold]_mediaVars
=============================================================================
