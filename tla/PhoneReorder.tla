---------------------------- MODULE PhoneReorder ----------------------------
(***************************************************************************)
(* The phone's packet reorder buffer (Engine/ReorderBuffer.swift) behind   *)
(* the v1 UDP sender (transport/sender.go).  Packets are known by their    *)
(* sequence number; each carries PacketFrames frames, and its capture      *)
(* frame is the number of frames captured before it.  Samples, crossfades, *)
(* the running averages and how much of a long gap conceal fills are left  *)
(* out.  Every call holds the buffer's lock (Locked<ReorderBuffer?>), so   *)
(* every call is one step.                                                 *)
(***************************************************************************)
EXTENDS Integers, FiniteSetsExt

CONSTANTS
  PacketFrames,   \* frames in a packet
  MaxWindow,      \* maxWindowPackets
  TwoSeconds,     \* frames of the longest forward jump that is not a new clock
  MaxSeq,         \* bound: packets of one sender process
  MaxFlight,      \* bound: packets in the network at once
  MaxFaults       \* bound: restarts of the sender and resets of the buffer

VARIABLES
  seq,            \* the sender's next sequence number
  datagrams,      \* packets in the network, which may reorder and repeat them
  faults,
  nextSeq,        \* None until the first packet
  future,         \* packets held because they came early
  expectedCapture,\* expectedCaptureFrame, None while captureClockValid is false
  pendingReprime,
  taken,          \* history: packets accept wrote or held since the last reset
  played,         \* history: packets written to the sink since the last reset
  passed,         \* history: the numbers conceal stood in for since then
  newest,         \* history: the newest packet of this sender process accept has seen
  freshLate       \* history: the latest late packet was newer than all before it

reorderVars ==
  <<seq, datagrams, faults, nextSeq, future, expectedCapture, pendingReprime,
    taken, played, passed, newest, freshLate>>

None == -1

ReorderInit ==
  /\ seq = 0 /\ datagrams = {} /\ faults = 0
  /\ nextSeq = None /\ future = {} /\ expectedCapture = None
  /\ pendingReprime = FALSE
  /\ taken = {} /\ played = {} /\ passed = {}
  /\ newest = None /\ freshLate = FALSE

bufferVars ==
  <<nextSeq, future, expectedCapture, pendingReprime, taken, played, passed>>

-----------------------------------------------------------------------------
(* The sender numbers its packets one by one. *)
Send ==
  /\ seq < MaxSeq /\ Cardinality(datagrams) < MaxFlight
  /\ seq' = seq + 1 /\ datagrams' = datagrams \union {seq}
  /\ UNCHANGED <<faults, newest, freshLate, bufferVars>>

Lose(q) ==
  /\ datagrams' = datagrams \ {q}
  /\ UNCHANGED <<seq, faults, newest, freshLate, bufferVars>>

(* The sender's process restarts under the same name and format. *)
Restart ==
  /\ faults < MaxFaults /\ faults' = faults + 1
  /\ seq' = 0 /\ newest' = None
  /\ UNCHANGED <<datagrams, freshLate, bufferVars>>

-----------------------------------------------------------------------------
(* The held packets that follow one another from e on. *)
run(held, e) ==
  {q \in held : /\ q >= e /\ (q - e) % PacketFrames = 0
                /\ \A k \in 0 .. (q - e) \div PacketFrames : e + k * PacketFrames \in held}

after(w, e) == IF w = {} THEN e ELSE Max(w) + PacketFrames

(* checkCaptureDiscontinuity for the packets w, written in order. *)
newClocks(w) ==
  {q \in w :
     LET before == {p \in w : p < q}
         expect == IF before = {} THEN expectedCapture
                                  ELSE (Max(before) + 1) * PacketFrames
     IN expect # None /\ (\/ q * PacketFrames < expect
                          \/ q * PacketFrames - expect > TwoSeconds)}

(* writeConsecutive of every packet of w. *)
writeAll(w) ==
  /\ expectedCapture' = IF w = {} THEN expectedCapture ELSE (Max(w) + 1) * PacketFrames
  /\ pendingReprime' = (pendingReprime \/ newClocks(w) # {})
  /\ played' = played \union w

(* Mutant: what was concealed may still come in turn. *)
flushStays(w0, e) ==
  LET w1    == run(future, e)
      e1    == after(w1, e)
      rest  == future \ w1
      first == Min(rest)
      gap   == rest # {} /\ first > e1
  IN /\ writeAll(w0 \union w1)
     /\ nextSeq' = e1
     /\ future' = rest
     /\ passed' = passed \union (IF gap THEN e1 .. first - 1 ELSE {})

(* flushFuture, after the packets w0 have been written: what follows them, *)
(* then concealment up to the earliest packet held and what follows that.  *)
flushFuture(w0, e) ==
  LET w1    == run(future, e)
      e1    == after(w1, e)
      rest  == future \ w1
      first == Min(rest)
      gap   == rest # {} /\ first > e1
      w2    == IF gap THEN run(rest, first) ELSE {}
  IN /\ writeAll(w0 \union w1 \union w2)
     /\ nextSeq' = IF gap THEN after(w2, first) ELSE e1
     /\ future' = rest \ w2
     /\ passed' = passed \union (IF gap THEN e1 .. first - 1 ELSE {})

neverLate(q) == FALSE

Late(q) == nextSeq # None /\ q < nextSeq
Early(q) == nextSeq # None /\ q > nextSeq

dropLate(q) == UNCHANGED bufferVars

hold(q) ==
  /\ LET fits == IF Cardinality(future) < MaxWindow THEN {q} ELSE {}
     IN future' = future \union fits /\ taken' = taken \union fits
  /\ UNCHANGED <<nextSeq, expectedCapture, pendingReprime, played, passed>>

inTurn(q) ==
  /\ flushFuture({q}, q + PacketFrames)
  /\ taken' = taken \union {q}

(* accept, of a packet the network may deliver again. *)
accept(q, again) ==
  /\ datagrams' = IF again THEN datagrams ELSE datagrams \ {q}
  /\ newest' = IF q < seq THEN Max({newest, q}) ELSE newest
  /\ freshLate' = (Late(q) /\ q < seq /\ q > newest)
  /\ \/ Late(q) /\ dropLate(q)
     \/ Early(q) /\ hold(q)
     \/ ~Late(q) /\ ~Early(q) /\ inTurn(q)
  /\ UNCHANGED <<seq, faults>>

(* tick; that the hold since the last flush has passed is left open. *)
tick ==
  /\ nextSeq # None /\ future # {}
  /\ flushFuture({}, nextSeq)
  /\ UNCHANGED <<seq, datagrams, faults, newest, freshLate, taken>>

consumeReprime == pendingReprime' = FALSE

(* The audio thread's second and the utility timer both come here. *)
housekeepingReprime ==
  /\ pendingReprime /\ consumeReprime
  /\ UNCHANGED <<seq, datagrams, faults, newest, freshLate, nextSeq, future,
                 expectedCapture, taken, played, passed>>

(* reset, from disconnect, the watchdog or a HELLO with a new name. *)
resetBuffer ==
  /\ nextSeq # None /\ faults < MaxFaults /\ faults' = faults + 1
  /\ nextSeq' = None /\ future' = {} /\ expectedCapture' = None /\ pendingReprime' = FALSE
  /\ taken' = {} /\ played' = {} /\ passed' = {}
  /\ UNCHANGED <<seq, datagrams, newest, freshLate>>

ReorderNext ==
  \/ Send \/ Restart \/ tick \/ housekeepingReprime \/ resetBuffer
  \/ \E q \in datagrams : Lose(q) \/ \E again \in BOOLEAN : accept(q, again)

ReorderSpec == ReorderInit /\ [][ReorderNext]_reorderVars

-----------------------------------------------------------------------------
(* Between two resets the sink gets packets in the order of their numbers, *)
(* whatever the network reorders, repeats or loses and even when the       *)
(* sender starts again (accept's early return, flushFuture).               *)
PlayedInOrder ==
  [][played \subseteq played' => \A q \in played' \ played, p \in played : p < q]_reorderVars

(* Between two resets a packet that accept took in turn or held for later  *)
(* is played once or still held, never lost and never both, through every  *)
(* flush, early, repeated and late packet and restart of the sender; none  *)
(* was concealed; and what was played or concealed lies behind nextSeq,    *)
(* where accept refuses it, so neither is played a second time (accept,    *)
(* flushFuture, writeConsecutive, conceal).  What accept drops as late it  *)
(* never took: of that LateIsStale speaks.                                 *)
PacketsAccounted ==
  /\ taken = played \union future /\ played \intersect future = {}
  /\ passed \intersect taken = {}
  /\ \A n \in played \union passed : n < nextSeq

(* What accept drops as stale or duplicate is one: a newer packet of the   *)
(* same sender has been there before it.                                   *)
LateIsStale == ~freshLate
=============================================================================
