---------------------------- MODULE PlayoutQueue ----------------------------
(***************************************************************************)
(* What a playback buffer promises: a queue of at most Capacity frames     *)
(* between a producer that never waits and a player that never waits.  The *)
(* producer's frames push the oldest ones out; the player gets the oldest  *)
(* frames in order, all it asked for or none (silence).  A frame is named  *)
(* by its position in the producer's stream.                               *)
(***************************************************************************)
EXTENDS Integers, Sequences

CONSTANTS Capacity, PacketSizes

VARIABLES
  produced,  \* frames the producer has handed over
  queue,     \* frames not yet played, oldest first
  out        \* the frames the latest read returned

Newest(s) == IF Len(s) <= Capacity THEN s ELSE SubSeq(s, Len(s) - Capacity + 1, Len(s))

Packet(n) == [i \in 1 .. n |-> produced + i - 1]

Init == produced = 0 /\ queue = <<>> /\ out = <<>>

Enqueue ==
  \E n \in PacketSizes :
    /\ queue' = Newest(queue \o Packet(n))
    /\ produced' = produced + n
    /\ UNCHANGED out

Dequeue ==
  \E n \in 1 .. Len(queue) :
    /\ out' = SubSeq(queue, 1, n)
    /\ queue' = SubSeq(queue, n + 1, Len(queue))
    /\ UNCHANGED produced

Silence == out' = <<>> /\ UNCHANGED <<produced, queue>>

Next == Enqueue \/ Dequeue \/ Silence

Spec == Init /\ [][Next]_<<produced, queue, out>>
=============================================================================
