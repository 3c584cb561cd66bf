------------------------------ MODULE Discovery ------------------------------
(***************************************************************************)
(* LAN discovery: the responders that answer queries (responder.go of the  *)
(* v1 receiver, runDiscovery of the phone, runDiscoveryV2 of the host), a  *)
(* network that loses, repeats and delays, and the finder (finder.go).     *)
(* Time is in ticks.  An address is its preference, 0 the best; a peer may *)
(* answer from several of its addresses.                                   *)
(***************************************************************************)
EXTENDS Integers, FiniteSetsExt

CONSTANTS
  Receivers,   \* v1 receivers and phones, which limit their replies
  Hosts,       \* v2 hosts, which do not
  Burst,       \* announceReplyBurst
  Interval,    \* announceReplyInterval, in ticks
  Timeout,     \* the finder's timeout, in ticks
  Resend,      \* queryResendInterval, in ticks
  MaxPeers,    \* MaxPeerInstances
  Addrs,       \* addresses a peer may answer from
  Announced,   \* addresses it may announce, beside 0.0.0.0
  MaxTime,     \* bound: ticks of one behaviour
  MaxAnswers   \* bound: answers under way at once

ASSUME DiscoveryAssumption ==
  Burst \in Nat \ {0} /\ Interval \in Nat \ {0}

VARIABLES
  now,
  advertised,  \* per peer: the address it announces, NoAddr for 0.0.0.0
  limiter,     \* per receiver: [tokens, last]
  asked,       \* a query of the finder is on its way, to all peers
  answers,     \* announcements on their way: [from, src]
  phase,       \* FindPorts: "top" or "read" of its loop, "found", "failed"
  done,        \* ctx is done
  nextQuery,
  instances,   \* per peer heard: [advertised, addrs]
  replies,     \* history, per receiver: replies sent
  lastReply,   \* history, per receiver: when the last one was sent
  starved,     \* history: a query was refused though none was answered lately
  heard        \* history, per peer: source addresses of what the finder read

finderVars == <<now, advertised, limiter, asked, answers, phase, done, nextQuery, instances,
                replies, lastReply, starved, heard>>

Responders == Receivers \cup Hosts
NoAddr == -1
Querier == -2   \* the finder's own address
finder == <<phase, done, nextQuery, instances, heard>>
responder == <<limiter, replies, lastReply, starved>>
searching == phase \in {"top", "read"}

(* Both sides' sockets are open; FindPorts sends its first queries.  A     *)
(* host that does not know its own address announces the one it was asked  *)
(* from.                                                                   *)
FinderInit ==
  /\ now = 0
  /\ advertised \in [Responders -> Announced \cup {NoAddr, Querier}]
  /\ \A r \in Receivers : advertised[r] # Querier
  /\ \A h \in Hosts : advertised[h] # NoAddr
  /\ limiter = [r \in Receivers |-> [tokens |-> Burst, last |-> 0]]
  /\ asked = TRUE /\ answers = {} /\ phase = "top" /\ done = FALSE /\ nextQuery = Resend
  /\ instances = <<>> /\ heard = [p \in Responders |-> {}]
  /\ replies = [r \in Receivers |-> 0] /\ lastReply = [r \in Receivers |-> -Interval]
  /\ starved = FALSE

Tick ==
  /\ now < MaxTime /\ now' = now + 1
  /\ UNCHANGED <<advertised, asked, answers, finder, responder>>

(* The network loses the queries, or an answer. *)
Lose ==
  /\ searching
  /\ \/ asked /\ asked' = FALSE /\ UNCHANGED answers
     \/ (\E a \in answers : answers' = answers \ {a}) /\ UNCHANGED asked
  /\ UNCHANGED <<now, advertised, finder, responder>>

-----------------------------------------------------------------------------
refillKeepsLast(l) ==
  IF now - l.last >= Interval
  THEN [tokens |-> Min({Burst, l.tokens + (now - l.last) \div Interval}), last |-> l.last]
  ELSE l

(* Allow: the tokens of the whole intervals that have passed. *)
refill(l) ==
  IF now - l.last >= Interval
  THEN [tokens |-> Min({Burst, l.tokens + (now - l.last) \div Interval}), last |-> now]
  ELSE l

answer(p) ==
  \E src \in Addrs : answers' = answers \cup {[from |-> p, src |-> src]}

(* runResponderLoop reads a query, of this finder or of another. *)
Respond(r, mine) ==
  LET l == refill(limiter[r])
  IN /\ mine => searching /\ asked /\ Cardinality(answers) < MaxAnswers
     /\ IF l.tokens > 0
        THEN /\ limiter' = [limiter EXCEPT ![r] = [l EXCEPT !.tokens = @ - 1]]
             /\ replies' = [replies EXCEPT ![r] = @ + 1]
             /\ lastReply' = [lastReply EXCEPT ![r] = now]
             /\ IF mine THEN answer(r) ELSE UNCHANGED answers
             /\ UNCHANGED starved
        ELSE /\ limiter' = [limiter EXCEPT ![r] = l]
             /\ starved' = (starved \/ now - lastReply[r] >= Interval)
             /\ UNCHANGED <<replies, lastReply, answers>>
     /\ UNCHANGED <<now, advertised, asked, finder>>

(* runDiscoveryV2: a v1 announce, which the finder reads, and a v2         *)
(* announce, which it skips.                                               *)
RespondHost(h) ==
  /\ searching /\ asked /\ Cardinality(answers) < MaxAnswers /\ answer(h)
  /\ UNCHANGED <<now, advertised, asked, finder, responder>>

-----------------------------------------------------------------------------
(* The caller's context ends and the watcher closes the socket. *)
Cancel ==
  /\ searching /\ ~done /\ done' = TRUE
  /\ UNCHANGED <<now, advertised, asked, answers, phase, nextQuery, instances, heard, responder>>

(* The head of FindPorts' loop. *)
Top ==
  /\ phase = "top"
  /\ phase' = IF done THEN "failed" ELSE IF now >= Timeout THEN "found" ELSE "read"
  /\ IF phase' = "read" /\ now >= nextQuery
     THEN asked' = TRUE /\ nextQuery' = now + Resend
     ELSE UNCHANGED <<asked, nextQuery>>
  /\ UNCHANGED <<now, advertised, answers, done, instances, heard, responder>>

(* The read deadline passes, or the socket is closed. *)
ReadNothing ==
  /\ phase = "read"
  /\ phase' = IF ~done THEN "top" ELSE IF DOMAIN instances # {} THEN "found" ELSE "failed"
  /\ UNCHANGED <<now, advertised, asked, answers, done, nextQuery, instances, heard, responder>>

addWhileRoom(a) ==
  IF Cardinality(DOMAIN instances) >= MaxPeers THEN instances
  ELSE [p \in DOMAIN instances \cup {a.from} |->
          LET old == IF p \in DOMAIN instances THEN instances[p].addrs ELSE {}
          IN [advertised |-> advertised[p], addrs |-> IF p = a.from THEN old \cup {a.src} ELSE old]]

(* A new instance is taken while there is room, a known one learns another *)
(* address.                                                                *)
addPeerInstance(a) ==
  IF a.from \notin DOMAIN instances /\ Cardinality(DOMAIN instances) >= MaxPeers
  THEN instances
  ELSE [p \in DOMAIN instances \cup {a.from} |->
          LET old == IF p \in DOMAIN instances THEN instances[p].addrs ELSE {}
          IN [advertised |-> advertised[p], addrs |-> IF p = a.from THEN old \cup {a.src} ELSE old]]

ReadAnswer(a) ==
  /\ phase = "read" /\ ~done /\ phase' = "top"
  /\ answers' = answers \ {a} \/ UNCHANGED answers
  /\ instances' = addPeerInstance(a)
  /\ heard' = [heard EXCEPT ![a.from] = @ \cup {a.src}]
  /\ UNCHANGED <<now, advertised, asked, done, nextQuery, responder>>

(* peerConnectAddr over sortedPeerAddrs. *)
connectAddr(p) ==
  IF instances[p].advertised # NoAddr THEN instances[p].advertised ELSE Min(instances[p].addrs)

FinderNext ==
  \/ Tick \/ Lose \/ Cancel \/ Top \/ ReadNothing
  \/ \E r \in Receivers, mine \in BOOLEAN : Respond(r, mine)
  \/ \E h \in Hosts : RespondHost(h)
  \/ \E a \in answers : ReadAnswer(a)

FinderSpec == FinderInit /\ [][FinderNext]_finderVars

-----------------------------------------------------------------------------
(* A responder sends no more than its burst and one reply per interval,    *)
(* and it refuses a query only when it has replied within the last         *)
(* interval: what integer division drops when the bucket is refilled       *)
(* neither adds up to extra replies nor starves a steady querier (Allow).  *)
ReplyRate ==
  /\ \A r \in Receivers : replies[r] <= Burst + now \div Interval
  /\ ~starved

(* A peer that is reported is reported with the address it announces or,   *)
(* when it announces none, with the best of those it answered from at any  *)
(* time in the window, whatever came between and although the cap on the   *)
(* instances was reached (addPeerInstance, peerConnectAddr).               *)
BestAddr ==
  phase = "found" =>
    \A p \in DOMAIN instances :
      connectAddr(p) = IF advertised[p] # NoAddr THEN advertised[p] ELSE Min(heard[p])
=============================================================================
