--------------------------- MODULE ConnectProofs ---------------------------
(***************************************************************************)
(* Proofs about how a phone comes to its host: the relay that splices them *)
(* (Relay), the discovery that finds it on the local network (Discovery),  *)
(* the pairing (PairingExchange) and the store that remembers it           *)
(* (TrustStore), for every set of phones, hosts, peers and connections and *)
(* every limit.                                                            *)
(***************************************************************************)
EXTENDS Relay, Discovery, PairingExchange, TrustStore, ModArithmetic, SequenceTheorems,
        TLAPS

-----------------------------------------------------------------------------
(***************************************************************************)
(* The relay.  PairedOnce is not inductive: that a phone gets a host       *)
(* connection no other phone has rests on where a connection can be before *)
(* it is taken.  InOnePlace says it: a leg is announced, waiting or        *)
(* spliced, and never two of these.  Spliced ties a splice to its          *)
(* goroutine, so that the copy and teardown steps act on a peer that is a  *)
(* leg.                                                                    *)
(***************************************************************************)
(* A host connection is announced, waiting or somebody's peer, one at most. *)
InOnePlace ==
  /\ waiting \notin announced
  /\ \A p \in Phones : peer[p] \notin announced
  /\ waiting # Nobody => \A p \in Phones : peer[p] # waiting

(* A phone has a peer exactly while its goroutine splices, and copies or   *)
(* control streams being opened belong to a splice.                        *)
Spliced ==
  \A p \in Phones :
    /\ phoneConn[p] = "spliced" <=> peer[p] # Nobody
    /\ copies[p] # {} => phoneConn[p] = "spliced"
    /\ p \in opening => phoneConn[p] = "spliced"

(* The inductive invariant. *)
IInv == RelayTypeOK /\ InOnePlace /\ Spliced /\ PairedOnce

-----------------------------------------------------------------------------
(* A relay nobody has reached satisfies the invariant. *)
LEMMA InitIInv == ASSUME Nobody \notin Legs PROVE RelayInit => IInv
<1>. SUFFICES ASSUME RelayInit PROVE IInv  OBVIOUS
<1>1. RelayTypeOK  BY DEF RelayInit, RelayTypeOK
<1>2. InOnePlace /\ Spliced /\ PairedOnce  BY DEF RelayInit, InOnePlace, Spliced, PairedOnce
<1>. QED  BY <1>1, <1>2 DEF IInv

(* The host's side: a new connection takes a number nobody knows, and its  *)
(* registration moves it from announced to waiting.                        *)
LEMMA HostIInv ==
  ASSUME Nobody \notin Legs, IInv, NEW i \in Legs,
         HostDials(i) \/ RelayRegisters(i) \/ HostGivesUp(i) \/ LegBreaks(i)
  PROVE  IInv'
<1>. USE DEF IInv, phoneVars
<1>1. CASE HostDials(i)
  <2>. USE <1>1 DEF HostDials, unused
  <2>1. RelayTypeOK'  BY DEF RelayTypeOK
  <2>2. InOnePlace' /\ Spliced' /\ PairedOnce'  BY DEF InOnePlace, Spliced, PairedOnce
  <2>. QED  BY <2>1, <2>2
<1>2. CASE RelayRegisters(i)
  <2>. USE <1>2 DEF RelayRegisters, register
  <2>1. RelayTypeOK'  BY DEF RelayTypeOK
  <2>2. InOnePlace'  BY DEF InOnePlace, RelayTypeOK
  <2>3. Spliced' /\ PairedOnce'  BY DEF Spliced, PairedOnce
  <2>. QED  BY <2>1, <2>2, <2>3
<1>3. CASE HostGivesUp(i) \/ LegBreaks(i)
  <2>. USE <1>3 DEF HostGivesUp, LegBreaks
  <2>1. RelayTypeOK'  BY DEF RelayTypeOK
  <2>2. InOnePlace' /\ Spliced' /\ PairedOnce'  BY DEF InOnePlace, Spliced, PairedOnce
  <2>. QED  BY <2>1, <2>2
<1>. QED  BY <1>1, <1>2, <1>3

(* The P branch: the waiting connection goes to this phone and to no       *)
(* other, since it leaves waiting in the same step.                        *)
LEMMA RelayPairsIInv ==
  ASSUME Nobody \notin Legs, IInv, NEW p \in Phones, RelayPairs(p)
  PROVE  IInv'
<1>. USE DEF IInv
<1>0. phoneConn[p] = "dialled" /\ peer[p] = Nobody /\ copies[p] = {} /\ p \notin opening
  BY DEF RelayPairs, Spliced, RelayTypeOK
<1>1. CASE waiting # Nobody
  <2>1. /\ phoneConn' = [phoneConn EXCEPT ![p] = "spliced"] /\ peer' = [peer EXCEPT ![p] = waiting]
        /\ opening' = opening \cup {p}
        /\ copies' = [copies EXCEPT ![p] = {"mediaUp", "mediaDown"}]
        /\ waiting' = Nobody /\ UNCHANGED <<gone, leg, announced, talks, lost>>
    BY <1>1 DEF RelayPairs, takeWaiting
  <2>2. RelayTypeOK'  BY <2>1 DEF RelayTypeOK
  <2>3. InOnePlace'  BY <2>1 DEF InOnePlace, RelayTypeOK
  <2>4. Spliced'  BY <1>1, <2>1 DEF Spliced, RelayTypeOK
  <2>5. PairedOnce'  BY <1>1, <2>1 DEF PairedOnce, InOnePlace, RelayTypeOK
  <2>. QED  BY <2>2, <2>3, <2>4, <2>5
<1>2. CASE waiting = Nobody
  <2>1. /\ phoneConn' = [phoneConn EXCEPT ![p] = "none"] /\ gone' = gone \ {p}
        /\ UNCHANGED <<waiting, peer, opening, copies, leg, announced, talks, lost>>
    BY <1>2 DEF RelayPairs
  <2>2. RelayTypeOK'  BY <2>1 DEF RelayTypeOK
  <2>3. InOnePlace' /\ PairedOnce'  BY <2>1 DEF InOnePlace, PairedOnce
  <2>4. Spliced'  BY <1>0, <2>1 DEF Spliced, RelayTypeOK
  <2>. QED  BY <2>2, <2>3, <2>4
<1>. QED  BY <1>1, <1>2

(* The copies and the teardown of a splice. *)
LEMMA SpliceIInv ==
  ASSUME Nobody \notin Legs, IInv, NEW p \in Phones,
         OpenControl(p) \/ OpenFails(p) \/ HostAnswers(p) \/ CopyEnds(p) \/ SpliceEnds(p)
  PROVE  IInv'
<1>. USE DEF IInv
<1>1. CASE OpenControl(p) \/ OpenFails(p)
  <2>. USE <1>1 DEF OpenControl, OpenFails, twoDones
  <2>1. RelayTypeOK'  BY DEF RelayTypeOK
  <2>2. InOnePlace' /\ PairedOnce'  BY DEF InOnePlace, PairedOnce
  <2>3. Spliced'  BY DEF Spliced, RelayTypeOK
  <2>. QED  BY <2>1, <2>2, <2>3
<1>2. CASE HostAnswers(p)
  <2>. USE <1>2 DEF HostAnswers, spliceVars
  <2>1. RelayTypeOK'  BY DEF RelayTypeOK
  <2>2. InOnePlace' /\ Spliced' /\ PairedOnce'  BY DEF InOnePlace, Spliced, PairedOnce
  <2>. QED  BY <2>1, <2>2
<1>3. CASE CopyEnds(p)
  <2>1. PICK c \in copies[p] : copies' = [copies EXCEPT ![p] = @ \ {c}]
    BY <1>3 DEF CopyEnds
  <2>2. UNCHANGED <<leg, announced, waiting, phoneConn, gone, talks, peer, opening, lost>>
    BY <1>3 DEF CopyEnds
  <2>3. RelayTypeOK'  BY <2>1, <2>2 DEF RelayTypeOK
  <2>4. InOnePlace' /\ PairedOnce'  BY <2>2 DEF InOnePlace, PairedOnce
  <2>5. Spliced'  BY <2>1, <2>2 DEF Spliced, RelayTypeOK
  <2>. QED  BY <2>3, <2>4, <2>5
<1>4. CASE SpliceEnds(p)
  <2>. USE <1>4 DEF SpliceEnds
  <2>1. RelayTypeOK'  BY DEF RelayTypeOK
  <2>2. InOnePlace'  BY DEF InOnePlace, RelayTypeOK
  <2>3. Spliced' /\ PairedOnce'  BY DEF Spliced, PairedOnce, RelayTypeOK
  <2>. QED  BY <2>1, <2>2, <2>3
<1>. QED  BY <1>1, <1>2, <1>3, <1>4

(* The phone's own comings and goings. *)
LEMMA PhoneIInv ==
  ASSUME Nobody \notin Legs, IInv, NEW p \in Phones,
         PhoneDials(p) \/ PhoneLeaves(p) \/ RegistrationLost(p)
  PROVE  IInv'
<1>. USE DEF IInv
<1>1. CASE PhoneDials(p) \/ RegistrationLost(p)
  <2>. USE <1>1 DEF PhoneDials, RegistrationLost
  <2>1. RelayTypeOK'  BY DEF RelayTypeOK
  <2>2. InOnePlace' /\ PairedOnce'  BY DEF InOnePlace, PairedOnce
  <2>3. Spliced'  BY DEF Spliced, RelayTypeOK
  <2>. QED  BY <2>1, <2>2, <2>3
<1>2. CASE PhoneLeaves(p)
  <2>. USE <1>2 DEF PhoneLeaves
  <2>1. leg' \in [Legs -> {"closed", "waits", "serves"}]  BY DEF RelayTypeOK
  <2>2. RelayTypeOK'  BY <2>1 DEF RelayTypeOK
  <2>3. InOnePlace' /\ Spliced' /\ PairedOnce'  BY DEF InOnePlace, Spliced, PairedOnce
  <2>. QED  BY <2>2, <2>3
<1>. QED  BY <1>1, <1>2

(* Every step of the relay, its host and its phones keeps the invariant. *)
LEMMA NextIInv == ASSUME Nobody \notin Legs PROVE IInv /\ [RelayNext]_relayVars => IInv'
<1>. SUFFICES ASSUME IInv, [RelayNext]_relayVars PROVE IInv'  OBVIOUS
<1>1. ASSUME NEW i \in Legs,
             HostDials(i) \/ RelayRegisters(i) \/ HostGivesUp(i) \/ LegBreaks(i)
      PROVE  IInv'
  BY <1>1, HostIInv
<1>2. ASSUME NEW p \in Phones,
             PhoneDials(p) \/ PhoneLeaves(p) \/ RegistrationLost(p) \/ relaySteps(p)
      PROVE  IInv'
  BY <1>2, PhoneIInv, RelayPairsIInv, SpliceIInv DEF relaySteps
<1>3. CASE UNCHANGED relayVars
  BY <1>3 DEF relayVars, IInv, RelayTypeOK, InOnePlace, Spliced, PairedOnce
<1>. QED  BY <1>1, <1>2, <1>3 DEF RelayNext

(* No two phones are ever spliced to one host connection, for any number   *)
(* of phones, connections and breaks (RunRelay's waiting map; a host       *)
(* connection is numbered from one, 0 being none).                         *)
THEOREM NeverSharedHost == ASSUME Nobody \notin Legs PROVE RelaySpec => []PairedOnce
<1>1. RelayInit => IInv  BY InitIInv
<1>2. IInv /\ [RelayNext]_relayVars => IInv'  BY NextIInv
<1>3. IInv => PairedOnce  BY DEF IInv
<1>. QED  BY <1>1, <1>2, <1>3, PTL DEF RelaySpec

-----------------------------------------------------------------------------
(***************************************************************************)
(* The discovery.  Neither half of ReplyRate is inductive.  The replies    *)
(* sent and the tokens left together never exceed the burst and the        *)
(* intervals up to the last refill, since what integer division drops is   *)
(* lost; and an empty bucket was emptied after its last refill, which left *)
(* at least one token in it.                                               *)
(***************************************************************************)
Bucket == [tokens : Nat, last : Nat]

(* A bucket after n replies, the last of them at time t. *)
Spent(l, n, t) ==
  /\ l.last <= now
  /\ n + l.tokens <= Burst + l.last \div Interval
  /\ l.tokens = 0 => t >= l.last

(* The inductive invariant of the rate limiter. *)
LimiterInv ==
  /\ now \in Nat /\ limiter \in [Receivers -> Bucket]
  /\ replies \in [Receivers -> Nat] /\ lastReply \in [Receivers -> Int]
  /\ starved = FALSE
  /\ \A q \in Receivers : Spent(limiter[q], replies[q], lastReply[q])

(* The smaller of two numbers. *)
LEMMA MinOfTwo ==
  ASSUME NEW a \in Int, NEW b \in Int
  PROVE  Min({a, b}) \in {a, b} /\ Min({a, b}) <= a /\ Min({a, b}) <= b
<1>1. \E x \in {a, b} : \A y \in {a, b} : x <= y
  <2>1. CASE a <= b  BY <2>1
  <2>2. CASE b <= a  BY <2>2
  <2>. QED  BY <2>1, <2>2
<1>2. Min({a, b}) \in {a, b} /\ \A y \in {a, b} : Min({a, b}) <= y
  BY <1>1 DEF Min
<1>. QED  BY <1>2

(* A refill keeps within the rate, and leaves a token if it adds any. *)
LEMMA RefillStep ==
  ASSUME now \in Nat, NEW l \in Bucket, NEW n \in Nat, l.last <= now,
         n + l.tokens <= Burst + l.last \div Interval
  PROVE  /\ refill(l) \in Bucket /\ refill(l).last <= now
         /\ n + refill(l).tokens <= Burst + refill(l).last \div Interval
         /\ refill(l).tokens = 0 => refill(l) = l /\ now - l.last < Interval
<1>1. /\ l.tokens \in Nat /\ l.last \in Nat /\ Interval \in Nat /\ Interval > 0
      /\ Burst \in Nat /\ Burst > 0
  BY DiscoveryAssumption DEF Bucket
<1>2. CASE ~(now - l.last >= Interval)
  <2>1. refill(l) = l  BY <1>2 DEF refill
  <2>. QED  BY <1>1, <1>2, <2>1
<1>3. CASE now - l.last >= Interval
  <2>. DEFINE whole == (now - l.last) \div Interval
              begun == l.last \div Interval
              t     == Min({Burst, l.tokens + whole})
  <2>1. now - l.last \in Nat /\ l.last + (now - l.last) = now  BY <1>1
  <2>2. whole \in Nat /\ whole >= 1 /\ begun + whole <= now \div Interval /\ begun \in Int
    <3>1. begun \in Int  BY <1>1, SMT
    <3>. QED  BY <1>1, <1>3, <2>1, <3>1, QuotientSum
  <2>3. refill(l) = [tokens |-> t, last |-> now]  BY <1>3 DEF refill
  <2>. DEFINE over == now \div Interval
  <2>4. over \in Int  BY <1>1, SMT
  <2>. HIDE DEF whole, begun, over
  <2>5. t \in Nat /\ t <= l.tokens + whole /\ t > 0
    <3>. DEFINE b == l.tokens + whole
    <3>1. b \in Int /\ b > 0 /\ b = l.tokens + whole  BY <1>1, <2>2
    <3>2. Burst \in Int  BY <1>1
    <3>. HIDE DEF b
    <3>3. Min({Burst, b}) \in {Burst, b} /\ Min({Burst, b}) <= b  BY <3>1, <3>2, MinOfTwo
    <3>. QED  BY <1>1, <3>1, <3>3 DEF b
  <2>. HIDE DEF t
  <2>6. n + t <= Burst + over
    BY <1>1, <2>2, <2>4, <2>5 DEF begun, over
  <2>. QED  BY <1>1, <2>3, <2>5, <2>6 DEF Bucket, over
<1>. QED  BY <1>2, <1>3

(* A query answered or refused keeps within the rate. *)
LEMMA RespondStep ==
  ASSUME LimiterInv, NEW q \in Receivers, NEW mine \in BOOLEAN, Respond(q, mine)
  PROVE  LimiterInv'
<1>. USE DEF LimiterInv
<1>. DEFINE l == limiter[q]
            m == refill(l)
            n == replies[q]
<1>1. /\ l \in Bucket /\ n \in Nat /\ lastReply[q] \in Int /\ now' = now
      /\ l.last <= now /\ n + l.tokens <= Burst + l.last \div Interval
      /\ l.tokens = 0 => lastReply[q] >= l.last
      /\ l.tokens \in Nat /\ l.last \in Nat
  BY DEF Spent, Respond, Bucket
<1>2. /\ m \in Bucket /\ m.last <= now /\ n + m.tokens <= Burst + m.last \div Interval
      /\ m.tokens = 0 => m = l /\ now - l.last < Interval
  BY <1>1, RefillStep
<1>3. m.tokens \in Nat /\ m.last \in Nat  BY <1>2 DEF Bucket
<1>4. \A p \in Receivers : p # q => Spent(limiter[p], replies[p], lastReply[p])
  OBVIOUS
<1>5. CASE m.tokens > 0
  <2>. DEFINE k == [m EXCEPT !.tokens = m.tokens - 1]
  <2>1. /\ limiter' = [limiter EXCEPT ![q] = k] /\ replies' = [replies EXCEPT ![q] = n + 1]
        /\ lastReply' = [lastReply EXCEPT ![q] = now] /\ starved' = starved
    BY <1>5 DEF Respond
  <2>2. k \in Bucket /\ k.tokens = m.tokens - 1 /\ k.last = m.last
    BY <1>2, <1>3, <1>5 DEF Bucket
  <2>. HIDE DEF k, m
  <2>3. m.last \div Interval \in Int  BY <1>3, DiscoveryAssumption, SMT
  <2>4. Burst \in Nat  BY DiscoveryAssumption
  <2>5. now >= k.last /\ n + 1 + k.tokens <= Burst + k.last \div Interval
    <3>. DEFINE d == m.last \div Interval
    <3>1. n + m.tokens <= Burst + d /\ d \in Int  BY <1>2, <2>3
    <3>. HIDE DEF d
    <3>2. n + 1 + (m.tokens - 1) <= Burst + d  BY <1>1, <1>3, <2>4, <3>1
    <3>. QED  BY <1>2, <2>2, <3>2 DEF d
  <2>6. /\ limiter' \in [Receivers -> Bucket] /\ replies' \in [Receivers -> Nat]
        /\ lastReply' \in [Receivers -> Int]
    BY <1>1, <2>1, <2>2
  <2>7. \A p \in Receivers :
          IF p = q THEN limiter'[p] = k /\ replies'[p] = n + 1 /\ lastReply'[p] = now
          ELSE limiter'[p] = limiter[p] /\ replies'[p] = replies[p] /\ lastReply'[p] = lastReply[p]
    BY <2>1
  <2>8. ASSUME NEW p \in Receivers PROVE Spent(limiter'[p], replies'[p], lastReply'[p])
    <3>1. CASE p = q  BY <2>5, <2>7, <3>1 DEF Spent
    <3>2. CASE p # q  BY <1>4, <2>7, <3>2
    <3>. QED  BY <3>1, <3>2
  <2>. QED  BY <1>1, <2>1, <2>6, <2>8 DEF Spent
<1>6. CASE ~(m.tokens > 0)
  <2>1. m = l /\ l.tokens = 0 /\ now - l.last < Interval  BY <1>2, <1>3, <1>6
  <2>2. /\ limiter' = [limiter EXCEPT ![q] = l] /\ UNCHANGED <<replies, lastReply>>
        /\ starved' = (starved \/ now - lastReply[q] >= Interval)
    BY <1>6, <2>1 DEF Respond
  <2>3. limiter' = limiter  BY <2>2
  <2>4. ~(now - lastReply[q] >= Interval)
    <3>1. lastReply[q] >= l.last /\ Interval \in Nat  BY <1>1, <2>1, DiscoveryAssumption
    <3>. QED  BY <1>1, <2>1, <3>1
  <2>. QED  BY <1>1, <2>2, <2>3, <2>4 DEF Spent
<1>. QED  BY <1>5, <1>6

(* No responder answers more often than its rate, nor refuses a query      *)
(* though it was silent for an interval (Allow).                           *)
THEOREM RepliesWithinRate == FinderSpec => []ReplyRate
<1>1. FinderInit => LimiterInv
  <2>. SUFFICES ASSUME FinderInit PROVE LimiterInv  OBVIOUS
  <2>1. Burst \in Nat /\ Burst > 0 /\ Interval \in Nat /\ Interval > 0  BY DiscoveryAssumption
  <2>2. 0 \div Interval \in Nat  BY <2>1, QuotientSum
  <2>3. 0 + Burst <= Burst + 0 \div Interval  BY <2>1, <2>2
  <2>4. /\ now = 0 /\ starved = FALSE
        /\ \A q \in Receivers : /\ limiter[q] = [tokens |-> Burst, last |-> 0]
                                /\ replies[q] = 0 /\ lastReply[q] = -Interval
    BY DEF FinderInit
  <2>5. \A q \in Receivers : Spent(limiter[q], replies[q], lastReply[q])
    BY <2>1, <2>3, <2>4 DEF Spent
  <2>. QED  BY <2>1, <2>4, <2>5 DEF LimiterInv, FinderInit, Bucket
<1>2. LimiterInv /\ [FinderNext]_finderVars => LimiterInv'
  <2>. SUFFICES ASSUME LimiterInv, [FinderNext]_finderVars PROVE LimiterInv'  OBVIOUS
  <2>1. CASE UNCHANGED responder /\ now' = now
    BY <2>1 DEF LimiterInv, Spent, responder
  <2>2. CASE Tick
    <3>1. now' = now + 1 /\ UNCHANGED responder  BY <2>2 DEF Tick
    <3>2. \A q \in Receivers : limiter[q].last \in Nat  BY DEF LimiterInv, Bucket
    <3>. QED  BY <3>1, <3>2 DEF LimiterInv, Spent, responder
  <2>3. CASE \E q \in Receivers, mine \in BOOLEAN : Respond(q, mine)
    BY <2>3, RespondStep
  <2>4. CASE Lose \/ Cancel \/ Top \/ ReadNothing
    BY <2>1, <2>4 DEF Lose, Cancel, Top, ReadNothing
  <2>5. CASE \E g \in Hosts : RespondHost(g)  BY <2>1, <2>5 DEF RespondHost
  <2>6. CASE \E a \in answers : ReadAnswer(a)  BY <2>1, <2>6 DEF ReadAnswer
  <2>7. CASE UNCHANGED finderVars  BY <2>1, <2>7 DEF finderVars, responder
  <2>. QED  BY <2>2, <2>3, <2>4, <2>5, <2>6, <2>7 DEF FinderNext
<1>3. LimiterInv => ReplyRate
  <2>. SUFFICES ASSUME LimiterInv, NEW q \in Receivers PROVE replies[q] <= Burst + now \div Interval
    BY DEF ReplyRate, LimiterInv
  <2>. DEFINE l == limiter[q]
  <2>1. /\ l.tokens \in Nat /\ l.last \in Nat /\ l.last <= now /\ now \in Nat /\ replies[q] \in Nat
        /\ replies[q] + l.tokens <= Burst + l.last \div Interval
    BY DEF LimiterInv, Spent, Bucket
  <2>2. Burst \in Nat /\ Interval \in Nat /\ Interval > 0  BY DiscoveryAssumption
  <2>3. l.last \div Interval <= now \div Interval
    <3>1. now - l.last \in Nat /\ l.last + (now - l.last) = now  BY <2>1
    <3>. QED  BY <2>1, <2>2, <3>1, QuotientSum
  <2>4. l.last \div Interval \in Int /\ now \div Interval \in Int  BY <2>1, <2>2, SMT
  <2>. QED  BY <2>1, <2>2, <2>3, <2>4
<1>. QED  BY <1>1, <1>2, <1>3, PTL DEF FinderSpec

(* What is reported of a peer is what was heard from it: a peer the cap    *)
(* kept out stays out, so no answer of a listed peer went unused.          *)
InstancesHeard ==
  /\ answers \subseteq [from : Responders, src : Addrs]
  /\ DOMAIN instances \subseteq Responders /\ heard \in [Responders -> SUBSET Addrs]
  /\ \A p \in DOMAIN instances :
       instances[p].advertised = advertised[p] /\ instances[p].addrs = heard[p]
  /\ \A p \in Responders \ DOMAIN instances :
       heard[p] = {} \/ Cardinality(DOMAIN instances) >= MaxPeers

(* An answer is read into its instance, or refused for good. *)
LEMMA ReadAnswerStep ==
  ASSUME InstancesHeard, NEW a \in answers, ReadAnswer(a)
  PROVE  InstancesHeard'
<1>. USE DEF InstancesHeard
<1>1. /\ a.from \in Responders /\ a.src \in Addrs
      /\ answers' \subseteq answers /\ advertised' = advertised
      /\ instances' = addPeerInstance(a)
      /\ heard' = [heard EXCEPT ![a.from] = heard[a.from] \cup {a.src}]
  BY DEF ReadAnswer
<1>2. /\ heard' \in [Responders -> SUBSET Addrs]
      /\ heard'[a.from] = heard[a.from] \cup {a.src}
      /\ \A p \in Responders : p # a.from => heard'[p] = heard[p]
  BY <1>1
<1>3. CASE a.from \notin DOMAIN instances /\ Cardinality(DOMAIN instances) >= MaxPeers
  <2>1. instances' = instances  BY <1>1, <1>3 DEF addPeerInstance
  <2>. QED  BY <1>1, <1>2, <1>3, <2>1
<1>4. CASE ~(a.from \notin DOMAIN instances /\ Cardinality(DOMAIN instances) >= MaxPeers)
  <2>. DEFINE old(p) == IF p \in DOMAIN instances THEN instances[p].addrs ELSE {}
  <2>1. instances' = [p \in DOMAIN instances \cup {a.from} |->
                        [advertised |-> advertised[p],
                         addrs |-> IF p = a.from THEN old(p) \cup {a.src} ELSE old(p)]]
    BY <1>1, <1>4 DEF addPeerInstance
  <2>2. /\ DOMAIN instances' = DOMAIN instances \cup {a.from}
        /\ \A p \in DOMAIN instances' :
             /\ instances'[p].advertised = advertised[p]
             /\ instances'[p].addrs = IF p = a.from THEN old(p) \cup {a.src} ELSE old(p)
    BY <2>1
  <2>3. \A p \in DOMAIN instances' : old(p) = heard[p]
    BY <1>1, <1>4, <2>2
  <2>. HIDE DEF old
  <2>4. \A p \in DOMAIN instances' : instances'[p].addrs = heard'[p]
    <3>. TAKE p \in DOMAIN instances'
    <3>1. p \in Responders  BY <1>1, <2>2
    <3>2. CASE p = a.from  BY <1>2, <2>2, <2>3, <3>2
    <3>3. CASE p # a.from  BY <1>2, <2>2, <2>3, <3>1, <3>3
    <3>. QED  BY <3>2, <3>3
  <2>5. ASSUME NEW p \in Responders \ DOMAIN instances'
        PROVE  heard'[p] = {} \/ Cardinality(DOMAIN instances') >= MaxPeers
    <3>1. p # a.from /\ p \notin DOMAIN instances /\ heard'[p] = heard[p]  BY <1>2, <2>2
    <3>2. CASE a.from \in DOMAIN instances
      <4>1. DOMAIN instances' = DOMAIN instances  BY <2>2, <3>2
      <4>. QED  BY <3>1, <4>1
    <3>3. CASE a.from \notin DOMAIN instances  BY <1>4, <3>1, <3>3
    <3>. QED  BY <3>2, <3>3
  <2>. QED  BY <1>1, <1>2, <2>2, <2>4, <2>5
<1>. QED  BY <1>3, <1>4

(* A peer is reported with the address it announces or the best of those   *)
(* it answered from, for every cap (addPeerInstance, peerConnectAddr).     *)
THEOREM BestAddrReported == FinderSpec => []BestAddr
<1>1. FinderInit => InstancesHeard
  <2>. SUFFICES ASSUME FinderInit PROVE InstancesHeard  OBVIOUS
  <2>1. answers = {} /\ DOMAIN instances = {} /\ heard = [p \in Responders |-> {}]
    BY DEF FinderInit
  <2>. QED  BY <2>1 DEF InstancesHeard
<1>2. InstancesHeard /\ [FinderNext]_finderVars => InstancesHeard'
  <2>. SUFFICES ASSUME InstancesHeard, [FinderNext]_finderVars PROVE InstancesHeard'  OBVIOUS
  <2>1. CASE /\ UNCHANGED <<instances, heard, advertised>>
             /\ answers' \subseteq [from : Responders, src : Addrs]
    BY <2>1 DEF InstancesHeard
  <2>2. answers \subseteq [from : Responders, src : Addrs]  BY DEF InstancesHeard
  <2>3. ASSUME NEW p \in Responders, answer(p) PROVE answers' \subseteq [from : Responders, src : Addrs]
    BY <2>2, <2>3 DEF answer
  <2>4. CASE Tick \/ Lose \/ Cancel \/ Top \/ ReadNothing
    BY <2>1, <2>2, <2>4 DEF Tick, Lose, Cancel, Top, ReadNothing, finder
  <2>5. ASSUME NEW q \in Receivers, NEW mine \in BOOLEAN, Respond(q, mine) PROVE InstancesHeard'
    <3>1. UNCHANGED <<instances, heard, advertised>> /\ (answer(q) \/ answers' = answers)
      BY <2>5 DEF Respond, finder
    <3>. QED  BY <2>1, <2>2, <2>3, <3>1 DEF Responders
  <2>6. ASSUME NEW g \in Hosts, RespondHost(g) PROVE InstancesHeard'
    <3>1. UNCHANGED <<instances, heard, advertised>> /\ answer(g)
      BY <2>6 DEF RespondHost, finder
    <3>. QED  BY <2>1, <2>3, <3>1 DEF Responders
  <2>7. CASE \E a \in answers : ReadAnswer(a)  BY <2>7, ReadAnswerStep
  <2>8. CASE UNCHANGED finderVars  BY <2>1, <2>2, <2>8 DEF finderVars
  <2>. QED  BY <2>4, <2>5, <2>6, <2>7, <2>8 DEF FinderNext
<1>3. InstancesHeard => BestAddr  BY DEF InstancesHeard, BestAddr, connectAddr
<1>. QED  BY <1>1, <1>2, <1>3, PTL DEF FinderSpec

-----------------------------------------------------------------------------
(***************************************************************************)
(* The store.  TrustKept is not inductive: a migration overwrites the      *)
(* Keychain's list of peers and removes the file, and what it overwrites   *)
(* or removes depends on what its earlier steps have read, which Found     *)
(* says of each place a kill or a lock may find it at.                     *)
(***************************************************************************)
Lists == (SUBSET Peers) \cup {None}

StoreTypes ==
  /\ file \in [id : Nat \cup {None}, peers : Lists] \cup {None}
  /\ keychain \in [id : Nat \cup {None}, peers : Lists]
  /\ mem \in [id : Nat \cup {None}, peers : Lists] \cup {None}
  /\ made \in Nat /\ paired \subseteq Peers

(* A file that was written whole has an identity; so has a Keychain with   *)
(* peers, since every write of peers finds one there.                      *)
Whole ==
  /\ file # None /\ file # Torn => file.id \in Nat
  /\ pc = "saving" =>
       /\ file = Torn /\ mem # None /\ mem.id \in Nat
       /\ clobbered \/ \A p \in paired : p \in listed(keychain.peers) \/ p \in listed(mem.peers)
  /\ keychain.id = None => keychain.peers = None

(* What the migrations have in hand: Swift moves only a file without       *)
(* peers, and a file goes when its peers are in the Keychain.              *)
InMove ==
  /\ pc = "swiftIdentity" => decodes(file)
  /\ pc \in {"swiftPeers", "swiftRemove"} => decodes(file) /\ keychain.id # None
  /\ pc = "goIdentity" => file # None /\ file # Torn
  /\ pc \in {"goPeers", "goRemove"} => file # None /\ file # Torn /\ keychain.id # None
  /\ pc = "goRemove" => listed(file.peers) \subseteq listed(keychain.peers)

(* A migration writes to an empty Keychain, as long as none of the launch's *)
(* reads has hidden what is there.                                         *)
Found ==
  /\ pc \in {"swiftIdentity", "goFile", "goIdentity"} =>
       "id" \in misread \/ keychain.id = None
  /\ pc \in {"swiftPeers", "goPeers"} => clobbered \/ listed(keychain.peers) = {}

(* The store being loaded, or set up. *)
Loaded ==
  /\ pc \in {"loadPeers", "newIdentity", "ready"} =>
       /\ mem # None /\ mem.peers \in SUBSET Peers
       /\ mem.id = None \/ mem.id = keychain.id
  /\ pc = "ready" => mem.id # None
  /\ pc \in {"newIdentity", "ready"} =>
       "peers" \in misread \/ mem.peers = listed(keychain.peers)

(* The inductive invariant. *)
StoreInv == StoreTypes /\ TrustKept /\ Whole /\ InMove /\ Found /\ Loaded

(* A list of peers is listed as it is, and no list is empty. *)
LEMMA Listing ==
  /\ \A S \in SUBSET Peers : listed(S) = S /\ S # None
  /\ listed(None) = {}
BY StoreAssumption DEF listed

(* The parts of the values stored, and None is no such value. *)
LEMMA StoredValues ==
  ASSUME StoreTypes
  PROVE  /\ keychain.id \in Nat \cup {None} /\ keychain.peers \in Lists
         /\ keychain = [id |-> keychain.id, peers |-> keychain.peers]
         /\ listed(keychain.peers) \in SUBSET Peers
         /\ file # None => /\ file.id \in Nat \cup {None} /\ file.peers \in Lists
                           /\ file = [id |-> file.id, peers |-> file.peers]
                           /\ listed(file.peers) \in SUBSET Peers
         /\ mem # None => /\ mem.id \in Nat \cup {None} /\ mem.peers \in Lists
                          /\ mem = [id |-> mem.id, peers |-> mem.peers]
         /\ \A n \in Nat \cup {None}, S \in Lists : [id |-> n, peers |-> S] # None
         /\ None \notin Nat
BY Listing, StoreAssumption DEF StoreTypes, Lists

(* What the Keychain holds after a write. *)
LEMMA KeychainWrites ==
  ASSUME StoreTypes
  PROVE  /\ \A n : putIdentity(n) =>
              /\ keychain' = [id |-> n, peers |-> keychain.peers] /\ ~locked
              /\ ~clobbered' => ~clobbered /\ misread = {}
         /\ \A S : putPeers(S) =>
              /\ keychain' = [id |-> keychain.id, peers |-> S] /\ ~locked
              /\ ~clobbered' => ~clobbered /\ misread = {}
<1>1. keychain = [id |-> keychain.id, peers |-> keychain.peers]  BY StoredValues
<1>2. ASSUME NEW n, putIdentity(n)
      PROVE  /\ keychain' = [id |-> n, peers |-> keychain.peers] /\ ~locked
             /\ ~clobbered' => ~clobbered /\ misread = {}
  BY <1>1, <1>2 DEF putIdentity, upsert
<1>3. ASSUME NEW S, putPeers(S)
      PROVE  /\ keychain' = [id |-> keychain.id, peers |-> S] /\ ~locked
             /\ ~clobbered' => ~clobbered /\ misread = {}
  BY <1>1, <1>3 DEF putPeers, upsert
<1>. QED  BY <1>2, <1>3

(* The operations of the file store, before any migration. *)
LEMMA FileStep ==
  ASSUME StoreInv, Setup \/ Saved \/ \E p \in Peers : FileSavePeer(p) \/ FileRemovePeer(p)
  PROVE  StoreInv'
<1>1. /\ StoreTypes /\ TrustKept /\ Whole /\ pc \in {"legacy", "saving"}
      /\ UNCHANGED <<keychain, locked, misread, clobbered>>
  BY DEF StoreInv, Setup, Saved, FileSavePeer, FileRemovePeer, save
<1>2. ASSUME NEW n \in Nat, NEW S \in Lists, save([id |-> n, peers |-> S]), made' \in Nat,
             paired' \subseteq Peers,
             clobbered \/ \A q \in paired' : q \in listed(keychain.peers) \/ q \in listed(S)
      PROVE  StoreInv'
  <2>1. /\ file' = Torn /\ mem' = [id |-> n, peers |-> S] /\ pc' = "saving" /\ mem' # None
        /\ mem'.id = n /\ mem'.peers = S
    BY <1>1, <1>2, StoredValues DEF save
  <2>2. StoreTypes'  BY <1>1, <1>2, <2>1 DEF StoreTypes, Torn, Nothing, Lists
  <2>3. TrustKept'  BY <2>1 DEF TrustKept
  <2>4. Whole'  BY <1>1, <1>2, <2>1 DEF Whole
  <2>5. InMove' /\ Found' /\ Loaded'  BY <2>1 DEF InMove, Found, Loaded
  <2>. QED  BY <2>2, <2>3, <2>4, <2>5 DEF StoreInv
<1>3. CASE Setup
  <2>1. /\ file = None /\ save([id |-> made + 1, peers |-> None]) /\ made' = made + 1
        /\ paired' = paired
    BY <1>3 DEF Setup, Nothing
  <2>2. clobbered \/ \A q \in paired : q \in listed(keychain.peers)
    <3>1. file # Torn  BY <1>1, <2>1, StoredValues DEF Torn, Nothing, Lists
    <3>. QED  BY <1>1, <2>1, <3>1 DEF TrustKept
  <2>3. made' \in Nat /\ made + 1 \in Nat /\ paired' \subseteq Peers
    BY <1>1, <2>1 DEF StoreTypes
  <2>4. None \in Lists  BY DEF Lists
  <2>. QED  BY <1>2, <2>1, <2>2, <2>3, <2>4
<1>4. CASE Saved
  <2>1. /\ pc = "saving" /\ pc' = "legacy" /\ mem' = None /\ file' \in {mem, Torn}
        /\ UNCHANGED <<made, paired>>
    BY <1>4 DEF Saved
  <2>2. /\ mem # None /\ mem.id \in Nat
        /\ clobbered \/ \A q \in paired : q \in listed(keychain.peers) \/ q \in listed(mem.peers)
    BY <1>1, <2>1 DEF Whole
  <2>3. StoreTypes'  BY <1>1, <2>1, <2>2 DEF StoreTypes, Torn, Nothing, Lists
  <2>4. TrustKept'  BY <1>1, <2>1, <2>2 DEF TrustKept
  <2>5. Whole'  BY <1>1, <2>1, <2>2 DEF Whole
  <2>6. InMove' /\ Found' /\ Loaded'  BY <2>1 DEF InMove, Found, Loaded
  <2>. QED  BY <2>3, <2>4, <2>5, <2>6 DEF StoreInv
<1>5. ASSUME NEW p \in Peers, FileSavePeer(p) \/ FileRemovePeer(p) PROVE StoreInv'
  <2>1. file \notin {None, Torn} /\ made' = made
    BY <1>5 DEF FileSavePeer, FileRemovePeer
  <2>2. /\ file.id \in Nat /\ file.peers \in Lists /\ file = [id |-> file.id, peers |-> file.peers]
        /\ listed(file.peers) \in SUBSET Peers /\ made' \in Nat /\ paired \subseteq Peers
    BY <1>1, <2>1, StoredValues DEF Whole, StoreTypes
  <2>3. clobbered \/ \A q \in paired : q \in listed(keychain.peers) \/ q \in listed(file.peers)
    BY <1>1, <2>1 DEF TrustKept
  <2>4. CASE FileSavePeer(p)
    <3>. DEFINE S == listed(file.peers) \cup {p}
    <3>1. S \in Lists /\ S \in SUBSET Peers  BY <2>2 DEF Lists
    <3>2. save([id |-> file.id, peers |-> S]) /\ paired' = paired \cup {p}
      <4>1. [file EXCEPT !.peers = S] = [id |-> file.id, peers |-> S]  BY <2>2
      <4>. QED  BY <2>4, <4>1 DEF FileSavePeer
    <3>3. listed(S) = S  BY <3>1, Listing
    <3>. HIDE DEF S
    <3>4. clobbered \/ \A q \in paired' : q \in listed(keychain.peers) \/ q \in listed(S)
      BY <2>3, <3>2, <3>3 DEF S
    <3>5. paired' \subseteq Peers  BY <2>2, <3>2
    <3>. QED  BY <1>2, <2>2, <3>1, <3>2, <3>4, <3>5
  <2>5. CASE FileRemovePeer(p)
    <3>. DEFINE S == IF file.peers = None THEN None ELSE file.peers \ {p}
    <3>1. S \in Lists /\ listed(S) = listed(file.peers) \ {p}
      BY <2>2, Listing, StoreAssumption DEF Lists, listed
    <3>2. save([id |-> file.id, peers |-> S]) /\ paired' = paired \ {p}
      <4>1. [file EXCEPT !.peers = S] = [id |-> file.id, peers |-> S]  BY <2>2
      <4>. QED  BY <2>5, <4>1 DEF FileRemovePeer
    <3>. HIDE DEF S
    <3>3. clobbered \/ \A q \in paired' : q \in listed(keychain.peers) \/ q \in listed(S)
      BY <2>3, <3>1, <3>2
    <3>4. paired' \subseteq Peers  BY <2>2, <3>2
    <3>. QED  BY <1>2, <2>2, <3>1, <3>2, <3>3, <3>4
  <2>. QED  BY <1>5, <2>4, <2>5
<1>. QED  BY <1>3, <1>4, <1>5

(* Launches, kills and locks: whatever stays in memory is lost. *)
LEMMA LifeStep ==
  ASSUME StoreInv, Launch \/ Kill \/ LockChanges
  PROVE  StoreInv'
<1>1. UNCHANGED <<file, keychain, made, paired, clobbered>>
  BY DEF Launch, Kill, LockChanges
<1>2. StoreTypes /\ TrustKept /\ Whole /\ InMove /\ Found /\ Loaded  BY DEF StoreInv
<1>3. CASE Launch \/ Kill
  <2>1. pc' \in {"swift", "off"} /\ (mem' = mem \/ mem' = None)  BY <1>3 DEF Launch, Kill
  <2>. QED
    BY <1>1, <1>2, <2>1 DEF StoreInv, StoreTypes, TrustKept, Whole, InMove, Found, Loaded
<1>4. CASE LockChanges
  <2>1. UNCHANGED <<pc, mem, misread>>  BY <1>4 DEF LockChanges
  <2>. QED
    BY <1>1, <1>2, <2>1 DEF StoreInv, StoreTypes, TrustKept, Whole, InMove, Found, Loaded
<1>. QED  BY <1>3, <1>4

(* A read tells what is there, or is one that hides it. *)
LEMMA ReadTells ==
  ASSUME NEW item \in {"id", "peers"}, reads(item)
  PROVE  /\ locked /\ keychain[item] # None => item \in misread'
         /\ \A other : other \in misread /\ other # item => other \in misread'
BY DEF reads

(* The Swift migration. *)
LEMMA SwiftStep ==
  ASSUME StoreInv,
         \/ MigrateLegacyFile \/ MigrateLegacyFileIdentity
         \/ MigrateLegacyFilePeers \/ MigrateLegacyFileRemove
  PROVE  StoreInv'
<1>1. StoreTypes /\ TrustKept /\ Whole /\ InMove /\ Found  BY DEF StoreInv
<1>2. /\ pc \in {"swift", "swiftIdentity", "swiftPeers", "swiftRemove"}
      /\ pc' \in {"swiftIdentity", "swiftPeers", "swiftRemove", "go"}
      /\ UNCHANGED <<mem, made, paired>>
  BY DEF MigrateLegacyFile, MigrateLegacyFileIdentity, MigrateLegacyFilePeers,
         MigrateLegacyFileRemove
<1>3. Loaded'  BY <1>2 DEF Loaded
<1>4. CASE MigrateLegacyFile
  <2>1. /\ reads("id") /\ UNCHANGED <<file, keychain, clobbered>>
        /\ \/ pc' = "go"
           \/ pc' = "swiftIdentity" /\ getIdentity = None /\ decodes(file)
    BY <1>4 DEF MigrateLegacyFile
  <2>2. getIdentity = None => "id" \in misread' \/ keychain.id = None
    BY <2>1, ReadTells DEF getIdentity
  <2>3. StoreTypes' /\ TrustKept' /\ Whole'
    BY <1>1, <1>2, <2>1 DEF StoreTypes, TrustKept, Whole
  <2>4. InMove' /\ Found'  BY <2>1, <2>2 DEF InMove, Found, decodes
  <2>. QED  BY <1>3, <2>3, <2>4 DEF StoreInv
<1>5. CASE pc' = "go" /\ UNCHANGED <<file, keychain, clobbered, misread>>
  BY <1>1, <1>2, <1>3, <1>5 DEF StoreInv, StoreTypes, TrustKept, Whole, InMove, Found
<1>6. CASE pc = "swiftIdentity" /\ putIdentity(file.id) /\ pc' = "swiftPeers" /\ file' = file
  <2>1. decodes(file) /\ file.id \in Nat  BY <1>1, <1>6 DEF InMove, Whole, decodes
  <2>2. /\ keychain' = [id |-> file.id, peers |-> keychain.peers]
        /\ ~clobbered' => ~clobbered /\ misread = {}
    BY <1>1, <1>6, KeychainWrites
  <2>3. keychain'.peers = keychain.peers /\ keychain'.id = file.id /\ file.id # None
    BY <2>1, <2>2, StoreAssumption
  <2>4. clobbered' \/ listed(keychain'.peers) = {}
    BY <1>1, <1>6, <2>2, <2>3, Listing DEF Found, Whole
  <2>5. StoreTypes'  BY <1>1, <1>2, <1>6, <2>1, <2>2 DEF StoreTypes
  <2>6. TrustKept'  BY <1>1, <1>2, <1>6, <2>2, <2>3 DEF TrustKept
  <2>7. Whole' /\ InMove' /\ Found'
    BY <1>1, <1>6, <2>1, <2>3, <2>4 DEF Whole, InMove, Found, decodes
  <2>. QED  BY <1>3, <2>5, <2>6, <2>7 DEF StoreInv
<1>7. CASE /\ pc = "swiftPeers" /\ pc' = "swiftRemove" /\ file' = file
           /\ \/ UNCHANGED <<keychain, clobbered>>
              \/ file.peers # None /\ putPeers(file.peers)
  <2>1. /\ decodes(file) /\ listed(file.peers) = {} /\ file # None /\ file # Torn
        /\ keychain.id # None /\ file.peers \in Lists
    BY <1>1, <1>7, StoredValues DEF InMove, decodes
  <2>2. /\ \/ keychain' = keychain \/ keychain' = [id |-> keychain.id, peers |-> file.peers]
        /\ ~clobbered' => ~clobbered
    BY <1>1, <1>7, KeychainWrites
  <2>3. keychain'.id = keychain.id /\ (~clobbered => listed(keychain'.peers) = {})
    BY <1>1, <1>7, <2>1, <2>2 DEF Found
  <2>4. StoreTypes'
    <3>1. keychain' \in [id : Nat \cup {None}, peers : Lists]
      BY <1>1, <2>1, <2>2, StoredValues
    <3>. QED  BY <1>1, <1>2, <1>7, <3>1 DEF StoreTypes
  <2>5. TrustKept'
    <3>1. clobbered \/ paired = {}  BY <1>1, <1>7, <2>1 DEF TrustKept, Found
    <3>. QED  BY <1>2, <1>7, <2>2, <3>1 DEF TrustKept
  <2>6. Whole' /\ InMove' /\ Found'
    BY <1>1, <1>7, <2>1, <2>3 DEF Whole, InMove, Found
  <2>. QED  BY <1>3, <2>4, <2>5, <2>6 DEF StoreInv
<1>8. CASE MigrateLegacyFileRemove
  <2>1. /\ pc = "swiftRemove" /\ pc' = "go" /\ file' \in {None, file}
        /\ UNCHANGED <<keychain, misread, clobbered>>
    BY <1>8 DEF MigrateLegacyFileRemove
  <2>2. listed(file.peers) = {} /\ file # Torn  BY <1>1, <2>1 DEF InMove, decodes
  <2>3. StoreTypes'  BY <1>1, <1>2, <2>1 DEF StoreTypes
  <2>4. TrustKept'  BY <1>1, <1>2, <2>1, <2>2 DEF TrustKept
  <2>5. Whole' /\ InMove' /\ Found'  BY <1>1, <2>1 DEF Whole, InMove, Found
  <2>. QED  BY <1>3, <2>3, <2>4, <2>5 DEF StoreInv
<1>. QED
  BY <1>4, <1>5, <1>6, <1>7, <1>8
     DEF MigrateLegacyFile, MigrateLegacyFileIdentity, MigrateLegacyFilePeers,
         MigrateLegacyFileRemove

(* The Go migration. *)
LEMMA GoStep ==
  ASSUME StoreInv,
         \/ MigrateLegacyStore \/ MigrateLegacyStoreFile \/ MigrateLegacyStoreIdentity
         \/ MigrateLegacyStorePeers \/ MigrateLegacyStoreRemove
  PROVE  StoreInv'
<1>. USE DEF peersMoved
<1>1. StoreTypes /\ TrustKept /\ Whole /\ InMove /\ Found  BY DEF StoreInv
<1>2. /\ pc \in {"go", "goFile", "goIdentity", "goPeers", "goRemove"}
      /\ pc' \in {"goFile", "goIdentity", "goPeers", "goRemove", "load", "failed"}
      /\ UNCHANGED <<mem, made, paired>>
  BY DEF MigrateLegacyStore, MigrateLegacyStoreFile, MigrateLegacyStoreIdentity,
         MigrateLegacyStorePeers, MigrateLegacyStoreRemove
<1>3. Loaded'  BY <1>2 DEF Loaded
<1>4. CASE MigrateLegacyStore \/ MigrateLegacyStoreFile
  <2>1. UNCHANGED <<file, keychain, clobbered>>
    BY <1>4 DEF MigrateLegacyStore, MigrateLegacyStoreFile
  <2>2. StoreTypes' /\ TrustKept' /\ Whole'
    BY <1>1, <1>2, <2>1 DEF StoreTypes, TrustKept, Whole
  <2>3. CASE MigrateLegacyStore
    <3>1. reads("id") /\ (pc' = "load" \/ (pc' = "goFile" /\ getIdentity = None))
      BY <2>3 DEF MigrateLegacyStore
    <3>2. getIdentity = None => "id" \in misread' \/ keychain.id = None
      BY <3>1, ReadTells DEF getIdentity
    <3>3. InMove' /\ Found'  BY <2>1, <3>1, <3>2 DEF InMove, Found
    <3>. QED  BY <1>3, <2>2, <3>3 DEF StoreInv
  <2>4. CASE MigrateLegacyStoreFile
    <3>1. /\ pc = "goFile" /\ reads("peers")
          /\ \/ pc' \in {"load", "failed"}
             \/ pc' = "goIdentity" /\ file # None /\ file # Torn
      BY <2>4 DEF MigrateLegacyStoreFile
    <3>2. "id" \in misread => "id" \in misread'  BY <3>1, ReadTells
    <3>3. InMove' /\ Found'  BY <1>1, <2>1, <3>1, <3>2 DEF InMove, Found
    <3>. QED  BY <1>3, <2>2, <3>3 DEF StoreInv
  <2>. QED  BY <1>4, <2>3, <2>4
<1>5. CASE pc' = "failed" /\ UNCHANGED <<file, keychain, clobbered, misread>>
  BY <1>1, <1>2, <1>3, <1>5 DEF StoreInv, StoreTypes, TrustKept, Whole, InMove, Found
<1>6. CASE pc = "goIdentity" /\ putIdentity(file.id) /\ pc' = "goPeers" /\ file' = file
  <2>1. file # None /\ file # Torn /\ file.id \in Nat  BY <1>1, <1>6 DEF InMove, Whole
  <2>2. /\ keychain' = [id |-> file.id, peers |-> keychain.peers]
        /\ ~clobbered' => ~clobbered /\ misread = {}
    BY <1>1, <1>6, KeychainWrites
  <2>3. keychain'.peers = keychain.peers /\ keychain'.id = file.id /\ file.id # None
    BY <2>1, <2>2, StoreAssumption
  <2>4. clobbered' \/ listed(keychain'.peers) = {}
    BY <1>1, <1>6, <2>2, <2>3, Listing DEF Found, Whole
  <2>5. StoreTypes'  BY <1>1, <1>2, <1>6, <2>1, <2>2 DEF StoreTypes
  <2>6. TrustKept'  BY <1>1, <1>2, <1>6, <2>2, <2>3 DEF TrustKept
  <2>7. Whole' /\ InMove' /\ Found'
    BY <1>1, <1>6, <2>1, <2>3, <2>4 DEF Whole, InMove, Found
  <2>. QED  BY <1>3, <2>5, <2>6, <2>7 DEF StoreInv
<1>7. CASE /\ pc = "goPeers" /\ pc' = "goRemove" /\ file' = file
           /\ \/ listed(file.peers) = {} /\ UNCHANGED <<keychain, clobbered>>
              \/ listed(file.peers) # {} /\ putPeers(file.peers)
  <2>1. file # None /\ file # Torn /\ keychain.id # None /\ file.peers \in Lists
    BY <1>1, <1>7, StoredValues DEF InMove
  <2>2. /\ \/ keychain' = keychain /\ listed(file.peers) = {}
           \/ keychain' = [id |-> keychain.id, peers |-> file.peers]
        /\ ~clobbered' => ~clobbered
    BY <1>1, <1>7, KeychainWrites
  <2>3. keychain'.id = keychain.id /\ listed(file.peers) \subseteq listed(keychain'.peers)
    BY <2>2
  <2>4. StoreTypes'
    <3>1. keychain' \in [id : Nat \cup {None}, peers : Lists]
      BY <1>1, <2>1, <2>2, StoredValues
    <3>. QED  BY <1>1, <1>2, <1>7, <3>1 DEF StoreTypes
  <2>5. TrustKept'
    <3>1. clobbered \/ paired \subseteq listed(file.peers)
      BY <1>1, <1>7, <2>1 DEF TrustKept, Found
    <3>. QED  BY <1>2, <1>7, <2>2, <2>3, <3>1 DEF TrustKept
  <2>6. Whole' /\ InMove' /\ Found'
    BY <1>1, <1>7, <2>1, <2>3 DEF Whole, InMove, Found
  <2>. QED  BY <1>3, <2>4, <2>5, <2>6 DEF StoreInv
<1>8. CASE MigrateLegacyStoreRemove
  <2>1. /\ pc = "goRemove" /\ pc' = "load" /\ file' \in {None, file}
        /\ UNCHANGED <<keychain, misread, clobbered>>
    BY <1>8 DEF MigrateLegacyStoreRemove
  <2>2. listed(file.peers) \subseteq listed(keychain.peers) /\ file # Torn
    BY <1>1, <2>1 DEF InMove
  <2>3. StoreTypes'  BY <1>1, <1>2, <2>1 DEF StoreTypes
  <2>4. TrustKept'  BY <1>1, <1>2, <2>1, <2>2 DEF TrustKept
  <2>5. Whole' /\ InMove' /\ Found'  BY <1>1, <2>1 DEF Whole, InMove, Found
  <2>. QED  BY <1>3, <2>3, <2>4, <2>5 DEF StoreInv
<1>. QED
  BY <1>4, <1>5, <1>6, <1>7, <1>8
     DEF MigrateLegacyStoreIdentity, MigrateLegacyStorePeers

(* The store is set up from what the Keychain lets be read. *)
LEMMA LoadStep ==
  ASSUME StoreInv, LoadTrust \/ LoadPeers \/ NewIdentity
  PROVE  StoreInv'
<1>1. StoreTypes /\ TrustKept /\ Whole /\ Loaded  BY DEF StoreInv
<1>2. /\ pc' \in {"loadPeers", "ready", "newIdentity", "failed"}
      /\ UNCHANGED <<file, paired>>
  BY DEF LoadTrust, LoadPeers, NewIdentity
<1>3. InMove' /\ Found'  BY <1>2 DEF InMove, Found
<1>4. CASE LoadTrust
  <2>1. /\ mem' = [id |-> getIdentity, peers |-> {}] /\ pc' = "loadPeers"
        /\ UNCHANGED <<keychain, made, clobbered>>
    BY <1>4 DEF LoadTrust
  <2>2. getIdentity \in {None, keychain.id} /\ keychain.id \in Nat \cup {None}
    BY <1>1, StoredValues DEF getIdentity
  <2>3. mem' # None /\ mem' \in [id : Nat \cup {None}, peers : Lists]
    BY <2>1, <2>2, <1>1, StoredValues DEF Lists
  <2>4. StoreTypes' /\ TrustKept' /\ Whole'
    BY <1>1, <1>2, <2>1, <2>3 DEF StoreTypes, TrustKept, Whole
  <2>5. Loaded'  BY <2>1, <2>2, <2>3 DEF Loaded
  <2>. QED  BY <1>3, <2>4, <2>5 DEF StoreInv
<1>5. CASE LoadPeers
  <2>1. /\ pc = "loadPeers" /\ reads("peers")
        /\ mem' = [mem EXCEPT !.peers = listed(getPeers)]
        /\ pc' = IF mem.id # None THEN "ready" ELSE "newIdentity"
        /\ UNCHANGED <<keychain, made, clobbered>>
    BY <1>5 DEF LoadPeers
  <2>2. /\ mem # None /\ (mem.id = None \/ mem.id = keychain.id)
        /\ mem.id \in Nat \cup {None} /\ mem = [id |-> mem.id, peers |-> mem.peers]
    BY <1>1, <2>1, StoredValues DEF Loaded
  <2>3. /\ listed(getPeers) \in SUBSET Peers
        /\ "peers" \in misread' \/ listed(getPeers) = listed(keychain.peers)
    BY <1>1, <2>1, ReadTells, StoredValues, Listing DEF getPeers
  <2>4. mem' = [id |-> mem.id, peers |-> listed(getPeers)]  BY <2>1, <2>2
  <2>5. mem' # None /\ mem' \in [id : Nat \cup {None}, peers : Lists]
    BY <2>2, <2>3, <2>4, <1>1, StoredValues DEF Lists
  <2>6. StoreTypes' /\ Whole'
    BY <1>1, <1>2, <2>1, <2>5 DEF StoreTypes, Whole
  <2>7. TrustKept'  BY <1>1, <1>2, <2>1, <2>2, <2>3, <2>4 DEF TrustKept
  <2>8. Loaded'  BY <2>1, <2>2, <2>3, <2>4, <2>5 DEF Loaded
  <2>. QED  BY <1>3, <2>6, <2>7, <2>8 DEF StoreInv
<1>6. CASE NewIdentity /\ pc' = "ready"
  <2>1. /\ pc = "newIdentity" /\ made' = made + 1 /\ made + 1 \in Nat /\ misread' = misread
        /\ putIdentity(made + 1) /\ mem' = [mem EXCEPT !.id = made + 1]
    BY <1>1, <1>6 DEF NewIdentity, StoreTypes
  <2>2. /\ mem # None /\ mem.peers \in SUBSET Peers /\ mem = [id |-> mem.id, peers |-> mem.peers]
        /\ "peers" \in misread \/ mem.peers = listed(keychain.peers)
    BY <1>1, <2>1, StoredValues DEF Loaded
  <2>3. /\ keychain' = [id |-> made + 1, peers |-> keychain.peers]
        /\ ~clobbered' => ~clobbered
    BY <1>1, <2>1, KeychainWrites
  <2>4. mem' = [id |-> made + 1, peers |-> mem.peers]  BY <2>1, <2>2
  <2>5. /\ mem' # None /\ made + 1 # None /\ mem' \in [id : Nat \cup {None}, peers : Lists]
        /\ keychain' \in [id : Nat \cup {None}, peers : Lists]
    BY <1>1, <2>1, <2>2, <2>3, <2>4, StoredValues DEF Lists
  <2>6. StoreTypes' /\ Whole'
    BY <1>1, <1>2, <1>6, <2>1, <2>3, <2>5 DEF StoreTypes, Whole
  <2>7. TrustKept'  BY <1>1, <1>2, <2>1, <2>2, <2>3, <2>4 DEF TrustKept
  <2>8. Loaded'  BY <1>6, <2>1, <2>2, <2>3, <2>4, <2>5 DEF Loaded
  <2>. QED  BY <1>3, <2>6, <2>7, <2>8 DEF StoreInv
<1>7. CASE NewIdentity /\ pc' = "failed"
  <2>1. made' = made + 1 /\ mem' = None /\ UNCHANGED <<keychain, misread, clobbered>>
    BY <1>7 DEF NewIdentity
  <2>2. StoreTypes'  BY <1>1, <1>2, <2>1 DEF StoreTypes
  <2>3. TrustKept' /\ Whole' /\ Loaded'
    BY <1>1, <1>2, <1>7, <2>1 DEF TrustKept, Whole, Loaded
  <2>. QED  BY <1>3, <2>2, <2>3 DEF StoreInv
<1>. QED  BY <1>4, <1>5, <1>6, <1>7 DEF NewIdentity

(* The Keychain store writes its list first, then keeps it in memory. *)
LEMMA PeersStep ==
  ASSUME StoreInv, NEW p \in Peers, KeychainSavePeer(p) \/ KeychainRemovePeer(p)
  PROVE  StoreInv'
<1>1. StoreTypes /\ TrustKept /\ Whole /\ Loaded  BY DEF StoreInv
<1>2. pc = "ready" /\ UNCHANGED <<pc, file, made, locked, misread>>
  BY DEF KeychainSavePeer, KeychainRemovePeer
<1>3. /\ mem # None /\ mem.id \in Nat /\ mem.id = keychain.id
      /\ mem.peers \in SUBSET Peers /\ mem = [id |-> mem.id, peers |-> mem.peers]
      /\ "peers" \in misread \/ mem.peers = listed(keychain.peers)
  BY <1>1, <1>2, StoredValues DEF Loaded
<1>4. ASSUME NEW S \in SUBSET Peers, putPeers(S), mem' = [mem EXCEPT !.peers = S],
             paired' \subseteq Peers,
             \A q \in paired' : q \in S \/ (q \in paired /\ q \notin mem.peers)
      PROVE  StoreInv'
  <2>1. /\ keychain' = [id |-> mem.id, peers |-> S] /\ mem' = [id |-> mem.id, peers |-> S]
        /\ ~clobbered' => ~clobbered /\ misread = {}
    BY <1>1, <1>3, <1>4, KeychainWrites
  <2>2. /\ listed(keychain'.peers) = S /\ S \in Lists /\ mem' # None /\ mem.id # None
        /\ S # None
    BY <1>1, <1>3, <2>1, StoredValues, Listing DEF Lists
  <2>3. StoreTypes'  BY <1>1, <1>2, <1>3, <1>4, <2>1, <2>2 DEF StoreTypes
  <2>4. TrustKept'
    <3>1. clobbered' \/ file = Torn \/
            \A q \in paired' : q \in S \/ (file # None /\ q \in listed(file.peers))
      BY <1>1, <1>3, <1>4, <2>1 DEF TrustKept
    <3>. QED  BY <1>2, <2>1, <2>2, <3>1 DEF TrustKept
  <2>5. Whole' /\ Loaded'  BY <1>1, <1>2, <1>4, <2>1, <2>2 DEF Whole, Loaded
  <2>6. InMove' /\ Found'  BY <1>2 DEF InMove, Found
  <2>. QED  BY <2>3, <2>4, <2>5, <2>6 DEF StoreInv
<1>5. CASE KeychainSavePeer(p)
  <2>1. /\ putPeers(mem.peers \cup {p}) /\ mem' = [mem EXCEPT !.peers = mem.peers \cup {p}]
        /\ paired' = paired \cup {p}
    BY <1>5 DEF KeychainSavePeer
  <2>. QED  BY <1>1, <1>3, <1>4, <2>1 DEF StoreTypes
<1>6. CASE KeychainRemovePeer(p)
  <2>1. /\ putPeers(mem.peers \ {p}) /\ mem' = [mem EXCEPT !.peers = mem.peers \ {p}]
        /\ paired' = paired \ {p}
    BY <1>6 DEF KeychainRemovePeer
  <2>. QED  BY <1>1, <1>3, <1>4, <2>1 DEF StoreTypes
<1>. QED  BY <1>5, <1>6

(* No pairing is lost, wherever the app is killed and whenever the         *)
(* Keychain locks between two of its calls, but by a torn file or a write  *)
(* that follows a read which hid what is there: for every set of peers and *)
(* every number of launches (migrateLegacyFile, migrateLegacyStore,        *)
(* keychainStore).                                                         *)
THEOREM NoPairingLost == StoreSpec => []TrustKept
<1>1. StoreInit => StoreInv
  <2>. SUFFICES ASSUME StoreInit PROVE StoreInv  OBVIOUS
  <2>. USE DEF StoreInit, Nothing
  <2>1. StoreTypes  BY DEF StoreTypes, Lists
  <2>2. TrustKept /\ Whole  BY DEF TrustKept, Whole
  <2>3. InMove /\ Found /\ Loaded  BY DEF InMove, Found, Loaded
  <2>. QED  BY <2>1, <2>2, <2>3 DEF StoreInv
<1>2. StoreInv /\ [StoreNext]_storeVars => StoreInv'
  <2>. SUFFICES ASSUME StoreInv, [StoreNext]_storeVars PROVE StoreInv'  OBVIOUS
  <2>1. CASE UNCHANGED storeVars
    BY <2>1 DEF storeVars, StoreInv, StoreTypes, TrustKept, Whole, InMove, Found, Loaded
  <2>2. CASE \E p \in Peers : KeychainSavePeer(p) \/ KeychainRemovePeer(p)
    BY <2>2, PeersStep
  <2>. QED  BY <2>1, <2>2, FileStep, LifeStep, SwiftStep, GoStep, LoadStep DEF StoreNext
<1>3. StoreInv => TrustKept  BY DEF StoreInv
<1>. QED  BY <1>1, <1>2, <1>3, PTL DEF StoreSpec

-----------------------------------------------------------------------------
(***************************************************************************)
(* The pairing.  PairedByCode compares the two sides' keys, which are      *)
(* tuples of everything either side has heard; the invariant says what     *)
(* each side has heard at each point of its runPairing, and which message  *)
(* may be on the connection then.  No bound on the attempts, the codes or  *)
(* the phones is used.                                                     *)
(***************************************************************************)
(* The Exchange of a side: its fields, in the order of NewExchange. *)
Heard(pub, pin, partner, salt, tr, secret) ==
  [pub |-> pub, pin |-> pin, peer |-> partner, salt |-> salt, tr |-> tr, secret |-> secret]

(* The keys of an attempt, and the parts of its transcript. *)
phoneKey(p) == <<"R", p, try[p]>>
hostKey(p) == <<"S", p, try[p]>>
opened(p) == <<"begin", <<p, try[p]>>>>
challenged(p) == <<"challenge", hostKey(p), hostKey(p)>>
confirmed(p) == <<"confirm", phoneKey(p)>>
whole(p) == <<opened(p), challenged(p), confirmed(p)>>

(* What the phone has heard when it waits for the result. *)
PhoneAtEnd(p, secret) ==
  r[p] = Heard(phoneKey(p), r[p].pin, hostKey(p), hostKey(p), whole(p), secret)

PhoneHeard(p) ==
  /\ rpc[p] \in {"begin", "pin", "challenge", "result", "paired"}
  /\ rpc[p] = "begin" =>
       r[p] = Heard(phoneKey(p), 0, Nil, phoneKey(p), <<>>, <<>>)
  /\ rpc[p] \in {"pin", "challenge"} =>
       r[p] = Heard(phoneKey(p), r[p].pin, Nil, phoneKey(p), <<opened(p)>>, <<>>)
  /\ rpc[p] = "result" => PhoneAtEnd(p, <<>>)
  /\ rpc[p] = "paired" => PhoneAtEnd(p, secretOf(r[p])) /\ hostPc[p] = "paired"

(* What the host has heard when it decides. *)
HostAtEnd(p, secret) ==
  h[p] = Heard(hostKey(p), h[p].pin, phoneKey(p), hostKey(p), whole(p), secret)

HostHeard(p) ==
  /\ hostPc[p] \in {"lock", "begin", "confirm", "refused", "paired", "gone"}
  /\ hostPc[p] \in {"lock", "begin"} =>
       h[p] = Heard(hostKey(p), 0, Nil, hostKey(p), <<>>, <<>>)
  /\ hostPc[p] = "confirm" =>
       /\ h[p] = Heard(hostKey(p), h[p].pin, Nil, hostKey(p), <<opened(p), challenged(p)>>, <<>>)
       /\ rpc[p] \in {"pin", "challenge", "result"}
  /\ hostPc[p] = "refused" =>
       HostAtEnd(p, <<>>) /\ rpc[p] = "result" /\ r[p].pin # h[p].pin
  /\ hostPc[p] = "paired" =>
       HostAtEnd(p, secretOf(h[p])) /\ rpc[p] \in {"result", "paired"} /\ r[p].pin = h[p].pin

(* The message on the connection belongs to the point either side is at. *)
OnWire(p) ==
  \/ wire[p] = Nil
  \/ /\ wire[p] = [type |-> "BEGIN", nonce |-> <<p, try[p]>>]
     /\ rpc[p] \in {"pin", "challenge"} /\ hostPc[p] \in {"lock", "begin", "gone"}
  \/ /\ wire[p] = [type |-> "CHALLENGE", pub |-> hostKey(p), salt |-> hostKey(p)]
     /\ rpc[p] \in {"pin", "challenge"} /\ hostPc[p] = "confirm"
  \/ /\ wire[p] = [type |-> "CONFIRM", pub |-> phoneKey(p), tag |-> tag(r[p], "R")]
     /\ rpc[p] = "result" /\ hostPc[p] = "confirm"
  \/ /\ wire[p] = [type |-> "RESULT", tag |-> tag(h[p], "S")]
     /\ rpc[p] = "result" /\ hostPc[p] = "paired"

(* The pairing's state is a function of the phones. *)
PerPhone ==
  /\ try = [p \in Devices |-> try[p]]
  /\ rpc = [p \in Devices |-> rpc[p]] /\ hostPc = [p \in Devices |-> hostPc[p]]
  /\ r = [p \in Devices |-> r[p]] /\ h = [p \in Devices |-> h[p]]
  /\ wire = [p \in Devices |-> wire[p]]

(* The inductive invariant. *)
ExchangeInv ==
  PerPhone /\ \A p \in Devices : PhoneHeard(p) /\ HostHeard(p) /\ OnWire(p)

(* Adding a part to a transcript leaves the other fields alone, and the    *)
(* transcript grows by one part at its end.                                *)
LEMMA AddedPart ==
  ASSUME NEW e, NEW pub, NEW pin, NEW partner, NEW salt, NEW tr, NEW secret, NEW part,
         e = Heard(pub, pin, partner, salt, tr, secret)
  PROVE  added(e, part)
           = Heard(pub, pin, partner, salt, Append(tr, part), secret)
BY DEF added, Heard

LEMMA OnePart == ASSUME NEW part PROVE Append(<<>>, part) = <<part>>
OBVIOUS

LEMMA TwoParts == ASSUME NEW part1, NEW part2
  PROVE Append(<<part1>>, part2) = <<part1, part2>>
<1>. DEFINE S == {part1, part2}
<1>1. <<part1>> \in Seq(S) /\ <<part1, part2>> \in Seq(S)  OBVIOUS
<1>2. Append(<<part1>>, part2) \in Seq(S)  BY <1>1
<1>3. Len(Append(<<part1>>, part2)) = Len(<<part1, part2>>)  BY <1>1
<1>4. \A i \in 1 .. 2 : Append(<<part1>>, part2)[i] = <<part1, part2>>[i]  BY <1>1
<1>. QED  BY <1>1, <1>2, <1>3, <1>4, SeqEqual

LEMMA ThreeParts == ASSUME NEW part1, NEW part2, NEW part3
  PROVE Append(<<part1, part2>>, part3) = <<part1, part2, part3>>
<1>. DEFINE S == {part1, part2, part3}
            longer == Append(<<part1, part2>>, part3)
<1>1. <<part1, part2>> \in Seq(S) /\ <<part1, part2, part3>> \in Seq(S)  OBVIOUS
<1>2. longer \in Seq(S)  BY <1>1
<1>3. Len(longer) = Len(<<part1, part2, part3>>)  BY <1>1
<1>4. \A i \in 1 .. 3 : longer[i] = <<part1, part2, part3>>[i]  BY <1>1
<1>. QED  BY <1>1, <1>2, <1>3, <1>4, SeqEqual

(* A code that is set replaces no other field. *)
LEMMA PinSet ==
  ASSUME NEW e, NEW pub, NEW pin, NEW partner, NEW salt, NEW tr, NEW secret, NEW new,
         e = Heard(pub, pin, partner, salt, tr, secret)
  PROVE  [e EXCEPT !.pin = new] = Heard(pub, new, partner, salt, tr, secret)
BY DEF Heard

(* A step of one phone's pairing leaves the others' as it was. *)
LEMMA OtherPhones ==
  ASSUME NEW p \in Devices, NEW q \in Devices, q # p,
         PhoneHeard(q), HostHeard(q), OnWire(q),
         try'[q] = try[q], rpc'[q] = rpc[q], hostPc'[q] = hostPc[q],
         r'[q] = r[q], h'[q] = h[q], wire'[q] = wire[q]
  PROVE  PhoneHeard(q)' /\ HostHeard(q)' /\ OnWire(q)'
<1>1. /\ phoneKey(q)' = phoneKey(q) /\ hostKey(q)' = hostKey(q)
      /\ opened(q)' = opened(q)
  BY DEF phoneKey, hostKey, opened
<1>2. challenged(q)' = challenged(q) /\ confirmed(q)' = confirmed(q)
  BY <1>1 DEF challenged, confirmed
<1>3. whole(q)' = whole(q)  BY <1>1, <1>2 DEF whole
<1>4. secretOf(r[q])' = secretOf(r[q]) /\ secretOf(h[q])' = secretOf(h[q])
      /\ tag(r[q], "R")' = tag(r[q], "R") /\ tag(h[q], "S")' = tag(h[q], "S")
  BY DEF secretOf, tag, macKey, ikm
<1>5. PhoneHeard(q)'  BY <1>1, <1>3, <1>4 DEF PhoneHeard, PhoneAtEnd
<1>6. HostHeard(q)'  BY <1>1, <1>2, <1>3, <1>4 DEF HostHeard, HostAtEnd
<1>7. OnWire(q)'  BY <1>1, <1>4 DEF OnWire
<1>. QED  BY <1>5, <1>6, <1>7

(* The phone's steps keep the invariant for the phone itself. *)
LEMMA PhoneSteps ==
  ASSUME ExchangeInv, NEW p \in Devices,
         BeginMessage(p) \/ (\E pin \in 0 .. codes : TypePIN(p, pin))
           \/ Confirm(p) \/ OnResult(p)
  PROVE  PhoneHeard(p)' /\ HostHeard(p)' /\ OnWire(p)'
<1>. USE DEF ExchangeInv
<1>1. /\ try' = try /\ hostPc' = hostPc /\ h' = h
  BY DEF BeginMessage, TypePIN, Confirm, OnResult
<1>2. /\ phoneKey(p)' = phoneKey(p) /\ hostKey(p)' = hostKey(p)
      /\ opened(p)' = opened(p) /\ challenged(p)' = challenged(p)
      /\ whole(p)' = whole(p)
      /\ secretOf(h[p])' = secretOf(h[p]) /\ tag(h[p], "S")' = tag(h[p], "S")
  BY <1>1 DEF phoneKey, hostKey, opened, challenged, confirmed, whole, secretOf, tag, macKey, ikm
<1>3. CASE BeginMessage(p)
  <2>1. rpc[p] = "begin" /\ rpc'[p] = "pin" /\ wire[p] = Nil
        /\ r'[p] = added(r[p], opened(p))
        /\ wire'[p] = [type |-> "BEGIN", nonce |-> <<p, try[p]>>]
    BY <1>3 DEF BeginMessage, PerPhone, opened
  <2>2. r'[p] = Heard(phoneKey(p), 0, Nil, phoneKey(p), <<opened(p)>>, <<>>)
    <3>1. r[p] = Heard(phoneKey(p), 0, Nil, phoneKey(p), <<>>, <<>>)
      BY <2>1 DEF PhoneHeard
    <3>2. added(r[p], opened(p))
            = Heard(phoneKey(p), 0, Nil, phoneKey(p), Append(<<>>, opened(p)), <<>>)
      <4>. DEFINE e == r[p]  k == phoneKey(p)  b == opened(p)  none == <<>>
      <4>1. e = Heard(k, 0, Nil, k, none, none)  BY <3>1
      <4>. HIDE DEF e, k, b, none
      <4>2. added(e, b) = Heard(k, 0, Nil, k, Append(none, b), none)  BY <4>1, AddedPart
      <4>. QED  BY <4>2 DEF e, k, b, none
    <3>. QED  BY <2>1, <3>2, OnePart
  <2>3. r'[p].pin = 0  BY <2>2 DEF Heard
  <2>4. PhoneHeard(p)'  BY <1>2, <2>1, <2>2, <2>3 DEF PhoneHeard
  <2>5. hostPc[p] \in {"lock", "begin", "gone"}  BY <2>1 DEF HostHeard
  <2>6. HostHeard(p)'  BY <1>1, <1>2, <2>5 DEF HostHeard
  <2>7. OnWire(p)'  BY <1>1, <2>1, <2>5 DEF OnWire
  <2>. QED  BY <2>4, <2>6, <2>7
<1>4. ASSUME NEW pin \in 0 .. codes, TypePIN(p, pin)
      PROVE  PhoneHeard(p)' /\ HostHeard(p)' /\ OnWire(p)'
  <2>1. rpc[p] = "pin" /\ rpc'[p] = "challenge" /\ wire'[p] = wire[p]
        /\ r'[p] = [r[p] EXCEPT !.pin = pin]
    BY <1>4 DEF TypePIN, PerPhone, SetPIN
  <2>2. r'[p] = Heard(phoneKey(p), pin, Nil, phoneKey(p), <<opened(p)>>, <<>>)
    <3>1. r[p] = Heard(phoneKey(p), r[p].pin, Nil, phoneKey(p), <<opened(p)>>, <<>>)
      BY <2>1 DEF PhoneHeard
    <3>. QED  BY <2>1, <3>1, PinSet
  <2>3. r'[p].pin = pin  BY <2>2 DEF Heard
  <2>4. PhoneHeard(p)'  BY <1>2, <2>1, <2>2, <2>3 DEF PhoneHeard
  <2>5. hostPc[p] \in {"lock", "begin", "gone", "confirm"}  BY <2>1 DEF HostHeard
  <2>6. HostHeard(p)'  BY <1>1, <1>2, <2>1, <2>5 DEF HostHeard
  <2>7. OnWire(p)'  BY <1>1, <1>2, <2>1 DEF OnWire
  <2>. QED  BY <2>4, <2>6, <2>7
<1>5. CASE Confirm(p)
  <2>1. rpc[p] = "challenge" /\ rpc'[p] = "result"
        /\ wire[p] = [type |-> "CHALLENGE", pub |-> hostKey(p), salt |-> hostKey(p)]
        /\ hostPc[p] = "confirm"
    BY <1>5 DEF Confirm, PerPhone, OnWire
  <2>. DEFINE e == ConfirmMessage(OnChallenge(r[p], wire[p]))
  <2>2. r'[p] = e /\ wire'[p] = [type |-> "CONFIRM", pub |-> e.pub, tag |-> tag(e, "R")]
    BY <1>5 DEF Confirm, PerPhone
  <2>3. [r[p] EXCEPT !.peer = wire[p].pub, !.salt = wire[p].salt]
          = Heard(phoneKey(p), r[p].pin, hostKey(p), hostKey(p), <<opened(p)>>, <<>>)
    <3>1. r[p] = Heard(phoneKey(p), r[p].pin, Nil, phoneKey(p), <<opened(p)>>, <<>>)
      BY <2>1 DEF PhoneHeard
    <3>2. wire[p].pub = hostKey(p) /\ wire[p].salt = hostKey(p)  BY <2>1
    <3>. DEFINE x == r[p]  k == phoneKey(p)  t == <<opened(p)>>
                n == r[p].pin  none == <<>>  a == wire[p].pub  b == wire[p].salt
    <3>3. x = Heard(k, n, Nil, k, t, none)  BY <3>1
    <3>. HIDE DEF x, k, n, t, none, a, b
    <3>. DEFINE f == [x EXCEPT !.peer = a]
    <3>4. f = Heard(k, n, a, k, t, none)  BY <3>3 DEF Heard
    <3>5. [f EXCEPT !.salt = b] = [x EXCEPT !.peer = a, !.salt = b]  OBVIOUS
    <3>. HIDE DEF f
    <3>6. [f EXCEPT !.salt = b] = Heard(k, n, a, b, t, none)  BY <3>4 DEF Heard
    <3>. QED  BY <3>2, <3>5, <3>6 DEF x, k, n, t, none, a, b
  <2>4. OnChallenge(r[p], wire[p])
          = Heard(phoneKey(p), r[p].pin, hostKey(p), hostKey(p), <<opened(p), challenged(p)>>, <<>>)
    <3>1. wire[p].pub = hostKey(p) /\ wire[p].salt = hostKey(p)  BY <2>1
    <3>2. OnChallenge(r[p], wire[p])
            = added([r[p] EXCEPT !.peer = wire[p].pub, !.salt = wire[p].salt], challenged(p))
      BY <3>1 DEF OnChallenge, challenged
    <3>3. added([r[p] EXCEPT !.peer = wire[p].pub, !.salt = wire[p].salt], challenged(p))
            = Heard(phoneKey(p), r[p].pin, hostKey(p), hostKey(p),
                    Append(<<opened(p)>>, challenged(p)), <<>>)
      BY <2>3, AddedPart
    <3>. QED  BY <3>2, <3>3, TwoParts
  <2>5. e = Heard(phoneKey(p), r[p].pin, hostKey(p), hostKey(p), whole(p), <<>>)
    <3>1. OnChallenge(r[p], wire[p]).pub = phoneKey(p)  BY <2>4 DEF Heard
    <3>2. e = added(OnChallenge(r[p], wire[p]), confirmed(p))
      BY <3>1 DEF ConfirmMessage, confirmed
    <3>3. added(OnChallenge(r[p], wire[p]), confirmed(p))
            = Heard(phoneKey(p), r[p].pin, hostKey(p), hostKey(p),
                    Append(<<opened(p), challenged(p)>>, confirmed(p)), <<>>)
      BY <2>4, AddedPart
    <3>4. Append(<<opened(p), challenged(p)>>, confirmed(p)) = whole(p)
      BY ThreeParts DEF whole
    <3>. QED  BY <3>2, <3>3, <3>4
  <2>6. e.pin = r[p].pin /\ e.pub = phoneKey(p)  BY <2>5 DEF Heard
  <2>. HIDE DEF e
  <2>7. PhoneHeard(p)'  BY <1>2, <2>1, <2>2, <2>5, <2>6 DEF PhoneHeard, PhoneAtEnd
  <2>8. HostHeard(p)'  BY <1>1, <1>2, <2>1 DEF HostHeard
  <2>9. tag(r[p], "R")' = tag(e, "R")  BY <2>2 DEF tag, macKey, ikm
  <2>10. OnWire(p)'  BY <1>1, <1>2, <2>1, <2>2, <2>6, <2>9 DEF OnWire
  <2>. QED  BY <2>7, <2>8, <2>10
<1>6. CASE OnResult(p)
  <2>1. rpc[p] = "result" /\ wire'[p] = Nil
        /\ wire[p] = [type |-> "RESULT", tag |-> tag(h[p], "S")] /\ hostPc[p] = "paired"
    BY <1>6 DEF OnResult, PerPhone, OnWire
  <2>2. PhoneAtEnd(p, <<>>) /\ HostAtEnd(p, secretOf(h[p])) /\ r[p].pin = h[p].pin
    BY <2>1 DEF PhoneHeard, HostHeard
  <2>3. /\ r[p].pub = phoneKey(p) /\ r[p].peer = hostKey(p) /\ r[p].salt = hostKey(p)
        /\ r[p].tr = whole(p)
        /\ h[p].pub = hostKey(p) /\ h[p].peer = phoneKey(p) /\ h[p].salt = hostKey(p)
        /\ h[p].tr = whole(p)
    BY <2>2 DEF PhoneAtEnd, HostAtEnd, Heard
  <2>4. ikm(r[p]) = ikm(h[p])
    <3>1. {r[p].pub, r[p].peer} = {h[p].pub, h[p].peer}  BY <2>3
    <3>. QED  BY <2>3, <3>1 DEF ikm
  <2>5. wire[p].tag = tag(r[p], "S")
    BY <2>1, <2>2, <2>3, <2>4 DEF tag, macKey
  <2>6. r'[p] = [r[p] EXCEPT !.secret = secretOf(r[p])] /\ rpc'[p] = "paired"
    BY <1>6, <2>5 DEF OnResult, PerPhone
  <2>7. r'[p] = Heard(phoneKey(p), r[p].pin, hostKey(p), hostKey(p), whole(p), secretOf(r[p]))
    BY <2>2, <2>6 DEF PhoneAtEnd, Heard
  <2>8. /\ r'[p].pin = r[p].pin /\ r'[p].pub = r[p].pub /\ r'[p].peer = r[p].peer
        /\ r'[p].tr = r[p].tr /\ r'[p].salt = r[p].salt
    BY <2>3, <2>7 DEF Heard
  <2>9. secretOf(r[p])' = secretOf(r[p])  BY <2>8 DEF secretOf, ikm
  <2>10. PhoneHeard(p)'
    BY <1>1, <1>2, <2>1, <2>6, <2>7, <2>8, <2>9 DEF PhoneHeard, PhoneAtEnd
  <2>11. HostHeard(p)'
    <3>1. HostAtEnd(p, secretOf(h[p]))'  BY <1>1, <1>2, <2>2 DEF HostAtEnd
    <3>. QED  BY <1>1, <2>1, <2>2, <2>6, <2>8, <3>1 DEF HostHeard
  <2>12. OnWire(p)'  BY <2>1 DEF OnWire
  <2>. QED  BY <2>10, <2>11, <2>12
<1>. QED  BY <1>3, <1>4, <1>5, <1>6

(* The host's steps keep the invariant for the phone itself. *)
LEMMA HostSteps ==
  ASSUME ExchangeInv, NEW p \in Devices,
         Lock(p) \/ Challenge(p) \/ Result(p) \/ GiveUp(p)
  PROVE  PhoneHeard(p)' /\ HostHeard(p)' /\ OnWire(p)'
<1>. USE DEF ExchangeInv
<1>1. try' = try /\ rpc' = rpc /\ r' = r
  BY DEF Lock, Challenge, Result, GiveUp
<1>2. /\ phoneKey(p)' = phoneKey(p) /\ hostKey(p)' = hostKey(p)
      /\ opened(p)' = opened(p) /\ challenged(p)' = challenged(p)
      /\ whole(p)' = whole(p)
      /\ secretOf(r[p])' = secretOf(r[p]) /\ tag(r[p], "R")' = tag(r[p], "R")
  BY <1>1 DEF phoneKey, hostKey, opened, challenged, confirmed, whole, secretOf, tag, macKey, ikm
<1>3. ASSUME hostPc[p] # "paired"  PROVE PhoneHeard(p)'
  BY <1>1, <1>2, <1>3 DEF PhoneHeard, PhoneAtEnd
<1>4. CASE Lock(p)
  <2>1. hostPc[p] = "lock" /\ hostPc'[p] = "begin" /\ h' = h /\ wire' = wire
    BY <1>4 DEF Lock, PerPhone
  <2>2. HostHeard(p)'  BY <1>2, <2>1 DEF HostHeard
  <2>3. OnWire(p)'  BY <1>1, <1>2, <2>1 DEF OnWire
  <2>. QED  BY <1>3, <2>1, <2>2, <2>3
<1>5. CASE Challenge(p)
  <2>. DEFINE n == codes + 1
              keyed == [h[p] EXCEPT !.pin = n]
              e == added(keyed, <<"begin", wire[p].nonce>>)
              sent == added(e, <<"challenge", e.pub, e.salt>>)
  <2>1. hostPc[p] = "begin" /\ hostPc'[p] = "confirm"
        /\ wire[p] = [type |-> "BEGIN", nonce |-> <<p, try[p]>>]
        /\ rpc[p] \in {"pin", "challenge"}
    BY <1>5 DEF Challenge, PerPhone, OnWire
  <2>2. h'[p] = sent /\ wire'[p] = [type |-> "CHALLENGE", pub |-> e.pub, salt |-> e.salt]
    BY <1>5 DEF Challenge, PerPhone, SetPIN
  <2>3. keyed = Heard(hostKey(p), n, Nil, hostKey(p), <<>>, <<>>)
    <3>1. h[p] = Heard(hostKey(p), 0, Nil, hostKey(p), <<>>, <<>>)
      BY <2>1 DEF HostHeard
    <3>. HIDE DEF n
    <3>. QED  BY <3>1 DEF Heard
  <2>4. <<"begin", wire[p].nonce>> = opened(p)  BY <2>1 DEF opened
  <2>. HIDE DEF n, keyed
  <2>5. e = Heard(hostKey(p), n, Nil, hostKey(p), <<opened(p)>>, <<>>)
    <3>. DEFINE s == hostKey(p)  b == opened(p)  none == <<>>
    <3>1. keyed = Heard(s, n, Nil, s, none, none) /\ e = added(keyed, b)  BY <2>3, <2>4
    <3>. HIDE DEF s, b, none, e
    <3>2. e = Heard(s, n, Nil, s, Append(none, b), none)  BY <3>1, AddedPart
    <3>. QED  BY <3>2, OnePart DEF s, b, none
  <2>6. e.pub = hostKey(p) /\ e.salt = hostKey(p)  BY <2>5 DEF Heard
  <2>. HIDE DEF e
  <2>7. sent = Heard(hostKey(p), n, Nil, hostKey(p), <<opened(p), challenged(p)>>, <<>>)
    <3>. DEFINE s == hostKey(p)  b == <<opened(p)>>  c == challenged(p)  none == <<>>
    <3>1. e = Heard(s, n, Nil, s, b, none) /\ sent = added(e, c)
      BY <2>5, <2>6 DEF challenged
    <3>. HIDE DEF s, b, c, none, sent
    <3>2. sent = Heard(s, n, Nil, s, Append(b, c), none)  BY <3>1, AddedPart
    <3>. QED  BY <3>2, TwoParts DEF s, b, c, none
  <2>8. sent.pin = n  BY <2>7 DEF Heard
  <2>. HIDE DEF sent
  <2>9. HostHeard(p)'  BY <1>1, <1>2, <2>1, <2>2, <2>7, <2>8 DEF HostHeard
  <2>10. OnWire(p)'  BY <1>1, <1>2, <2>1, <2>2, <2>6 DEF OnWire
  <2>. QED  BY <1>3, <2>1, <2>9, <2>10
<1>6. CASE Result(p)
  <2>. DEFINE e == added([h[p] EXCEPT !.peer = wire[p].pub], <<"confirm", wire[p].pub>>)
              right == wire[p].tag = tag(e, "R")
  <2>1. hostPc[p] = "confirm" /\ rpc[p] = "result"
        /\ wire[p] = [type |-> "CONFIRM", pub |-> phoneKey(p), tag |-> tag(r[p], "R")]
    <3>1. hostPc[p] = "confirm" /\ wire[p] # Nil /\ wire[p].type = "CONFIRM"
      BY <1>6 DEF Result
    <3>2. OnWire(p)  OBVIOUS
    <3>. HIDE DEF ExchangeInv
    <3>. QED  BY <3>1, <3>2 DEF OnWire
  <2>2. \/ /\ right
           /\ h'[p] = [e EXCEPT !.secret = secretOf(e)] /\ hostPc'[p] = "paired"
           /\ wire'[p] = [type |-> "RESULT", tag |-> tag(e, "S")]
        \/ ~right /\ h'[p] = e /\ wire'[p] = Nil /\ hostPc'[p] = "refused"
    <3>1. OnConfirm(h[p], wire[p]) = [after |-> e, right |-> right]  BY DEF OnConfirm
    <3>. HIDE DEF e, right
    <3>. QED  BY <1>6, <3>1 DEF Result, PerPhone
  <2>3. wire[p].pub = phoneKey(p) /\ <<"confirm", wire[p].pub>> = confirmed(p)
    BY <2>1 DEF confirmed
  <2>4. e = Heard(hostKey(p), h[p].pin, phoneKey(p), hostKey(p), whole(p), <<>>)
    <3>. DEFINE g == h[p]  s == hostKey(p)  k == phoneKey(p)  n == h[p].pin
                b == <<opened(p), challenged(p)>>  c == confirmed(p)  none == <<>>
                keyed == [g EXCEPT !.peer = k]
    <3>1. g = Heard(s, n, Nil, s, b, none)  BY <2>1 DEF HostHeard
    <3>2. e = added(keyed, c)  BY <2>3
    <3>. HIDE DEF g, s, k, n, b, c, none, e
    <3>3. keyed = Heard(s, n, k, s, b, none)  BY <3>1 DEF Heard
    <3>. HIDE DEF keyed
    <3>4. e = Heard(s, n, k, s, Append(b, c), none)  BY <3>2, <3>3, AddedPart
    <3>. QED  BY <3>4, ThreeParts DEF s, k, n, b, c, none, whole
  <2>5. PhoneAtEnd(p, <<>>)  BY <2>1 DEF PhoneHeard
  <2>6. /\ r[p].pub = phoneKey(p) /\ r[p].peer = hostKey(p) /\ r[p].salt = hostKey(p)
        /\ r[p].tr = whole(p)
    BY <2>5 DEF PhoneAtEnd, Heard
  <2>7. /\ e.pub = hostKey(p) /\ e.peer = phoneKey(p) /\ e.salt = hostKey(p)
        /\ e.tr = whole(p) /\ e.pin = h[p].pin
    BY <2>4 DEF Heard
  <2>. HIDE DEF e
  <2>8. ikm(e) = ikm(r[p])
    <3>1. {e.pub, e.peer} = {r[p].pub, r[p].peer}  BY <2>6, <2>7
    <3>. QED  BY <2>6, <2>7, <3>1 DEF ikm
  <2>9. right <=> r[p].pin = h[p].pin
    <3>1. wire[p].tag = tag(r[p], "R")  BY <2>1
    <3>2. r[p].pin = h[p].pin => tag(r[p], "R") = tag(e, "R")
      BY <2>6, <2>7, <2>8 DEF tag, macKey
    <3>3. tag(r[p], "R") = tag(e, "R") => macKey(r[p]) = macKey(e)  BY DEF tag
    <3>4. macKey(r[p]) = macKey(e) => r[p].pin = e.pin  BY DEF macKey
    <3>. QED  BY <2>7, <3>1, <3>2, <3>3, <3>4
  <2>. HIDE DEF right
  <2>10. CASE right
    <3>. DEFINE after == [e EXCEPT !.secret = secretOf(e)]
    <3>1. h'[p] = after /\ hostPc'[p] = "paired"
          /\ wire'[p] = [type |-> "RESULT", tag |-> tag(e, "S")]
      BY <2>2, <2>10
    <3>2. after = Heard(hostKey(p), h[p].pin, phoneKey(p), hostKey(p), whole(p), secretOf(e))
      <4>. DEFINE t == secretOf(e)
      <4>. HIDE DEF t
      <4>1. [e EXCEPT !.secret = t]
              = Heard(hostKey(p), h[p].pin, phoneKey(p), hostKey(p), whole(p), t)
        BY <2>4 DEF Heard
      <4>. QED  BY <4>1 DEF t
    <3>3. /\ after.pub = e.pub /\ after.peer = e.peer /\ after.salt = e.salt
          /\ after.tr = e.tr /\ after.pin = e.pin
      BY <2>7, <3>2 DEF Heard
    <3>. HIDE DEF after
    <3>4. secretOf(after) = secretOf(e) /\ tag(after, "S") = tag(e, "S")
      BY <3>3 DEF secretOf, tag, macKey, ikm
    <3>5. secretOf(h[p])' = secretOf(e) /\ tag(h[p], "S")' = tag(e, "S")
      BY <3>1, <3>4 DEF secretOf, tag, macKey, ikm
    <3>6. h'[p].pin = h[p].pin  BY <2>7, <3>1, <3>3
    <3>7. HostAtEnd(p, secretOf(h[p]))'
      BY <1>2, <3>1, <3>2, <3>5, <3>6 DEF HostAtEnd
    <3>8. HostHeard(p)'
      BY <1>1, <2>1, <2>9, <2>10, <3>1, <3>6, <3>7 DEF HostHeard
    <3>9. OnWire(p)'  BY <1>1, <2>1, <3>1, <3>5 DEF OnWire
    <3>. QED  BY <1>3, <2>1, <3>8, <3>9
  <2>11. CASE ~right
    <3>1. h'[p] = e /\ wire'[p] = Nil /\ hostPc'[p] = "refused"  BY <2>2, <2>11
    <3>2. HostAtEnd(p, <<>>)'  BY <1>2, <2>4, <2>7, <3>1 DEF HostAtEnd
    <3>3. HostHeard(p)'
      BY <1>1, <2>1, <2>7, <2>9, <2>11, <3>1, <3>2 DEF HostHeard
    <3>4. OnWire(p)'  BY <3>1 DEF OnWire
    <3>. QED  BY <1>3, <2>1, <3>3, <3>4
  <2>. QED  BY <2>10, <2>11
<1>7. CASE GiveUp(p)
  <2>1. hostPc[p] \in {"lock", "begin", "confirm"} /\ hostPc'[p] = "gone" /\ wire'[p] = Nil
    BY <1>7 DEF GiveUp, PerPhone
  <2>2. HostHeard(p)' /\ OnWire(p)'  BY <2>1 DEF HostHeard, OnWire
  <2>. QED  BY <1>3, <2>1, <2>2
<1>. QED  BY <1>4, <1>5, <1>6, <1>7

(* A new attempt starts from nothing on either side. *)
LEMMA FreshAttempt ==
  ASSUME NEW p \in Devices, NEW n,
         try'[p] = n, rpc'[p] = "begin", hostPc'[p] = "lock", wire'[p] = Nil,
         r'[p] = NewExchange("R", p, n, 0), h'[p] = NewExchange("S", p, n, 0)
  PROVE  PhoneHeard(p)' /\ HostHeard(p)' /\ OnWire(p)'
<1>1. phoneKey(p)' = <<"R", p, n>> /\ hostKey(p)' = <<"S", p, n>>
  BY DEF phoneKey, hostKey
<1>2. PhoneHeard(p)'  BY <1>1 DEF PhoneHeard, NewExchange, Heard
<1>3. HostHeard(p)'  BY <1>1 DEF HostHeard, NewExchange, Heard
<1>4. OnWire(p)'  BY DEF OnWire
<1>. QED  BY <1>2, <1>3, <1>4

(* The invariant holds before the first attempt. *)
LEMMA InitExchangeInv == ExchangeInit => ExchangeInv
<1>. SUFFICES ASSUME ExchangeInit PROVE ExchangeInv  OBVIOUS
<1>. USE DEF ExchangeInit
<1>1. PerPhone  BY DEF PerPhone
<1>2. ASSUME NEW p \in Devices PROVE PhoneHeard(p) /\ HostHeard(p) /\ OnWire(p)
  <2>1. phoneKey(p) = <<"R", p, 1>> /\ hostKey(p) = <<"S", p, 1>>
    BY DEF phoneKey, hostKey
  <2>2. PhoneHeard(p)  BY <2>1 DEF PhoneHeard, NewExchange, Heard
  <2>3. HostHeard(p)  BY <2>1 DEF HostHeard, NewExchange, Heard
  <2>4. OnWire(p)  BY DEF OnWire
  <2>. QED  BY <2>2, <2>3, <2>4
<1>. QED  BY <1>1, <1>2 DEF ExchangeInv

(* Every step keeps the invariant. *)
LEMMA NextExchangeInv == ExchangeInv /\ [ExchangeNext]_exchangeVars => ExchangeInv'
<1>. SUFFICES ASSUME ExchangeInv, [ExchangeNext]_exchangeVars PROVE ExchangeInv'
  OBVIOUS
<1>1. CASE UNCHANGED exchangeVars
  <2>1. PerPhone'  BY <1>1 DEF exchangeVars, ExchangeInv, PerPhone
  <2>2. ASSUME NEW q \in Devices PROVE PhoneHeard(q)' /\ HostHeard(q)' /\ OnWire(q)'
    BY <1>1 DEF exchangeVars, ExchangeInv, PhoneHeard, PhoneAtEnd, HostHeard, HostAtEnd,
       OnWire, phoneKey, hostKey, opened, challenged, confirmed, whole, secretOf, tag,
       macKey, ikm
  <2>. QED  BY <2>1, <2>2 DEF ExchangeInv
<1>2. ASSUME NEW p \in Devices,
             \/ BeginMessage(p) \/ Confirm(p) \/ OnResult(p) \/ Retry(p)
             \/ \E pin \in 0 .. codes : TypePIN(p, pin)
             \/ Lock(p) \/ Challenge(p) \/ Result(p) \/ GiveUp(p)
      PROVE  ExchangeInv'
  <2>. USE DEF ExchangeInv
  <2>1. PerPhone'
    BY <1>2 DEF PerPhone, BeginMessage, Confirm, OnResult, Retry, TypePIN, Lock, Challenge,
                Result, GiveUp
  <2>2. PhoneHeard(p)' /\ HostHeard(p)' /\ OnWire(p)'
    <3>1. CASE Retry(p)
      <4>1. /\ try'[p] = try[p] + 1 /\ rpc'[p] = "begin" /\ hostPc'[p] = "lock"
            /\ wire'[p] = Nil /\ r'[p] = NewExchange("R", p, try[p] + 1, 0)
            /\ h'[p] = NewExchange("S", p, try[p] + 1, 0)
        BY <3>1 DEF Retry, PerPhone
      <4>. QED  BY <4>1, FreshAttempt
    <3>. QED  BY <1>2, <3>1, PhoneSteps, HostSteps
  <2>3. ASSUME NEW q \in Devices, q # p
        PROVE  PhoneHeard(q)' /\ HostHeard(q)' /\ OnWire(q)'
    <3>1. /\ try'[q] = try[q] /\ rpc'[q] = rpc[q] /\ hostPc'[q] = hostPc[q]
          /\ r'[q] = r[q] /\ h'[q] = h[q] /\ wire'[q] = wire[q]
      BY <1>2, <2>3 DEF PerPhone, BeginMessage, Confirm, OnResult, Retry, TypePIN, Lock,
                        Challenge, Result, GiveUp
    <3>. QED  BY <2>3, <3>1, OtherPhones
  <2>. QED  BY <2>1, <2>2, <2>3
<1>. QED  BY <1>1, <1>2 DEF ExchangeNext

(* What the two sides know of a pairing that came through, field by field. *)
LEMMA PhoneFields ==
  ASSUME ExchangeInv, NEW p \in Devices, rpc[p] = "paired"
  PROVE  /\ r[p].pub = phoneKey(p) /\ r[p].peer = hostKey(p) /\ r[p].salt = hostKey(p)
         /\ r[p].tr = whole(p) /\ r[p].secret = secretOf(r[p]) /\ hostPc[p] = "paired"
<1>1. PhoneHeard(p)  BY DEF ExchangeInv
<1>2. PhoneAtEnd(p, secretOf(r[p])) /\ hostPc[p] = "paired"  BY <1>1 DEF PhoneHeard
<1>. DEFINE t == secretOf(r[p])  n == r[p].pin
<1>3. r[p] = Heard(phoneKey(p), n, hostKey(p), hostKey(p), whole(p), t)
  BY <1>2 DEF PhoneAtEnd
<1>. HIDE DEF t, n
<1>4. /\ r[p].pub = phoneKey(p) /\ r[p].peer = hostKey(p) /\ r[p].salt = hostKey(p)
      /\ r[p].tr = whole(p) /\ r[p].secret = t
  BY <1>3 DEF Heard
<1>. QED  BY <1>2, <1>4 DEF t

LEMMA HostFields ==
  ASSUME ExchangeInv, NEW p \in Devices, hostPc[p] = "paired"
  PROVE  /\ h[p].pub = hostKey(p) /\ h[p].peer = phoneKey(p) /\ h[p].salt = hostKey(p)
         /\ h[p].tr = whole(p) /\ h[p].secret = secretOf(h[p])
<1>1. HostHeard(p)  BY DEF ExchangeInv
<1>2. HostAtEnd(p, secretOf(h[p]))  BY <1>1 DEF HostHeard
<1>. DEFINE t == secretOf(h[p])  n == h[p].pin
<1>3. h[p] = Heard(hostKey(p), n, phoneKey(p), hostKey(p), whole(p), t)
  BY <1>2 DEF HostAtEnd
<1>. HIDE DEF t, n
<1>4. /\ h[p].pub = hostKey(p) /\ h[p].peer = phoneKey(p) /\ h[p].salt = hostKey(p)
      /\ h[p].tr = whole(p) /\ h[p].secret = t
  BY <1>3 DEF Heard
<1>. QED  BY <1>4 DEF t

(* A phone that waits holds no secret. *)
LEMMA NoSecretYet ==
  ASSUME ExchangeInv, NEW p \in Devices, rpc[p] # "paired"
  PROVE  r[p].secret = <<>>
<1>1. PhoneHeard(p)  BY DEF ExchangeInv
<1>. DEFINE k == phoneKey(p)  s == hostKey(p)  n == r[p].pin  b == <<opened(p)>>
            w == whole(p)  none == <<>>
<1>2. \/ r[p] = Heard(k, 0, Nil, k, none, none)
      \/ r[p] = Heard(k, n, Nil, k, b, none)
      \/ r[p] = Heard(k, n, s, s, w, none)
  BY <1>1 DEF PhoneHeard, PhoneAtEnd
<1>. HIDE DEF k, s, n, b, w, none
<1>3. r[p].secret = none  BY <1>2 DEF Heard
<1>. QED  BY <1>3 DEF none

(* A phone without the result holds no secret, and a secret names the keys *)
(* of the phone it was derived with.                                       *)
LEMMA OwnSecret ==
  ASSUME ExchangeInv, NEW p \in Devices, NEW q \in Devices, q # p, rpc[p] = "paired"
  PROVE  r[q].secret # r[p].secret
<1>1. r[p].secret = secretOf(r[p]) /\ r[p].pub = phoneKey(p) /\ r[p].peer = hostKey(p)
  BY PhoneFields
<1>2. r[p].secret = <<"rau2-pairing-secret-v1", ikm(r[p])>>
      /\ ikm(r[p]) = <<{phoneKey(p), hostKey(p)}, r[p].tr, r[p].salt>>
  BY <1>1 DEF secretOf, ikm
<1>3. CASE rpc[q] = "paired"
  <2>1. r[q].secret = secretOf(r[q]) /\ r[q].pub = phoneKey(q) /\ r[q].peer = hostKey(q)
    BY <1>3, PhoneFields
  <2>2. r[q].secret = <<"rau2-pairing-secret-v1", ikm(r[q])>>
        /\ ikm(r[q]) = <<{phoneKey(q), hostKey(q)}, r[q].tr, r[q].salt>>
    BY <2>1 DEF secretOf, ikm
  <2>3. {phoneKey(p), hostKey(p)} # {phoneKey(q), hostKey(q)}
    <3>1. phoneKey(p) # phoneKey(q) /\ phoneKey(p) # hostKey(q)
      BY DEF phoneKey, hostKey
    <3>. QED  BY <3>1
  <2>4. ikm(r[p]) # ikm(r[q])  BY <1>2, <2>2, <2>3
  <2>. QED  BY <1>2, <2>2, <2>4
<1>4. CASE rpc[q] # "paired"
  <2>1. r[q].secret = <<>>  BY <1>4, NoSecretYet
  <2>. QED  BY <1>2, <2>1
<1>. QED  BY <1>3, <1>4

(* The pairing is decided by the code, for every set of phones, every      *)
(* number of attempts and every code: a phone that accepted holds the      *)
(* secret its host derived and nobody else's, and the host turns down only *)
(* a phone with another code (Exchange, runPairing).                       *)
THEOREM PairingDecidedByCode == ExchangeSpec => []PairedByCode
<1>1. ExchangeInv => PairedByCode
  <2>. SUFFICES ASSUME ExchangeInv PROVE PairedByCode  OBVIOUS
  <2>1. ASSUME NEW p \in Devices, rpc[p] = "paired"
        PROVE  r[p].secret = h[p].secret
    <3>1. /\ r[p].secret = secretOf(r[p]) /\ r[p].pub = phoneKey(p)
          /\ r[p].peer = hostKey(p) /\ r[p].salt = hostKey(p) /\ r[p].tr = whole(p)
          /\ hostPc[p] = "paired"
      BY <2>1, PhoneFields
    <3>2. /\ h[p].secret = secretOf(h[p]) /\ h[p].pub = hostKey(p)
          /\ h[p].peer = phoneKey(p) /\ h[p].salt = hostKey(p) /\ h[p].tr = whole(p)
      BY <3>1, HostFields
    <3>3. {r[p].pub, r[p].peer} = {h[p].pub, h[p].peer}  BY <3>1, <3>2
    <3>. QED  BY <3>1, <3>2, <3>3 DEF secretOf, ikm
  <2>2. ASSUME NEW p \in Devices
        PROVE  /\ hostPc[p] = "paired" => r[p].pin = h[p].pin /\ rpc[p] # "refused"
               /\ hostPc[p] = "refused" => r[p].pin # h[p].pin
    BY DEF ExchangeInv, HostHeard
  <2>. QED  BY <2>1, <2>2, OwnSecret DEF PairedByCode
<1>. QED  BY <1>1, InitExchangeInv, NextExchangeInv, PTL DEF ExchangeSpec
=============================================================================
