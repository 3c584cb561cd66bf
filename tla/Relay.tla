-------------------------------- MODULE Relay --------------------------------
(***************************************************************************)
(* The WAN relay (relay/relay.go) between one host and its phones: the     *)
(* host's registration loop (host.go, runRelayClient), the map of waiting  *)
(* hosts, the goroutine of each phone that takes a waiting host and        *)
(* splices the two connections with four copies.  What is sealed inside    *)
(* does not matter to the relay and is left out.                           *)
(***************************************************************************)
EXTENDS Integers, FiniteSets

CONSTANTS
  Phones,
  Legs,      \* bound: host connections that may exist at once, 1 .. n
  MaxLost    \* bound: host connections that break

VARIABLES
  leg,        \* host connections: "closed", "waits" or "serves"
  announced,  \* legs whose registration the relay has not handled
  waiting,    \* waiting["H:" + id], 0 when there is none
  phoneConn,  \* the relay's goroutine of a phone: "none", "dialled", "spliced"
  gone,       \* phones that have left, though their goroutine may not have
  talks,      \* phones that were answered and send STATS as they stream
  peer,       \* the leg a phone is spliced to
  opening,    \* phones whose control streams are being opened
  copies,     \* the copies that run, of "toHost", "toPhone", "mediaUp", "mediaDown"
  lost        \* host connections that broke

relayVars == <<leg, announced, waiting, phoneConn, gone, talks, peer, opening, copies, lost>>

Nobody == 0
phoneVars == <<phoneConn, gone, talks, peer, opening, copies>>
spliceVars == <<phoneConn, gone, peer, opening, copies>>

RelayInit ==
  /\ leg = [i \in Legs |-> "closed"] /\ announced = {} /\ waiting = Nobody
  /\ phoneConn = [p \in Phones |-> "none"] /\ gone = {} /\ talks = {}
  /\ peer = [p \in Phones |-> Nobody] /\ opening = {} /\ copies = [p \in Phones |-> {}]
  /\ lost = 0

-----------------------------------------------------------------------------
(* A number that stands for no connection the relay still knows. *)
unused(i) == waiting # i /\ i \notin announced /\ \A p \in Phones : peer[p] # i

(* runRelayClient: one leg at a time, and a new one once it is closed. *)
HostDials(i) ==
  /\ \A j \in Legs : leg[j] = "closed"
  /\ unused(i) /\ \A j \in Legs : unused(j) => i <= j
  /\ leg' = [leg EXCEPT ![i] = "waits"] /\ announced' = announced \cup {i}
  /\ UNCHANGED <<waiting, phoneVars, lost>>

registerIfFree(i) == waiting' = IF waiting = Nobody THEN i ELSE waiting

(* The newest registration of a host replaces the one before. *)
register(i) == waiting' = i

(* The H branch; a connection closed before its registration was read is   *)
(* dropped.                                                                *)
RelayRegisters(i) ==
  /\ i \in announced /\ announced' = announced \ {i}
  /\ \/ leg[i] # "closed" /\ register(i)
     \/ leg[i] = "closed" /\ UNCHANGED waiting
  /\ UNCHANGED <<leg, phoneVars, lost>>

(* session.New waits five seconds for a control stream, far longer than    *)
(* the registration takes.                                                 *)
HostGivesUp(i) ==
  /\ leg[i] = "waits" /\ i \notin announced /\ leg' = [leg EXCEPT ![i] = "closed"]
  /\ UNCHANGED <<announced, waiting, phoneVars, lost>>

(* The connection breaks, or the session on it ends with an error. *)
LegBreaks(i) ==
  /\ leg[i] # "closed" /\ lost < MaxLost /\ lost' = lost + 1
  /\ leg' = [leg EXCEPT ![i] = "closed"]
  /\ UNCHANGED <<announced, waiting, phoneVars>>

-----------------------------------------------------------------------------
PhoneDials(p) ==
  /\ phoneConn[p] = "none" /\ phoneConn' = [phoneConn EXCEPT ![p] = "dialled"]
  /\ UNCHANGED <<leg, announced, waiting, gone, talks, peer, opening, copies, lost>>

(* A phone leaves; the STREAM_STOP it sends may or may not get through. *)
PhoneLeaves(p) ==
  /\ phoneConn[p] # "none" /\ p \notin gone /\ gone' = gone \cup {p}
  /\ \/ /\ "toHost" \in copies[p] /\ leg[peer[p]] = "serves"
        /\ leg' = [leg EXCEPT ![peer[p]] = "closed"]
     \/ UNCHANGED leg
  /\ UNCHANGED <<announced, waiting, phoneConn, talks, peer, opening, copies, lost>>

takeKeepsWaiting == UNCHANGED waiting

(* A waiting host goes to one phone. *)
takeWaiting == waiting' = Nobody

(* The P branch.  Without a waiting host the connection is closed. *)
RelayPairs(p) ==
  /\ phoneConn[p] = "dialled"
  /\ IF waiting # Nobody
     THEN /\ phoneConn' = [phoneConn EXCEPT ![p] = "spliced"]
          /\ peer' = [peer EXCEPT ![p] = waiting]
          /\ opening' = opening \cup {p}
          /\ copies' = [copies EXCEPT ![p] = {"mediaUp", "mediaDown"}]
          /\ takeWaiting /\ UNCHANGED gone
     ELSE /\ phoneConn' = [phoneConn EXCEPT ![p] = "none"] /\ gone' = gone \ {p}
          /\ UNCHANGED <<waiting, peer, opening, copies>>
  /\ UNCHANGED <<leg, announced, talks, lost>>

(* The phone's registration stream ends before it is read. *)
RegistrationLost(p) ==
  /\ phoneConn[p] = "dialled" /\ p \in gone
  /\ phoneConn' = [phoneConn EXCEPT ![p] = "none"] /\ gone' = gone \ {p}
  /\ UNCHANGED <<leg, announced, waiting, talks, peer, opening, copies, lost>>

OpenControl(p) ==
  /\ p \in opening /\ leg[peer[p]] # "closed" /\ p \notin gone
  /\ opening' = opening \ {p}
  /\ copies' = [copies EXCEPT ![p] = @ \cup {"toHost", "toPhone"}]
  /\ UNCHANGED <<leg, announced, waiting, phoneConn, gone, talks, peer, lost>>

oneDone(p) == copies' = [copies EXCEPT ![p] = @ \cup {"lostDone"}]

(* Both control copies count as done when a stream cannot be opened. *)
twoDones(p) == UNCHANGED copies

OpenFails(p) ==
  /\ p \in opening /\ (leg[peer[p]] = "closed" \/ p \in gone)
  /\ opening' = opening \ {p} /\ twoDones(p)
  /\ UNCHANGED <<leg, announced, waiting, phoneConn, gone, talks, peer, lost>>

(* The phone's HELLO comes through and the host's session goes on. *)
HostAnswers(p) ==
  /\ "toHost" \in copies[p] /\ leg[peer[p]] = "waits"
  /\ leg' = [leg EXCEPT ![peer[p]] = "serves"] /\ talks' = talks \cup {p}
  /\ UNCHANGED <<announced, waiting, spliceVars, lost>>

-----------------------------------------------------------------------------
(* A copy ends when its source is gone, or when it has something to write  *)
(* to a side that is gone.  The phone sends no media, and a host that      *)
(* hears nothing writes no control message.                                *)
hostGone(p) == leg[peer[p]] = "closed"

copyEnds(p, c) ==
  CASE c = "toHost" -> p \in gone \/ (hostGone(p) /\ p \in talks)
    [] c = "toPhone" -> hostGone(p)
    [] c = "mediaUp" -> p \in gone
    [] c = "mediaDown" -> hostGone(p) \/ (p \in gone /\ leg[peer[p]] = "serves")
    [] OTHER -> FALSE

CopyEnds(p) ==
  /\ \E c \in copies[p] : copyEnds(p, c) /\ copies' = [copies EXCEPT ![p] = @ \ {c}]
  /\ UNCHANGED <<leg, announced, waiting, phoneConn, gone, talks, peer, opening, lost>>

(* Four dones: the deferred Close of the phone's connection. *)
SpliceEnds(p) ==
  /\ phoneConn[p] = "spliced" /\ p \notin opening /\ copies[p] = {}
  /\ phoneConn' = [phoneConn EXCEPT ![p] = "none"] /\ peer' = [peer EXCEPT ![p] = Nobody]
  /\ gone' = gone \ {p} /\ talks' = talks \ {p}
  /\ UNCHANGED <<leg, announced, waiting, opening, copies, lost>>

relaySteps(p) ==
  RelayPairs(p) \/ OpenControl(p) \/ OpenFails(p) \/ HostAnswers(p) \/ CopyEnds(p) \/ SpliceEnds(p)

RelayNext ==
  \/ \E i \in Legs : HostDials(i) \/ RelayRegisters(i) \/ HostGivesUp(i) \/ LegBreaks(i)
  \/ \E p \in Phones : PhoneDials(p) \/ PhoneLeaves(p) \/ RegistrationLost(p) \/ relaySteps(p)

RelaySpec == RelayInit /\ [][RelayNext]_relayVars

-----------------------------------------------------------------------------
RelayTypeOK ==
  /\ leg \in [Legs -> {"closed", "waits", "serves"}] /\ announced \subseteq Legs
  /\ waiting \in Legs \cup {Nobody} /\ lost \in Nat
  /\ phoneConn \in [Phones -> {"none", "dialled", "spliced"}]
  /\ gone \subseteq Phones /\ talks \subseteq Phones /\ opening \subseteq Phones
  /\ peer \in [Phones -> Legs \cup {Nobody}]
  /\ copies \in [Phones -> SUBSET {"toHost", "toPhone", "mediaUp", "mediaDown"}]

(* No two phones are spliced to one host connection, however their         *)
(* goroutines and the host's next registration interleave (the delete      *)
(* under mu).                                                              *)
PairedOnce ==
  \A p, q \in Phones : p # q /\ peer[p] # Nobody => peer[p] # peer[q]

(* A host that no phone holds is there to be found again and again,        *)
(* although its connection lives for five seconds only and the entry of    *)
(* the last one stays behind in waiting.                                   *)
HostFound ==
  <>[](\A p \in Phones : phoneConn[p] = "none") => []<>(waiting # Nobody /\ leg[waiting] = "waits")

(* When both its ends are gone a splice ends and lets its goroutines go:   *)
(* no path leaves fewer than the four dones that are waited for.           *)
DeadSpliceEnds ==
  \A p \in Phones :
    (phoneConn[p] = "spliced" /\ p \in gone /\ hostGone(p)) ~> phoneConn[p] = "none"

(* "The phone's goroutine performs the splice and owns teardown"           *)
(* (RunRelay): when the phone has left, its splice ends.                   *)
SpliceTornDown ==
  \A p \in Phones : (phoneConn[p] = "spliced" /\ p \in gone) ~> phoneConn[p] = "none"

(* Goroutines go on, the host dials again, and an unanswered leg is closed *)
(* by its five second timeout.                                             *)
RelayFairness ==
  /\ WF_relayVars(\E i \in Legs : HostDials(i))
  /\ \A i \in Legs : WF_relayVars(RelayRegisters(i)) /\ WF_relayVars(HostGivesUp(i))
  /\ \A p \in Phones : WF_relayVars(relaySteps(p))
=============================================================================
