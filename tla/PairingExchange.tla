-------------------------- MODULE PairingExchange ---------------------------
(***************************************************************************)
(* pairing.Exchange, the two sides of a pairing, driven by runPairing of   *)
(* the phone (engine.Client) and of the host, which serves one phone at a  *)
(* time and shows one code at a time.                                      *)
(*                                                                         *)
(* Cryptography is symbolic and external: a public key is named by its     *)
(* owner and the attempt that made it, the ECDH point of two keys is their *)
(* set, and a hash, an HKDF output or a MAC is the tuple of its inputs.    *)
(* Codes are numbered as generatePIN makes them; 0 is a mistyped one.      *)
(* Bound: MaxTries attempts of each phone.                                 *)
(***************************************************************************)
EXTENDS Integers, Sequences

CONSTANTS Devices, MaxTries, Nil

VARIABLES
  try,        \* the attempt each phone is in
  rpc,        \* where the phone's runPairing is
  hostPc,     \* where the host's runPairing for the phone's connection is
  r, h,       \* the Exchange of either side
  wire,       \* the message on the connection, or Nil
  exchangeMu, \* the phone whose handler holds Host.pairMu, or Nil
  shown,      \* the code on the host's screen
  codes       \* codes generated so far

exchangeVars == <<try, rpc, hostPc, r, h, wire, exchangeMu, shown, codes>>

(* NewExchange: the salt of the sender reaches the receiver. *)
NewExchange(role, p, n, pin) ==
  [pub |-> <<role, p, n>>, pin |-> pin, peer |-> Nil, salt |-> <<role, p, n>>,
   tr |-> <<>>, secret |-> <<>>]

ExchangeInit ==
  /\ try = [p \in Devices |-> 1]
  /\ rpc = [p \in Devices |-> "begin"] /\ hostPc = [p \in Devices |-> "lock"]
  /\ r = [p \in Devices |-> NewExchange("R", p, 1, 0)]
  /\ h = [p \in Devices |-> NewExchange("S", p, 1, 0)]
  /\ wire = [p \in Devices |-> Nil]
  /\ exchangeMu = Nil /\ shown = 0 /\ codes = 0

(* transcriptAdd *)
added(e, part) == [e EXCEPT !.tr = Append(@, part)]

(* sharedAndKeys: the secret and the MAC key, from the transcript so far. *)
ikm(e) == <<{e.pub, e.peer}, e.tr, e.salt>>
secretOf(e) == <<"rau2-pairing-secret-v1", ikm(e)>>
macKey(e) == <<"rau2-pin-verify-v1", e.pin, ikm(e)>>
tag(e, who) == <<macKey(e), e.tr, who>>

(* SetPIN: a code too short leaves none, which is as good as a mistyped one. *)
SetPIN(e, pin) == [e EXCEPT !.pin = pin]

-----------------------------------------------------------------------------
(* The phone: BeginMessage, then the user is asked for the code. *)
BeginMessage(p) ==
  /\ rpc[p] = "begin" /\ wire[p] = Nil
  /\ r' = [r EXCEPT ![p] = added(@, <<"begin", <<p, try[p]>>>>)]
  /\ wire' = [wire EXCEPT ![p] = [type |-> "BEGIN", nonce |-> <<p, try[p]>>]]
  /\ rpc' = [rpc EXCEPT ![p] = "pin"]
  /\ UNCHANGED <<try, hostPc, h, exchangeMu, shown, codes>>

(* The user types what the host shows, or mistypes it. *)
TypePIN(p, pin) ==
  /\ rpc[p] = "pin" /\ pin \in {shown, 0}
  /\ r' = [r EXCEPT ![p] = SetPIN(@, pin)]
  /\ rpc' = [rpc EXCEPT ![p] = "challenge"]
  /\ UNCHANGED <<try, hostPc, h, wire, exchangeMu, shown, codes>>

(* OnChallenge and ConfirmMessage. *)
OnChallenge(e, m) ==
  added([e EXCEPT !.peer = m.pub, !.salt = m.salt], <<"challenge", m.pub, m.salt>>)
ConfirmMessage(e) == added(e, <<"confirm", e.pub>>)

Confirm(p) ==
  /\ rpc[p] = "challenge" /\ wire[p] # Nil /\ wire[p].type = "CHALLENGE"
  /\ LET e == ConfirmMessage(OnChallenge(r[p], wire[p])) IN
     /\ r' = [r EXCEPT ![p] = e]
     /\ wire' = [wire EXCEPT ![p] = [type |-> "CONFIRM", pub |-> e.pub, tag |-> tag(e, "R")]]
  /\ rpc' = [rpc EXCEPT ![p] = "result"]
  /\ UNCHANGED <<try, hostPc, h, exchangeMu, shown, codes>>

(* OnResult and SavePeer. *)
OnResult(p) ==
  /\ rpc[p] = "result" /\ wire[p] # Nil /\ wire[p].type = "RESULT"
  /\ IF wire[p].tag = tag(r[p], "S")
     THEN /\ r' = [r EXCEPT ![p].secret = secretOf(r[p])]
          /\ rpc' = [rpc EXCEPT ![p] = "paired"]
     ELSE UNCHANGED r /\ rpc' = [rpc EXCEPT ![p] = "refused"]
  /\ wire' = [wire EXCEPT ![p] = Nil]
  /\ UNCHANGED <<try, hostPc, h, exchangeMu, shown, codes>>

(* The host closed the connection, or it was lost: runPairing fails, and   *)
(* the phone's next attempt starts a new exchange on a new connection.     *)
Retry(p) ==
  /\ rpc[p] \notin {"paired", "refused"} /\ hostPc[p] \in {"refused", "gone"}
  /\ try[p] < MaxTries
  /\ try' = [try EXCEPT ![p] = @ + 1]
  /\ rpc' = [rpc EXCEPT ![p] = "begin"] /\ hostPc' = [hostPc EXCEPT ![p] = "lock"]
  /\ r' = [r EXCEPT ![p] = NewExchange("R", p, try[p] + 1, 0)]
  /\ h' = [h EXCEPT ![p] = NewExchange("S", p, try[p] + 1, 0)]
  /\ wire' = [wire EXCEPT ![p] = Nil]
  /\ UNCHANGED <<exchangeMu, shown, codes>>

-----------------------------------------------------------------------------
(* The host: one pairing at a time. *)
Lock(p) ==
  /\ hostPc[p] = "lock" /\ exchangeMu = Nil
  /\ exchangeMu' = p /\ hostPc' = [hostPc EXCEPT ![p] = "begin"]
  /\ UNCHANGED <<try, rpc, r, h, wire, shown, codes>>

(* PAIR_BEGIN: generatePIN, OnBegin and ChallengeMessage. *)
Challenge(p) ==
  /\ hostPc[p] = "begin" /\ wire[p] # Nil /\ wire[p].type = "BEGIN"
  /\ codes' = codes + 1 /\ shown' = codes + 1
  /\ LET e == added(SetPIN(h[p], codes + 1), <<"begin", wire[p].nonce>>) IN
     /\ h' = [h EXCEPT ![p] = added(e, <<"challenge", e.pub, e.salt>>)]
     /\ wire' = [wire EXCEPT ![p] = [type |-> "CHALLENGE", pub |-> e.pub, salt |-> e.salt]]
  /\ hostPc' = [hostPc EXCEPT ![p] = "confirm"]
  /\ UNCHANGED <<try, rpc, r, exchangeMu>>

(* Mutant: the keys are derived before the phone's key is in the transcript. *)
OnConfirmEarly(e, m) ==
  LET keyed == [e EXCEPT !.peer = m.pub]
  IN  [after |-> added(keyed, <<"confirm", m.pub>>), right |-> m.tag = tag(keyed, "R")]

OnConfirm(e, m) ==
  LET keyed == added([e EXCEPT !.peer = m.pub], <<"confirm", m.pub>>)
  IN  [after |-> keyed, right |-> m.tag = tag(keyed, "R")]

(* PAIR_CONFIRM: the result goes out and the peer is saved, or the handler *)
(* returns with ErrPinMismatch.                                            *)
Result(p) ==
  /\ hostPc[p] = "confirm" /\ wire[p] # Nil /\ wire[p].type = "CONFIRM"
  /\ LET c == OnConfirm(h[p], wire[p]) IN
     \/ /\ c.right
        /\ h' = [h EXCEPT ![p] = [c.after EXCEPT !.secret = secretOf(c.after)]]
        /\ wire' = [wire EXCEPT ![p] = [type |-> "RESULT", tag |-> tag(c.after, "S")]]
        /\ hostPc' = [hostPc EXCEPT ![p] = "paired"]
     \/ /\ ~c.right
        /\ h' = [h EXCEPT ![p] = c.after]
        /\ wire' = [wire EXCEPT ![p] = Nil]
        /\ hostPc' = [hostPc EXCEPT ![p] = "refused"]
  /\ exchangeMu' = Nil
  /\ UNCHANGED <<try, rpc, r, shown, codes>>

(* PairingTimeout, or the connection is lost: runPairing returns. *)
GiveUp(p) ==
  /\ hostPc[p] \in {"lock", "begin", "confirm"}
  /\ hostPc' = [hostPc EXCEPT ![p] = "gone"]
  /\ wire' = [wire EXCEPT ![p] = Nil]
  /\ exchangeMu' = IF exchangeMu = p THEN Nil ELSE exchangeMu
  /\ UNCHANGED <<try, rpc, r, h, shown, codes>>

ExchangeNext ==
  \E p \in Devices :
    \/ BeginMessage(p) \/ Confirm(p) \/ OnResult(p) \/ Retry(p)
    \/ \E pin \in 0 .. codes : TypePIN(p, pin)
    \/ Lock(p) \/ Challenge(p) \/ Result(p) \/ GiveUp(p)

ExchangeSpec == ExchangeInit /\ [][ExchangeNext]_exchangeVars

-----------------------------------------------------------------------------
(* The exchange decides by the code alone.  A phone that accepted the      *)
(* result holds the secret the host derived for it and no other phone has; *)
(* the host accepted it on the code it generated for that phone; and the   *)
(* host turns down only a phone whose code was another one, a code it      *)
(* showed for another phone included.                                      *)
PairedByCode ==
  \A p \in Devices :
    /\ rpc[p] = "paired" =>
         /\ r[p].secret = h[p].secret
         /\ \A q \in Devices \ {p} : r[q].secret # r[p].secret
    /\ hostPc[p] = "paired" => r[p].pin = h[p].pin /\ rpc[p] # "refused"
    /\ hostPc[p] = "refused" => r[p].pin # h[p].pin
=============================================================================
