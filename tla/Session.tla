------------------------------ MODULE Session ------------------------------
(***************************************************************************)
(* The v2 control plane between one receiver and one host: the connection  *)
(* attempts of engine.Client (Run, runOnce, tryResume, runPairing), the    *)
(* handler goroutine the host starts for each of them (handleConnInner,    *)
(* tryResume, runPairing, startStreamFor), the session layer both speak    *)
(* through (session.go), the two pairing stores and the host's registry of *)
(* live receivers.                                                         *)
(*                                                                         *)
(* Attempts are numbered.  A connection, the resume token its HELLO_OK     *)
(* carries and the secret its pairing exchange derives all belong to one   *)
(* attempt and are named by its number; 0 stands for "none".  The handlers *)
(* of earlier attempts may still run while a later one is served.          *)
(***************************************************************************)
EXTENDS Integers, Sequences, FiniteSets

CONSTANTS
  MaxDials,  \* bound: connection attempts in one behaviour
  Faults     \* the environment events a run allows, a subset of AllFaults

AllFaults == {"drop", "restart", "forget", "badPin", "slow", "saveFail", "stop", "control", "noCapture"}

ASSUME SessionAssumption == MaxDials \in Nat \ {0} /\ Faults \subseteq AllFaults

Attempts == 1 .. MaxDials

VARIABLES
  cpc,       \* where the receiver is: runOnce and the functions it calls
  cur,       \* the receiver's latest attempt
  token,     \* Client.resumeToken
  crec,      \* secret of the receiver's record of the host
  pinRight,  \* the code the user typed is the one the host shows
  rejected,  \* history: the host refused a code since the client was made
  badHello,  \* history: the current attempt failed with "expected hello"
  hpc,       \* where each handler goroutine is
  up,        \* the connection of an attempt has not been closed or lost
  c2h, h2c,  \* the two directions of its control stream
  orphan,    \* recv's reader goroutine that outlived tryResume's timeout
  trusted,   \* Host.trusted holds the receiver's fingerprint
  hrec,      \* secret of the host's record of the receiver
  hdisk,     \* the same in the host's pairing file
  resumeStates, \* tokens for which the host keeps a resumeState
  pairMu,    \* the handler that holds Host.pairMu
  conns      \* Host.conns: the handlers listed under the peer's key and
             \* under the empty key of sessions that never saw a HELLO

clientVars == <<cpc, cur, token, crec, pinRight, rejected, badHello>>
linkVars   == <<up, c2h, h2c, orphan>>
hostVars   == <<hpc, trusted, hrec, hdisk, resumeStates, pairMu, conns>>
vars == <<clientVars, linkVars, hostVars>>

Init ==
  /\ cpc = "idle" /\ cur = 0 /\ token = 0 /\ crec = 0
  /\ pinRight = TRUE /\ rejected = FALSE /\ badHello = FALSE
  /\ hpc = [n \in Attempts |-> "none"]
  /\ up = [n \in Attempts |-> FALSE]
  /\ c2h = [n \in Attempts |-> <<>>] /\ h2c = [n \in Attempts |-> <<>>]
  /\ orphan = [n \in Attempts |-> FALSE]
  /\ trusted = FALSE /\ hrec = 0 /\ hdisk = 0 /\ resumeStates = {} /\ pairMu = 0
  /\ conns = [k \in {"peer", "zero"} |-> 0]

-----------------------------------------------------------------------------
(* Session.send: messages written to a connection that is gone are lost.   *)
Msg(type) == [type |-> type, arg |-> 0]
send(chan, n, ms) == IF up[n] THEN [chan EXCEPT ![n] = @ \o ms] ELSE chan

(* Session.recv returned the message at the head of the stream. *)
Received(chan, n, type) == chan[n] # <<>> /\ Head(chan[n]).type = type
Unexpected(chan, n, types) == chan[n] # <<>> /\ Head(chan[n]).type \notin types
Consume(chan, n) == [chan EXCEPT ![n] = Tail(@)]

(***************************************************************************)
(* The receiver.                                                           *)
(***************************************************************************)
Waiting == {"resume", "hello", "helloOk", "challenge", "result", "ack"}

(* mobile.Connect: a new Client, with no resume token. *)
Connect ==
  /\ cpc = "idle"
  /\ cpc' = "dial" /\ token' = 0 /\ rejected' = FALSE
  /\ UNCHANGED <<cur, crec, pinRight, badHello, linkVars, hostVars>>

(* runOnce up to its first wait: dial, then tryResume when a token is at   *)
(* hand, else ExchangeHellos.                                              *)
Dial ==
  /\ cpc = "dial" /\ cur < MaxDials
  /\ LET n == cur + 1 IN
     /\ cur' = n
     /\ up' = [up EXCEPT ![n] = TRUE]
     /\ hpc' = [hpc EXCEPT ![n] = "first"]
     /\ \/ token = 0 /\ cpc' = "hello" /\ c2h' = [c2h EXCEPT ![n] = <<Msg("HELLO")>>]
        \/ token # 0 /\ cpc' = "resume"
           /\ c2h' = [c2h EXCEPT ![n] = <<[type |-> "RESUME", arg |-> token]>>]
  /\ badHello' = FALSE
  /\ UNCHANGED <<token, crec, pinRight, rejected, h2c, orphan,
                 trusted, hrec, hdisk, resumeStates, pairMu, conns>>

tryResumeOK ==
  /\ cpc = "resume" /\ Received(h2c, cur, "RESUME_OK")
  /\ cpc' = "streaming"
  /\ h2c' = Consume(h2c, cur)
  /\ UNCHANGED <<cur, token, crec, pinRight, rejected, badHello,
                 up, c2h, orphan, hostVars>>

(* No RESUME_OK within 1500 ms: go on with ExchangeHellos.  The goroutine  *)
(* recv started still waits for the next message of the stream.            *)
tryResumeTimeout ==
  /\ cpc = "resume"
  /\ "slow" \in Faults \/ hpc[cur] = "hello"
  /\ cpc' = "hello"
  /\ c2h' = send(c2h, cur, <<Msg("HELLO")>>)
  /\ orphan' = [orphan EXCEPT ![cur] = TRUE]
  /\ UNCHANGED <<cur, token, crec, pinRight, rejected, badHello, up, h2c, hostVars>>

(* The orphaned goroutine and ExchangeHellos' reader share one bufio       *)
(* reader without a lock.  The orphan was first on the stream and takes    *)
(* the next message; what follows reaches the reader, or stays behind in   *)
(* the buffer the orphan filled and leaves the reader blocked.             *)
OrphanRead ==
  /\ cpc = "hello" /\ orphan[cur] /\ h2c[cur] # <<>>
  /\ orphan' = [orphan EXCEPT ![cur] = FALSE]
  /\ h2c' = Consume(h2c, cur)
  /\ \/ UNCHANGED cpc
     \/ Len(h2c[cur]) > 1 /\ cpc' = "stuck"
  /\ UNCHANGED <<cur, token, crec, pinRight, rejected, badHello, up, c2h, hostVars>>

ExchangeHellosHello ==
  /\ cpc = "hello" /\ ~orphan[cur] /\ Received(h2c, cur, "HELLO")
  /\ cpc' = "helloOk"
  /\ h2c' = Consume(h2c, cur)
  /\ UNCHANGED <<cur, token, crec, pinRight, rejected, badHello,
                 up, c2h, orphan, hostVars>>

(* HELLO_OK: keep the token; pair when the store has no record of the      *)
(* host, else request the stream.                                          *)
ExchangeHellosOK ==
  /\ cpc = "helloOk" /\ Received(h2c, cur, "HELLO_OK")
  /\ token' = Head(h2c[cur]).arg
  /\ h2c' = Consume(h2c, cur)
  /\ \/ crec = 0 /\ cpc' = "pin" /\ c2h' = send(c2h, cur, <<Msg("PAIR_BEGIN")>>)
     \/ crec # 0 /\ cpc' = "ack" /\ c2h' = send(c2h, cur, <<Msg("STREAM_START")>>)
  /\ UNCHANGED <<cur, crec, pinRight, rejected, badHello, up, orphan, hostVars>>

(* PINProvider: the user types a code. *)
EnterPIN ==
  /\ cpc = "pin"
  /\ pinRight' \in IF "badPin" \in Faults THEN BOOLEAN ELSE {TRUE}
  /\ cpc' = "challenge"
  /\ UNCHANGED <<cur, token, crec, rejected, badHello, linkVars, hostVars>>

runPairingChallenge ==
  /\ cpc = "challenge" /\ Received(h2c, cur, "PAIR_CHALLENGE")
  /\ cpc' = "result"
  /\ h2c' = Consume(h2c, cur)
  /\ c2h' = send(c2h, cur, <<[type |-> "PAIR_CONFIRM", arg |-> IF pinRight THEN 1 ELSE 0]>>)
  /\ UNCHANGED <<cur, token, crec, pinRight, rejected, badHello, up, orphan, hostVars>>

runPairingResult ==
  /\ cpc = "result" /\ Received(h2c, cur, "PAIR_RESULT")
  /\ crec' = cur
  /\ cpc' = "ack"
  /\ h2c' = Consume(h2c, cur)
  /\ c2h' = send(c2h, cur, <<Msg("STREAM_START")>>)
  /\ UNCHANGED <<cur, token, pinRight, rejected, badHello, up, orphan, hostVars>>

RequestStream ==
  /\ cpc = "ack" /\ Received(h2c, cur, "STREAM_ACK")
  /\ cpc' = "streaming"
  /\ h2c' = Consume(h2c, cur)
  /\ UNCHANGED <<cur, token, crec, pinRight, rejected, badHello,
                 up, c2h, orphan, hostVars>>

(* runOnce returns an error: the deferred calls close the connection and   *)
(* Run waits out the backoff.                                              *)
RunOnceFails ==
  /\ cpc' = "backoff"
  /\ up' = [up EXCEPT ![cur] = FALSE]
  /\ UNCHANGED <<cur, token, crec, pinRight, rejected, c2h, h2c, orphan, hostVars>>

(* A message of another type than the one the handshake expects. *)
UnexpectedMessage ==
  /\ cpc = "hello" /\ ~orphan[cur] /\ Unexpected(h2c, cur, {"HELLO"})
  /\ badHello' = TRUE
  /\ RunOnceFails

(* The handshake's recv, or the user's refusal to type a code, ends with   *)
(* an error; SavePeer may fail on the device.                              *)
HandshakeError ==
  /\ \/ cpc \in Waiting \cup {"stuck"} /\ ~up[cur]
     \/ cpc = "pin" /\ "stop" \in Faults
     \/ cpc = "result" /\ "saveFail" \in Faults /\ Received(h2c, cur, "PAIR_RESULT")
  /\ UNCHANGED badHello
  /\ RunOnceFails

(* mediaLoop returns an error, but runOnce then waits for utilityLoop,     *)
(* which ends only with the context or Stop.                               *)
mediaLoopError ==
  /\ cpc = "streaming" /\ ~up[cur]
  /\ cpc' = "draining"
  /\ UNCHANGED <<cur, token, crec, pinRight, rejected, badHello, linkVars, hostVars>>

Backoff ==
  /\ cpc = "backoff"
  /\ cpc' = "dial"
  /\ UNCHANGED <<cur, token, crec, pinRight, rejected, badHello, linkVars, hostVars>>

(* mobile.Stop: closes the session and cancels the context.  A client that *)
(* waits for the user's code notices once PINProvider returns.             *)
Stop ==
  /\ "stop" \in Faults /\ cpc \notin {"idle", "pinStopped"}
  /\ cpc' = IF cpc = "pin" THEN "pinStopped" ELSE "idle"
  /\ up' = IF cur = 0 THEN up ELSE [up EXCEPT ![cur] = FALSE]
  /\ UNCHANGED <<cur, token, crec, pinRight, rejected, badHello,
                 c2h, h2c, orphan, hostVars>>

PINAfterStop ==
  /\ cpc = "pinStopped"
  /\ cpc' = "idle"
  /\ UNCHANGED <<cur, token, crec, pinRight, rejected, badHello, linkVars, hostVars>>

(* mobile.ForgetPeer: the store's record of the host goes. *)
ForgetHost ==
  /\ "forget" \in Faults /\ crec # 0
  /\ crec' = 0
  /\ UNCHANGED <<cpc, cur, token, pinRight, rejected, badHello, linkVars, hostVars>>

(* SetQualityMode or SetSource: sent whenever there is a session. *)
SendControl ==
  /\ "control" \in Faults /\ cpc \in Waiting \cup {"streaming"} /\ up[cur]
  /\ \A i \in 1 .. Len(c2h[cur]) : c2h[cur][i].type # "CONTROL"
  /\ c2h' = send(c2h, cur, <<Msg("CONTROL")>>)
  /\ UNCHANGED <<clientVars, up, h2c, orphan, hostVars>>

ClientStep ==
  \/ Dial \/ tryResumeOK \/ tryResumeTimeout \/ OrphanRead
  \/ ExchangeHellosHello \/ ExchangeHellosOK
  \/ EnterPIN \/ runPairingChallenge \/ runPairingResult
  \/ RequestStream \/ UnexpectedMessage \/ HandshakeError
  \/ mediaLoopError \/ Backoff \/ PINAfterStop

(***************************************************************************)
(* The host: one handler goroutine per connection.  handleConnInner closes *)
(* the connection on every return.                                         *)
(***************************************************************************)
HostWaiting == {"first", "hello", "begin", "confirm", "start", "serve", "serveResumed"}
Registered(n) == hpc[n] \in {"start", "serve", "serveResumed"}
Key(n) == IF hpc[n] = "serveResumed" THEN "zero" ELSE "peer"

(* The handler returns: unregisterStream deletes whatever its key holds,   *)
(* runPairing releases pairMu, the connection is closed.                   *)
Return(n) ==
  /\ hpc' = [hpc EXCEPT ![n] = "none"]
  /\ up' = [up EXCEPT ![n] = FALSE]
  /\ pairMu' = IF pairMu = n THEN 0 ELSE pairMu
  /\ conns' = IF Registered(n) THEN [conns EXCEPT ![Key(n)] = 0] ELSE conns
  /\ UNCHANGED <<h2c, orphan, trusted, resumeStates>>

(* The peer is gone, as a receive of the handler finds out sooner or later *)
(* (CONNECTION_CLOSE or the idle timeout).                                 *)
ConnectionGone(n) ==
  /\ hpc[n] \in HostWaiting /\ ~up[n]
  /\ Return(n)
  /\ UNCHANGED <<clientVars, c2h, hrec, hdisk>>

(* RESUME with a known token: RESUME_OK, register under the session's      *)
(* (zero) peer ID, serve.  The session has no token of its own, so         *)
(* storeResumeState leaves the states alone.                               *)
tryResume(n) ==
  /\ hpc[n] = "first" /\ Received(c2h, n, "RESUME")
  /\ c2h' = Consume(c2h, n)
  /\ \/ /\ Head(c2h[n]).arg \in resumeStates
        /\ h2c' = send(h2c, n, <<Msg("RESUME_OK")>>)
        /\ hpc' = [hpc EXCEPT ![n] = "serveResumed"]
        /\ conns' = [conns EXCEPT !["zero"] = n]
     \/ /\ Head(c2h[n]).arg \notin resumeStates
        /\ hpc' = [hpc EXCEPT ![n] = "hello"]
        /\ UNCHANGED <<h2c, conns>>
  /\ UNCHANGED <<clientVars, up, orphan, trusted, hrec, hdisk, resumeStates, pairMu>>

(* CompleteHello: HELLO and HELLO_OK with a fresh token; then pairing, or  *)
(* registerStream for a trusted fingerprint.                               *)
CompleteHello(n) ==
  /\ hpc[n] \in {"first", "hello"} /\ Received(c2h, n, "HELLO")
  /\ c2h' = Consume(c2h, n)
  /\ h2c' = send(h2c, n, <<Msg("HELLO"), [type |-> "HELLO_OK", arg |-> n]>>)
  /\ \/ ~trusted /\ hpc' = [hpc EXCEPT ![n] = "lock"] /\ UNCHANGED conns
     \/ trusted /\ hpc' = [hpc EXCEPT ![n] = "start"] /\ conns' = [conns EXCEPT !["peer"] = n]
  /\ UNCHANGED <<clientVars, up, orphan, trusted, hrec, hdisk, resumeStates, pairMu>>

lockPairMuAlways(n) ==
  /\ hpc[n] = "lock"
  /\ pairMu' = n
  /\ hpc' = [hpc EXCEPT ![n] = "begin"]
  /\ UNCHANGED <<clientVars, linkVars, trusted, hrec, hdisk, resumeStates, conns>>

(* runPairing, up to the next receive each: pairings are serialized. *)
lockPairMu(n) ==
  /\ hpc[n] = "lock" /\ pairMu = 0
  /\ pairMu' = n
  /\ hpc' = [hpc EXCEPT ![n] = "begin"]
  /\ UNCHANGED <<clientVars, linkVars, trusted, hrec, hdisk, resumeStates, conns>>

runPairingBegin(n) ==
  /\ hpc[n] = "begin" /\ Received(c2h, n, "PAIR_BEGIN")
  /\ c2h' = Consume(c2h, n)
  /\ h2c' = send(h2c, n, <<Msg("PAIR_CHALLENGE")>>)
  /\ hpc' = [hpc EXCEPT ![n] = "confirm"]
  /\ UNCHANGED <<clientVars, up, orphan, trusted, hrec, hdisk, resumeStates, pairMu, conns>>

(* OnConfirm accepts the code: PAIR_RESULT goes out before the record is   *)
(* saved.                                                                  *)
runPairingConfirm(n) ==
  /\ hpc[n] = "confirm" /\ Received(c2h, n, "PAIR_CONFIRM") /\ Head(c2h[n]).arg = 1
  /\ c2h' = Consume(c2h, n)
  /\ h2c' = send(h2c, n, <<Msg("PAIR_RESULT")>>)
  /\ hpc' = [hpc EXCEPT ![n] = "save"]
  /\ UNCHANGED <<clientVars, up, orphan, trusted, hrec, hdisk, resumeStates, pairMu, conns>>

(* SavePeer; runPairing returns and releases pairMu. *)
SavePeer(n) ==
  /\ hpc[n] = "save"
  /\ hrec' = n /\ hdisk' = n
  /\ pairMu' = 0
  /\ hpc' = [hpc EXCEPT ![n] = "trust"]
  /\ UNCHANGED <<clientVars, linkVars, trusted, resumeStates, conns>>

(* SavePeer fails to write the file; the record stays in memory. *)
SavePeerFails(n) ==
  /\ "saveFail" \in Faults /\ hpc[n] = "save"
  /\ hrec' = n
  /\ Return(n)
  /\ UNCHANGED <<clientVars, c2h, hdisk>>

(* h.trusted[peerFP] = true, outside any lock; then registerStream. *)
Trust(n) ==
  /\ hpc[n] = "trust"
  /\ trusted' = TRUE
  /\ hpc' = [hpc EXCEPT ![n] = "start"]
  /\ conns' = [conns EXCEPT !["peer"] = n]
  /\ UNCHANGED <<clientVars, linkVars, hrec, hdisk, resumeStates, pairMu>>

StartStreamAckEarly(n) ==
  /\ hpc[n] = "start" /\ Received(c2h, n, "STREAM_START")
  /\ c2h' = Consume(c2h, n)
  /\ h2c' = send(h2c, n, <<Msg("STREAM_ACK")>>)
  /\ UNCHANGED <<clientVars, up, orphan, hostVars>>

(* StartStream with startStreamFor as its producer: storeResumeState, then *)
(* STREAM_ACK; ServeLoop follows.                                          *)
StartStream(n) ==
  /\ hpc[n] = "start" /\ Received(c2h, n, "STREAM_START")
  /\ c2h' = Consume(c2h, n)
  /\ resumeStates' = resumeStates \cup {n}
  /\ h2c' = send(h2c, n, <<Msg("STREAM_ACK")>>)
  /\ hpc' = [hpc EXCEPT ![n] = "serve"]
  /\ UNCHANGED <<clientVars, up, orphan, trusted, hrec, hdisk, pairMu, conns>>

(* The producer fails (no capture, no codec): an empty STREAM_ACK, and the *)
(* connection is closed; the receiver fails on whichever it meets first.   *)
StartStreamFails(n) ==
  /\ "noCapture" \in Faults
  /\ hpc[n] = "start" /\ Received(c2h, n, "STREAM_START")
  /\ c2h' = Consume(c2h, n)
  /\ Return(n)
  /\ UNCHANGED <<clientVars, hrec, hdisk>>

(* handleControl: what a served connection sends changes nothing here. *)
ServeLoop(n) ==
  /\ hpc[n] \in {"serve", "serveResumed"} /\ c2h[n] # <<>>
  /\ c2h' = Consume(c2h, n)
  /\ UNCHANGED <<clientVars, up, h2c, orphan, hostVars>>

(* A handshake message of the wrong type, or a refused code: close. *)
expected(n) ==
  IF hpc[n] = "first" THEN {"HELLO", "RESUME"}
  ELSE IF hpc[n] = "hello" THEN {"HELLO"}
  ELSE IF hpc[n] = "begin" THEN {"PAIR_BEGIN"}
  ELSE IF hpc[n] = "confirm" THEN {"PAIR_CONFIRM"}
  ELSE {"STREAM_START"}

HandshakeRefusedNoClose(n) ==
  /\ hpc[n] \in {"first", "hello", "begin", "confirm", "start"}
  /\ Unexpected(c2h, n, expected(n))
  /\ c2h' = Consume(c2h, n)
  /\ hpc' = [hpc EXCEPT ![n] = "none"]
  /\ pairMu' = IF pairMu = n THEN 0 ELSE pairMu
  /\ conns' = IF Registered(n) THEN [conns EXCEPT ![Key(n)] = 0] ELSE conns
  /\ UNCHANGED <<clientVars, up, h2c, orphan, trusted, hrec, hdisk, resumeStates>>

HandshakeRefused(n) ==
  /\ hpc[n] \in {"first", "hello", "begin", "confirm", "start"}
  /\ Unexpected(c2h, n, expected(n))
  /\ c2h' = Consume(c2h, n)
  /\ Return(n)
  /\ UNCHANGED <<clientVars, hrec, hdisk>>

PinMismatch(n) ==
  /\ hpc[n] = "confirm" /\ Received(c2h, n, "PAIR_CONFIRM") /\ Head(c2h[n]).arg = 0
  /\ c2h' = Consume(c2h, n)
  /\ rejected' = (rejected \/ n = cur)
  /\ Return(n)
  /\ UNCHANGED <<cpc, cur, token, crec, pinRight, badHello, hrec, hdisk>>

(* PairingTimeout, which may win against a message that is just arriving. *)
PairingTimeout(n) ==
  /\ hpc[n] \in {"begin", "confirm"} /\ up[n]
  /\ Return(n)
  /\ UNCHANGED <<clientVars, c2h, hrec, hdisk>>

HostStep(n) ==
  \/ ConnectionGone(n) \/ tryResume(n) \/ CompleteHello(n)
  \/ lockPairMu(n) \/ runPairingBegin(n) \/ runPairingConfirm(n)
  \/ SavePeer(n) \/ SavePeerFails(n) \/ Trust(n)
  \/ StartStream(n) \/ StartStreamFails(n) \/ ServeLoop(n)
  \/ HandshakeRefused(n) \/ PinMismatch(n) \/ PairingTimeout(n)

(* Host.ForgetPeer: drop the record, the trust and the registered stream   *)
(* of the peer's key.                                                      *)
ForgetPeer ==
  /\ "forget" \in Faults /\ hrec # 0
  /\ hrec' = 0 /\ hdisk' = 0 /\ trusted' = FALSE
  /\ up' = [n \in Attempts |-> up[n] /\ conns["peer"] # n]
  /\ conns' = [conns EXCEPT !["peer"] = 0]
  /\ UNCHANGED <<clientVars, c2h, h2c, orphan, hpc, resumeStates, pairMu>>

(* RemovePeer fails to write the file: ForgetPeer returns early. *)
ForgetPeerFails ==
  /\ "forget" \in Faults /\ "saveFail" \in Faults /\ hrec # 0
  /\ hrec' = 0
  /\ UNCHANGED <<clientVars, linkVars, hpc, trusted, hdisk, resumeStates, pairMu, conns>>

(* The host process ends and starts again: NewHost rebuilds trusted from   *)
(* the store, the resume states are gone.                                  *)
HostRestart ==
  /\ "restart" \in Faults
  /\ hpc' = [n \in Attempts |-> "none"]
  /\ up' = [n \in Attempts |-> FALSE]
  /\ hrec' = hdisk /\ trusted' = (hdisk # 0)
  /\ resumeStates' = {} /\ pairMu' = 0
  /\ conns' = [k \in {"peer", "zero"} |-> 0]
  /\ UNCHANGED <<clientVars, c2h, h2c, orphan, hdisk>>

(* The network path of a connection breaks. *)
Drop(n) ==
  /\ "drop" \in Faults /\ up[n]
  /\ up' = [up EXCEPT ![n] = FALSE]
  /\ UNCHANGED <<clientVars, c2h, h2c, orphan, hostVars>>

Next ==
  \/ Connect \/ Stop \/ ForgetHost \/ SendControl \/ ClientStep
  \/ ForgetPeer \/ ForgetPeerFails \/ HostRestart
  \/ \E n \in Attempts : HostStep(n) \/ Drop(n)

Spec == Init /\ [][Next]_vars

(* Goroutines that can run do run, timers fire, the user answers the PIN   *)
(* prompt and starts the client.  Nothing obliges a user to stop it, a     *)
(* device to be forgotten or a connection to break.                        *)
FairSpec ==
  /\ Spec
  /\ WF_vars(Connect) /\ WF_vars(ClientStep)
  /\ \A n \in Attempts : WF_vars(HostStep(n))

-----------------------------------------------------------------------------
(* When both stores hold a record, the two records hold the secret of the  *)
(* same exchange, through lost results, repeated pairings and forgotten    *)
(* devices (runPairing on both sides, pairMu); the host may still have the *)
(* save of that exchange ahead of it.                                      *)
SecretAgreement == crec # 0 /\ hrec # 0 => crec = hrec \/ hpc[crec] = "save"

(* "they store (peerId, peerName, pairingSecret, senderCertFp)": a         *)
(* receiver that keeps a record is known to the host, or its handler is    *)
(* about to save it (runPairing sends PAIR_RESULT before SavePeer).        *)
BothSidesStore == crec # 0 => hrec # 0 \/ hpc[crec] = "save"

(* A receiver that plays believes the same connection that the host serves,*)
(* until one of them notices that it is gone.                              *)
StreamAgreement ==
  cpc = "streaming" /\ up[cur] => hpc[cur] \in {"serve", "serveResumed"}

(* A first attempt, one that has no token to resume with, never hangs: it  *)
(* ends in a stream or in an error that lets Run try again.                *)
FirstAttemptEnds ==
  \A n \in Attempts :
    (cur = n /\ cpc = "hello" /\ token = 0) ~>
      (cur # n \/ cpc \in {"streaming", "draining", "backoff", "dial", "idle"})

(* "a missed resume simply falls back to the full flow": it never ends in  *)
(* the error "expected hello".                                             *)
MissedResumeFallsBack == ~badHello

(* The same promise, seen from the host: a receiver that has gone on to    *)
(* HELLO is not being served as resumed, where its HELLO is never answered.*)
HelloIsNotServed == ~(cpc = "hello" /\ up[cur] /\ hpc[cur] = "serveResumed")

(* "terminal: wrong code is not retryable": a client whose code was        *)
(* refused does not dial again.                                            *)
WrongCodeIsTerminal == rejected => cpc # "dial"

(* "retries with exponential backoff and resumes previously negotiated     *)
(* streams": a receiver whose stream broke dials again.                    *)
ReconnectsAfterLoss == (cpc = "streaming" /\ ~up[cur]) ~> (cpc = "dial")

(* ForgetPeer "removes a paired peer ... from the trust store, the         *)
(* in-memory trusted set": a trusted fingerprint has a record.             *)
TrustedHasRecord == trusted => hrec # 0

(* "registerStream/unregisterStream maintain the live receiver list": a    *)
(* receiver that is being served is listed.                                *)
ServedIsListed == \A n \in Attempts : hpc[n] = "serve" /\ up[n] => conns["peer"] = n
=============================================================================
