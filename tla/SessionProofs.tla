---------------------------- MODULE SessionProofs ----------------------------
(***************************************************************************)
(* Proofs about Session for every number of attempts.  StreamAgreement     *)
(* holds whatever the environment does.  SecretAgreement is proved for a   *)
(* host process that does not end: PAIR_RESULT goes out before SavePeer,   *)
(* and a host that ends in between comes back with an older record.        *)
(***************************************************************************)
EXTENDS Session, TLAPS

MessageTypes ==
  {"HELLO", "HELLO_OK", "RESUME", "RESUME_OK", "PAIR_BEGIN", "PAIR_CHALLENGE", "PAIR_CONFIRM",
   "PAIR_RESULT", "STREAM_START", "STREAM_ACK", "CONTROL"}
Message == [type : MessageTypes, arg : 0 .. MaxDials]
ControlStreams == [Attempts -> Seq(Message)]

ClientPlaces == Waiting \cup {"idle", "dial", "pin", "pinStopped", "streaming", "stuck",
                              "draining", "backoff"}
HostPlaces == HostWaiting \cup {"none", "lock", "save", "trust"}

(* The types of the variables the invariants speak of. *)
TypeOK ==
  /\ cpc \in ClientPlaces /\ cur \in 0 .. MaxDials
  /\ token \in 0 .. MaxDials /\ crec \in 0 .. MaxDials
  /\ hpc \in [Attempts -> HostPlaces]
  /\ up \in [Attempts -> BOOLEAN]
  /\ c2h \in ControlStreams /\ h2c \in ControlStreams
  /\ hrec \in 0 .. MaxDials /\ hdisk \in 0 .. MaxDials /\ pairMu \in 0 .. MaxDials

(* A message of a type waits in a direction of a control stream. *)
Has(s, type) == \E i \in 1 .. Len(s) : s[i].type = type

(* A receiver past its first dial is about an attempt. *)
Dialled == cpc \in Waiting \cup {"pin", "streaming", "stuck", "draining"} => cur # 0

(* Nothing has happened to the attempts that were not dialled yet. *)
Fresh == \A n \in Attempts : n > cur => hpc[n] = "none" /\ ~up[n] /\ h2c[n] = <<>>

(* An answer that lets the receiver play is on a live stream only while    *)
(* the handler serves.                                                     *)
AnswersServed ==
  \A n \in Attempts : up[n] =>
    /\ Has(h2c[n], "RESUME_OK") => hpc[n] = "serveResumed"
    /\ Has(h2c[n], "STREAM_ACK") => hpc[n] = "serve"

(* The inductive invariant behind StreamAgreement. *)
StreamInv == TypeOK /\ Dialled /\ Fresh /\ AnswersServed /\ StreamAgreement

-----------------------------------------------------------------------------
(* What is done to a control stream. *)

(* A stream gains at most messages of the given types, those on one live   *)
(* connection; the others are as they were.                                *)
Gains(old, new, n, types) ==
  \A m \in Attempts :
    /\ m # n => new[m] = old[m]
    /\ \A t \in MessageTypes : Has(new[m], t) => Has(old[m], t) \/ (m = n /\ up[n] /\ t \in types)

(* Messages appended to a stream. *)
LEMMA HasAppended ==
  ASSUME NEW s \in Seq(Message), NEW ms \in Seq(Message), NEW t \in MessageTypes, Has(s \o ms, t)
  PROVE  Has(s, t) \/ Has(ms, t)
<1>1. PICK i \in 1 .. Len(s \o ms) : (s \o ms)[i].type = t  BY DEF Has
<1>2. Len(s \o ms) = Len(s) + Len(ms) /\ Len(s) \in Nat /\ Len(ms) \in Nat  OBVIOUS
<1>3. CASE i <= Len(s)
  <2>1. i \in 1 .. Len(s) /\ (s \o ms)[i] = s[i]  BY <1>2, <1>3
  <2>. QED  BY <1>1, <2>1 DEF Has
<1>4. CASE i > Len(s)
  <2>1. i - Len(s) \in 1 .. Len(ms) /\ (s \o ms)[i] = ms[i - Len(s)]  BY <1>2, <1>4
  <2>. QED  BY <1>1, <2>1 DEF Has
<1>. QED  BY <1>1, <1>2, <1>3, <1>4

(* send appends to a live connection's stream and to no other. *)
LEMMA SendGains ==
  ASSUME TypeOK, NEW chan \in ControlStreams, NEW n \in Attempts, NEW ms \in Seq(Message),
         NEW types, \A t \in MessageTypes : Has(ms, t) => t \in types
  PROVE  send(chan, n, ms) \in ControlStreams /\ Gains(chan, send(chan, n, ms), n, types)
<1>1. CASE up[n]
  <2>1. send(chan, n, ms) = [chan EXCEPT ![n] = chan[n] \o ms]  BY <1>1 DEF send
  <2>2. chan[n] \in Seq(Message) /\ chan[n] \o ms \in Seq(Message)  BY DEF ControlStreams
  <2>3. \A t \in MessageTypes : Has(chan[n] \o ms, t) => Has(chan[n], t) \/ t \in types
    BY <2>2, HasAppended
  <2>. QED  BY <1>1, <2>1, <2>2, <2>3 DEF ControlStreams, Gains
<1>2. CASE ~up[n]
  BY <1>2 DEF send, Gains
<1>. QED  BY <1>1, <1>2

(* What a single message makes a stream have. *)
LEMMA OneMessage ==
  ASSUME NEW a \in Message, NEW t \in MessageTypes, Has(<<a>>, t) PROVE t \in {a.type}
  BY DEF Has

(* What HELLO and HELLO_OK, sent together, make it have. *)
LEMMA TwoMessages ==
  ASSUME NEW a \in Message, NEW b \in Message, NEW t \in MessageTypes, Has(<<a, b>>, t)
  PROVE  t \in {a.type, b.type}
<1>1. PICK i \in 1 .. Len(<<a, b>>) : <<a, b>>[i].type = t  BY DEF Has
<1>2. i = 1 \/ i = 2  BY <1>1
<1>. QED  BY <1>1, <1>2

(* Consume takes the first message of one stream. *)
LEMMA ConsumeGains ==
  ASSUME NEW chan \in ControlStreams, NEW n \in Attempts, chan[n] # <<>>
  PROVE  /\ Consume(chan, n) \in ControlStreams
         /\ Gains(chan, Consume(chan, n), n, {})
         /\ Head(chan[n]) \in Message
         /\ Has(chan[n], Head(chan[n]).type)
<1>1. chan[n] \in Seq(Message)  BY DEF ControlStreams
<1>2. Tail(chan[n]) \in Seq(Message) /\ Head(chan[n]) \in Message  BY <1>1
<1>3. \A t \in MessageTypes : Has(Tail(chan[n]), t) => Has(chan[n], t)
  <2>. SUFFICES ASSUME NEW t \in MessageTypes, Has(Tail(chan[n]), t) PROVE Has(chan[n], t)  OBVIOUS
  <2>1. PICK i \in 1 .. Len(Tail(chan[n])) : Tail(chan[n])[i].type = t  BY DEF Has
  <2>2. i + 1 \in 1 .. Len(chan[n]) /\ Tail(chan[n])[i] = chan[n][i + 1]  BY <1>1
  <2>. QED  BY <2>1, <2>2 DEF Has
<1>4. Has(chan[n], Head(chan[n]).type)
  <2>1. 1 \in 1 .. Len(chan[n]) /\ Head(chan[n]) = chan[n][1]  BY <1>1
  <2>. QED  BY <2>1 DEF Has
<1>5. Consume(chan, n) = [chan EXCEPT ![n] = Tail(chan[n])]  BY DEF Consume
<1>. QED  BY <1>2, <1>3, <1>4, <1>5 DEF ControlStreams, Gains

(* A message without an argument. *)
LEMMA MsgType ==
  ASSUME NEW t \in MessageTypes
  PROVE  Msg(t) \in Message /\ Msg(t).type = t /\ <<Msg(t)>> \in Seq(Message)
<1>1. Msg(t) \in Message /\ Msg(t).type = t  BY SessionAssumption DEF Msg, Message
<1>. QED  BY <1>1

(* The types by name. *)
LEMMA KnownTypes ==
  /\ "HELLO" \in MessageTypes /\ "HELLO_OK" \in MessageTypes
  /\ "RESUME" \in MessageTypes /\ "RESUME_OK" \in MessageTypes
  /\ "PAIR_BEGIN" \in MessageTypes /\ "PAIR_CHALLENGE" \in MessageTypes
  /\ "PAIR_CONFIRM" \in MessageTypes /\ "PAIR_RESULT" \in MessageTypes
  /\ "STREAM_START" \in MessageTypes /\ "STREAM_ACK" \in MessageTypes
  /\ "CONTROL" \in MessageTypes
BY DEF MessageTypes

(* send of one message. *)
LEMMA SendOne ==
  ASSUME TypeOK, NEW chan \in ControlStreams, NEW n \in Attempts, NEW t \in MessageTypes
  PROVE  /\ send(chan, n, <<Msg(t)>>) \in ControlStreams
         /\ Gains(chan, send(chan, n, <<Msg(t)>>), n, {t})
<1>1. \A u \in MessageTypes : Has(<<Msg(t)>>, u) => u \in {t}
  BY MsgType, OneMessage
<1>. QED  BY <1>1, MsgType, SendGains

-----------------------------------------------------------------------------
(* StreamAgreement: the steps of the user and of the receiver *)

(* A step that only takes answers off the stream, or closes it. *)
LEMMA TakingAnswers ==
  ASSUME StreamInv, cur' = cur, hpc' = hpc,
         \A n \in Attempts : up'[n] => up[n], Gains(h2c, h2c', cur, {})
  PROVE  Fresh' /\ AnswersServed'
<1>1. Fresh'  BY DEF StreamInv, Fresh, Gains, TypeOK
<1>2. AnswersServed'
  <2>1. "RESUME_OK" \in MessageTypes /\ "STREAM_ACK" \in MessageTypes  BY DEF MessageTypes
  <2>. QED  BY <2>1 DEF StreamInv, AnswersServed, Gains
<1>. QED  BY <1>1, <1>2

(* Connect, Stop, ForgetHost and SendControl: the user. *)
LEMMA UserStream ==
  ASSUME StreamInv, Connect \/ Stop \/ ForgetHost \/ SendControl
  PROVE  StreamInv'
<1>. USE DEF StreamInv, linkVars, hostVars, clientVars
<1>0. MaxDials \in Nat \ {0} /\ Attempts = 1 .. MaxDials  BY SessionAssumption DEF Attempts
<1>1. CASE Connect
  <2>1. TypeOK'  BY <1>1, <1>0 DEF Connect, TypeOK, ClientPlaces, Waiting
  <2>. QED  BY <2>1, <1>1 DEF Connect, Dialled, Fresh, AnswersServed, StreamAgreement, Waiting
<1>2. CASE Stop
  <2>1. TypeOK'  BY <1>2, <1>0 DEF Stop, TypeOK, ClientPlaces, Waiting
  <2>2. \A n \in Attempts : up'[n] => up[n]  BY <1>2, <1>0 DEF Stop, TypeOK
  <2>. QED  BY <2>1, <2>2, <1>2 DEF Stop, Dialled, Fresh, AnswersServed, StreamAgreement, Waiting
<1>3. CASE ForgetHost
  <2>1. TypeOK'  BY <1>3, <1>0 DEF ForgetHost, TypeOK
  <2>. QED  BY <2>1, <1>3 DEF ForgetHost, Dialled, Fresh, AnswersServed, StreamAgreement
<1>4. CASE SendControl
  <2>1. cur \in Attempts  BY <1>4, <1>0 DEF SendControl, Dialled, TypeOK
  <2>2. c2h' \in ControlStreams
    <3>1. TypeOK /\ c2h \in ControlStreams /\ c2h' = send(c2h, cur, <<Msg("CONTROL")>>)
      BY <1>4 DEF SendControl, TypeOK
    <3>. QED  BY <3>1, <2>1, KnownTypes, SendOne
  <2>3. TypeOK'  BY <1>4, <2>2 DEF SendControl, TypeOK
  <2>. QED  BY <2>3, <1>4 DEF SendControl, Dialled, Fresh, AnswersServed, StreamAgreement
<1>. QED  BY <1>1, <1>2, <1>3, <1>4

(* Dial starts from a fresh connection. *)
LEMMA DialStream == ASSUME StreamInv, Dial PROVE StreamInv'
<1>. USE DEF StreamInv
<1>0. MaxDials \in Nat \ {0} /\ Attempts = 1 .. MaxDials  BY SessionAssumption DEF Attempts
<1>1. cur' = cur + 1 /\ cur' \in Attempts  BY <1>0 DEF Dial, TypeOK
<1>2. c2h' \in ControlStreams
  <2>1. <<Msg("HELLO")>> \in Seq(Message)  BY MsgType DEF MessageTypes
  <2>2. [type |-> "RESUME", arg |-> token] \in Message  BY DEF TypeOK, Message, MessageTypes
  <2>3. <<[type |-> "RESUME", arg |-> token]>> \in Seq(Message)  BY <2>2
  <2>4. PICK ms \in Seq(Message) : c2h' = [c2h EXCEPT ![cur'] = ms]
    BY <1>1, <2>1, <2>3 DEF Dial
  <2>. QED  BY <2>4 DEF TypeOK, ControlStreams
<1>3. TypeOK'
  BY <1>0, <1>1, <1>2 DEF Dial, TypeOK, ClientPlaces, Waiting, HostPlaces, HostWaiting
<1>4. Dialled'  BY <1>0, <1>1 DEF Dialled
<1>5. \A n \in Attempts : n # cur' => up'[n] = up[n] /\ hpc'[n] = hpc[n]
  BY <1>1 DEF Dial, TypeOK
<1>6. h2c' = h2c /\ h2c[cur'] = <<>>
  BY <1>0, <1>1 DEF Dial, Fresh, TypeOK
<1>7. Fresh'  BY <1>0, <1>1, <1>5, <1>6 DEF Fresh, TypeOK
<1>8. AnswersServed'
  <2>1. \A t : ~Has(<<>>, t)  BY DEF Has
  <2>. QED  BY <1>5, <1>6, <2>1 DEF AnswersServed
<1>9. StreamAgreement'  BY DEF Dial, StreamAgreement
<1>. QED  BY <1>3, <1>4, <1>7, <1>8, <1>9

(* A step of the handshake: it takes answers and does not start to play. *)
LEMMA HandshakeStream ==
  ASSUME StreamInv, Dialled', cpc' \in ClientPlaces \ {"streaming"},
         cur' = cur, hpc' = hpc, hrec' = hrec, hdisk' = hdisk, pairMu' = pairMu,
         token' \in 0 .. MaxDials, crec' \in 0 .. MaxDials,
         up' \in [Attempts -> BOOLEAN], \A n \in Attempts : up'[n] => up[n],
         c2h' \in ControlStreams, h2c' \in ControlStreams, Gains(h2c, h2c', cur, {})
  PROVE  StreamInv'
<1>1. TypeOK'  BY DEF StreamInv, TypeOK
<1>2. StreamAgreement'  BY DEF StreamAgreement
<1>. QED  BY <1>1, <1>2, TakingAnswers DEF StreamInv

(* A stream nobody touched. *)
LEMMA NoGain == ASSUME NEW chan, NEW n, NEW types PROVE Gains(chan, chan, n, types)
BY DEF Gains

(* PAIR_CONFIRM goes out on the receiver's own stream. *)
LEMMA ConfirmSent ==
  ASSUME StreamInv, runPairingChallenge
  PROVE  c2h' \in ControlStreams /\ Gains(c2h, c2h', cur, {"PAIR_CONFIRM"})
<1>1. cur \in Attempts
  BY SessionAssumption DEF Attempts, StreamInv, runPairingChallenge, Dialled, TypeOK, Waiting
<1> DEFINE confirm == [type |-> "PAIR_CONFIRM", arg |-> IF pinRight THEN 1 ELSE 0]
<1>2. confirm \in Message /\ confirm.type = "PAIR_CONFIRM"
  BY SessionAssumption, KnownTypes DEF Message
<1>3. c2h' = send(c2h, cur, <<confirm>>)  BY DEF runPairingChallenge
<1> HIDE DEF confirm
<1>4. <<confirm>> \in Seq(Message)
      /\ \A t \in MessageTypes : Has(<<confirm>>, t) => t \in {"PAIR_CONFIRM"}
  BY <1>2, OneMessage
<1>. QED  BY <1>1, <1>3, <1>4, SendGains DEF StreamInv, TypeOK

(* The receiver's other steps. *)
LEMMA ClientStream == ASSUME StreamInv, ClientStep PROVE StreamInv'
<1>. USE DEF StreamInv, linkVars, hostVars
<1>0. MaxDials \in Nat \ {0} /\ Attempts = 1 .. MaxDials  BY SessionAssumption DEF Attempts
<1>1. CASE Dial  BY <1>1, DialStream
<1>2. CASE tryResumeOK
  <2>1. cur \in Attempts  BY <1>2, <1>0 DEF tryResumeOK, Dialled, TypeOK, Waiting
  <2>2. h2c' \in ControlStreams /\ Gains(h2c, h2c', cur, {}) /\ Has(h2c[cur], "RESUME_OK")
    BY <1>2, <2>1, ConsumeGains DEF tryResumeOK, TypeOK, Received
  <2>3. TypeOK'  BY <1>2, <2>2 DEF tryResumeOK, TypeOK, ClientPlaces
  <2>4. Dialled'  BY <1>2, <1>0, <2>1 DEF tryResumeOK, Dialled
  <2>5. StreamAgreement'
    BY <1>2, <2>1, <2>2 DEF tryResumeOK, StreamAgreement, AnswersServed
  <2>. QED  BY <1>2, <2>2, <2>3, <2>4, <2>5, TakingAnswers DEF tryResumeOK
<1>3. CASE RequestStream
  <2>1. cur \in Attempts  BY <1>3, <1>0 DEF RequestStream, Dialled, TypeOK, Waiting
  <2>2. h2c' \in ControlStreams /\ Gains(h2c, h2c', cur, {}) /\ Has(h2c[cur], "STREAM_ACK")
    BY <1>3, <2>1, ConsumeGains DEF RequestStream, TypeOK, Received
  <2>3. TypeOK'  BY <1>3, <2>2 DEF RequestStream, TypeOK, ClientPlaces
  <2>4. Dialled'  BY <1>3, <1>0, <2>1 DEF RequestStream, Dialled
  <2>5. StreamAgreement'
    BY <1>3, <2>1, <2>2 DEF RequestStream, StreamAgreement, AnswersServed
  <2>. QED  BY <1>3, <2>2, <2>3, <2>4, <2>5, TakingAnswers DEF RequestStream
<1>4. CASE tryResumeTimeout
  <2>1. cur \in Attempts  BY <1>4, <1>0 DEF tryResumeTimeout, Dialled, TypeOK, Waiting
  <2>2. c2h' = send(c2h, cur, <<Msg("HELLO")>>)  BY <1>4 DEF tryResumeTimeout
  <2>3. c2h' \in ControlStreams
    BY <2>1, <2>2, SendOne, KnownTypes DEF TypeOK
  <2>. QED
    BY <1>4, <2>1, <2>3, NoGain, HandshakeStream
    DEF tryResumeTimeout, TypeOK, Dialled, ClientPlaces, Waiting
<1>5. CASE OrphanRead
  <2>1. cur \in Attempts  BY <1>5, <1>0 DEF OrphanRead, Dialled, TypeOK, Waiting
  <2>2. h2c' \in ControlStreams /\ Gains(h2c, h2c', cur, {})
    BY <1>5, <2>1, ConsumeGains DEF OrphanRead, TypeOK
  <2>. QED
    BY <1>5, <2>1, <2>2, HandshakeStream
    DEF OrphanRead, TypeOK, Dialled, ClientPlaces, Waiting
<1>6. CASE ExchangeHellosHello
  <2>1. cur \in Attempts  BY <1>6, <1>0 DEF ExchangeHellosHello, Dialled, TypeOK, Waiting
  <2>2. h2c' \in ControlStreams /\ Gains(h2c, h2c', cur, {})
    BY <1>6, <2>1, ConsumeGains DEF ExchangeHellosHello, TypeOK, Received
  <2>. QED
    BY <1>6, <2>1, <2>2, HandshakeStream
    DEF ExchangeHellosHello, TypeOK, Dialled, ClientPlaces, Waiting
<1>7. CASE ExchangeHellosOK
  <2>1. cur \in Attempts  BY <1>7, <1>0 DEF ExchangeHellosOK, Dialled, TypeOK, Waiting
  <2>2. h2c[cur] # <<>> /\ h2c' = Consume(h2c, cur) /\ token' = Head(h2c[cur]).arg
    BY <1>7 DEF ExchangeHellosOK, Received
  <2>3. /\ h2c' \in ControlStreams /\ Gains(h2c, h2c', cur, {})
        /\ Head(h2c[cur]) \in Message
    BY <2>1, <2>2, ConsumeGains DEF TypeOK
  <2>4. token' \in 0 .. MaxDials  BY <2>2, <2>3 DEF Message
  <2>5. c2h' \in ControlStreams
    BY <1>7, <2>1, SendOne, KnownTypes DEF ExchangeHellosOK, TypeOK
  <2>6. cpc' \in {"pin", "ack"}  BY <1>7 DEF ExchangeHellosOK
  <2>. QED
    BY <1>7, <2>1, <2>3, <2>4, <2>5, <2>6, HandshakeStream
    DEF ExchangeHellosOK, TypeOK, Dialled, ClientPlaces, Waiting
<1>8. CASE runPairingChallenge
  <2>1. cur \in Attempts  BY <1>8, <1>0 DEF runPairingChallenge, Dialled, TypeOK, Waiting
  <2>2. h2c' \in ControlStreams /\ Gains(h2c, h2c', cur, {})
    BY <1>8, <2>1, ConsumeGains DEF runPairingChallenge, TypeOK, Received
  <2>3. c2h' \in ControlStreams  BY <1>8, ConfirmSent DEF runPairingChallenge
  <2>. QED
    BY <1>8, <2>1, <2>2, <2>3, HandshakeStream
    DEF runPairingChallenge, TypeOK, Dialled, ClientPlaces, Waiting
<1>9. CASE runPairingResult
  <2>1. cur \in Attempts  BY <1>9, <1>0 DEF runPairingResult, Dialled, TypeOK, Waiting
  <2>2. h2c' \in ControlStreams /\ Gains(h2c, h2c', cur, {})
    BY <1>9, <2>1, ConsumeGains DEF runPairingResult, TypeOK, Received
  <2>3. c2h' \in ControlStreams
    BY <1>9, <2>1, SendOne, KnownTypes DEF runPairingResult, TypeOK
  <2>. QED
    BY <1>9, <2>1, <2>2, <2>3, HandshakeStream
    DEF runPairingResult, TypeOK, Dialled, ClientPlaces, Waiting
<1>10. CASE UnexpectedMessage \/ HandshakeError
  <2>1. up' \in [Attempts -> BOOLEAN] /\ \A n \in Attempts : up'[n] => up[n]
    BY <1>10 DEF UnexpectedMessage, HandshakeError, RunOnceFails, TypeOK
  <2>. QED
    BY <1>10, <2>1, NoGain, HandshakeStream
    DEF UnexpectedMessage, HandshakeError, RunOnceFails, TypeOK, Dialled, ClientPlaces, Waiting
<1>11. CASE EnterPIN \/ mediaLoopError \/ Backoff \/ PINAfterStop
  BY <1>11, NoGain, HandshakeStream
  DEF EnterPIN, mediaLoopError, Backoff, PINAfterStop, TypeOK, Dialled, ClientPlaces, Waiting
<1>. QED
  BY <1>1, <1>2, <1>3, <1>4, <1>5, <1>6, <1>7, <1>8, <1>9, <1>10, <1>11 DEF ClientStep

-----------------------------------------------------------------------------
(* StreamAgreement: the steps of the handlers and of the host *)

(* A handler's step that answers with messages of the given types: it may  *)
(* stop serving only with the connection, and must serve what it answers.  *)
LEMMA HandlerStream ==
  ASSUME StreamInv, NEW n \in Attempts, NEW types,
         cpc' = cpc, cur' = cur, token' = token, crec' = crec,
         hpc[n] # "none", NEW s \in HostPlaces, hpc' = [hpc EXCEPT ![n] = s],
         up' \in [Attempts -> BOOLEAN], \A m \in Attempts : up'[m] => up[m],
         c2h' \in ControlStreams, h2c' \in ControlStreams, Gains(h2c, h2c', n, types),
         hrec' \in 0 .. MaxDials, hdisk' \in 0 .. MaxDials, pairMu' \in 0 .. MaxDials,
         up'[n] => /\ hpc[n] \in {"serve", "serveResumed"} => s = hpc[n]
                   /\ "RESUME_OK" \in types => s = "serveResumed"
                   /\ "STREAM_ACK" \in types => s = "serve"
  PROVE  StreamInv'
<1>. USE DEF StreamInv
<1>0. MaxDials \in Nat \ {0} /\ Attempts = 1 .. MaxDials  BY SessionAssumption DEF Attempts
<1>1. TypeOK'  BY DEF TypeOK
<1>2. Dialled'  BY DEF Dialled
<1>3. Fresh'
  <2>1. n <= cur  BY <1>0 DEF Fresh, TypeOK
  <2>. QED  BY <1>0, <2>1 DEF Fresh, Gains, TypeOK
<1>4. AnswersServed'
  <2>1. \A m \in Attempts : m # n => hpc'[m] = hpc[m]  BY DEF TypeOK
  <2>2. hpc'[n] = s  BY DEF TypeOK
  <2>. QED  BY <2>1, <2>2, KnownTypes DEF AnswersServed, Gains
<1>5. StreamAgreement'
  <2>1. \A m \in Attempts : m # n => hpc'[m] = hpc[m]  BY DEF TypeOK
  <2>2. hpc'[n] = s  BY DEF TypeOK
  <2>3. cpc = "streaming" => cur \in Attempts  BY <1>0 DEF Dialled, TypeOK
  <2>. QED  BY <2>1, <2>2, <2>3 DEF StreamAgreement
<1>. QED  BY <1>1, <1>2, <1>3, <1>4, <1>5

(* A handler that returns. *)
LEMMA ReturnStream ==
  ASSUME StreamInv, NEW n \in Attempts, hpc[n] # "none", Return(n),
         cpc' = cpc, cur' = cur, token' = token, crec' = crec, c2h' \in ControlStreams,
         hrec' \in 0 .. MaxDials, hdisk' \in 0 .. MaxDials
  PROVE  StreamInv'
<1>1. "none" \in HostPlaces  BY DEF HostPlaces
<1>2. /\ up' \in [Attempts -> BOOLEAN] /\ ~up'[n]
      /\ \A m \in Attempts : up'[m] => up[m]
  BY DEF Return, StreamInv, TypeOK
<1>3. pairMu' \in 0 .. MaxDials
  BY SessionAssumption DEF Return, StreamInv, TypeOK
<1>4. h2c' \in ControlStreams /\ Gains(h2c, h2c', n, {})
  BY NoGain DEF Return, StreamInv, TypeOK
<1>. QED  BY <1>1, <1>2, <1>3, <1>4, HandlerStream DEF Return

(* A handler takes a message off its stream. *)
LEMMA Taken ==
  ASSUME StreamInv, NEW n \in Attempts, c2h[n] # <<>>, c2h' = Consume(c2h, n)
  PROVE  c2h' \in ControlStreams /\ Gains(c2h, c2h', n, {})
BY ConsumeGains DEF StreamInv, TypeOK

(* A handler answers. *)
LEMMA Answered ==
  ASSUME StreamInv, NEW n \in Attempts, NEW t \in MessageTypes,
         h2c' = send(h2c, n, <<Msg(t)>>)
  PROVE  h2c' \in ControlStreams /\ Gains(h2c, h2c', n, {t})
BY SendOne DEF StreamInv, TypeOK

(* CompleteHello answers twice. *)
LEMMA HelloAnswered ==
  ASSUME StreamInv, NEW n \in Attempts, CompleteHello(n)
  PROVE  h2c' \in ControlStreams /\ Gains(h2c, h2c', n, {"HELLO", "HELLO_OK"})
<1> DEFINE ok == [type |-> "HELLO_OK", arg |-> n]
<1>1. ok \in Message /\ ok.type = "HELLO_OK"
  BY SessionAssumption, KnownTypes DEF Message, Attempts
<1>2. h2c' = send(h2c, n, <<Msg("HELLO"), ok>>)  BY DEF CompleteHello
<1> HIDE DEF ok
<1>3. Msg("HELLO") \in Message /\ Msg("HELLO").type = "HELLO"  BY MsgType, KnownTypes
<1>4. <<Msg("HELLO"), ok>> \in Seq(Message)  BY <1>1, <1>3
<1>5. \A t \in MessageTypes : Has(<<Msg("HELLO"), ok>>, t) => t \in {"HELLO", "HELLO_OK"}
  BY <1>1, <1>3, TwoMessages
<1>. QED  BY <1>2, <1>4, <1>5, SendGains DEF StreamInv, TypeOK

(* The steps of a handler. *)
LEMMA HostStream ==
  ASSUME StreamInv, NEW n \in Attempts, HostStep(n)
  PROVE  StreamInv'
<1>. USE DEF clientVars, linkVars, hostVars
<1>1. CASE ConnectionGone(n)
  BY <1>1, ReturnStream DEF ConnectionGone, StreamInv, TypeOK, HostWaiting
<1>2. CASE HandshakeRefused(n)
  BY <1>2, Taken, ReturnStream DEF HandshakeRefused, StreamInv, TypeOK, Unexpected
<1>3. CASE PinMismatch(n)
  BY <1>3, Taken, ReturnStream DEF PinMismatch, StreamInv, TypeOK, Received
<1>4. CASE PairingTimeout(n)
  BY <1>4, ReturnStream DEF PairingTimeout, StreamInv, TypeOK
<1>5. CASE StartStreamFails(n)
  BY <1>5, Taken, ReturnStream DEF StartStreamFails, StreamInv, TypeOK, Received
<1>6. CASE SavePeerFails(n)
  <2>1. hrec' \in 0 .. MaxDials  BY <1>6, SessionAssumption DEF SavePeerFails, Attempts
  <2>. QED  BY <1>6, <2>1, ReturnStream DEF SavePeerFails, StreamInv, TypeOK
<1>7. CASE tryResume(n)
  <2>1. c2h' \in ControlStreams  BY <1>7, Taken DEF tryResume, Received
  <2>2. CASE Head(c2h[n]).arg \in resumeStates /\ h2c' = send(h2c, n, <<Msg("RESUME_OK")>>)
             /\ hpc' = [hpc EXCEPT ![n] = "serveResumed"]
    <3>1. h2c' \in ControlStreams /\ Gains(h2c, h2c', n, {"RESUME_OK"})
      BY <2>2, Answered, KnownTypes
    <3>. QED
      BY <1>7, <2>1, <2>2, <3>1, HandlerStream
      DEF tryResume, StreamInv, TypeOK, HostPlaces, HostWaiting
  <2>3. CASE h2c' = h2c /\ hpc' = [hpc EXCEPT ![n] = "hello"]
    <3>1. h2c' \in ControlStreams /\ Gains(h2c, h2c', n, {})
      BY <2>3, NoGain DEF StreamInv, TypeOK
    <3>. QED
      BY <1>7, <2>1, <2>3, <3>1, HandlerStream
      DEF tryResume, StreamInv, TypeOK, HostPlaces, HostWaiting
  <2>. QED  BY <1>7, <2>2, <2>3 DEF tryResume
<1>8. CASE CompleteHello(n)
  <2>1. c2h' \in ControlStreams  BY <1>8, Taken DEF CompleteHello, Received
  <2>2. h2c' \in ControlStreams /\ Gains(h2c, h2c', n, {"HELLO", "HELLO_OK"})
    BY <1>8, HelloAnswered
  <2>3. PICK s \in {"lock", "start"} : hpc' = [hpc EXCEPT ![n] = s]
    BY <1>8 DEF CompleteHello
  <2>. QED
    BY <1>8, <2>1, <2>2, <2>3, HandlerStream
    DEF CompleteHello, StreamInv, TypeOK, HostPlaces, HostWaiting
<1>9. CASE lockPairMu(n)
  <2>1. pairMu' \in 0 .. MaxDials  BY <1>9, SessionAssumption DEF lockPairMu, Attempts
  <2>3. h2c' \in ControlStreams /\ Gains(h2c, h2c', n, {})
    BY <1>9, NoGain DEF lockPairMu, StreamInv, TypeOK
  <2>. QED
    BY <1>9, <2>1, <2>3, HandlerStream
    DEF lockPairMu, StreamInv, TypeOK, HostPlaces, HostWaiting
<1>10. CASE runPairingBegin(n)
  <2>1. c2h' \in ControlStreams  BY <1>10, Taken DEF runPairingBegin, Received
  <2>2. h2c' \in ControlStreams /\ Gains(h2c, h2c', n, {"PAIR_CHALLENGE"})
    BY <1>10, Answered, KnownTypes DEF runPairingBegin
  <2>. QED
    BY <1>10, <2>1, <2>2, HandlerStream
    DEF runPairingBegin, StreamInv, TypeOK, HostPlaces, HostWaiting
<1>11. CASE runPairingConfirm(n)
  <2>1. c2h' \in ControlStreams  BY <1>11, Taken DEF runPairingConfirm, Received
  <2>2. h2c' \in ControlStreams /\ Gains(h2c, h2c', n, {"PAIR_RESULT"})
    BY <1>11, Answered, KnownTypes DEF runPairingConfirm
  <2>. QED
    BY <1>11, <2>1, <2>2, HandlerStream
    DEF runPairingConfirm, StreamInv, TypeOK, HostPlaces, HostWaiting
<1>12. CASE SavePeer(n)
  <2>1. /\ hrec' \in 0 .. MaxDials /\ hdisk' \in 0 .. MaxDials
        /\ pairMu' \in 0 .. MaxDials
    BY <1>12, SessionAssumption DEF SavePeer, Attempts
  <2>3. h2c' \in ControlStreams /\ Gains(h2c, h2c', n, {})
    BY <1>12, NoGain DEF SavePeer, StreamInv, TypeOK
  <2>. QED
    BY <1>12, <2>1, <2>3, HandlerStream
    DEF SavePeer, StreamInv, TypeOK, HostPlaces, HostWaiting
<1>13. CASE Trust(n)
  <2>1. h2c' \in ControlStreams /\ Gains(h2c, h2c', n, {})
    BY <1>13, NoGain DEF Trust, StreamInv, TypeOK
  <2>. QED
    BY <1>13, <2>1, HandlerStream DEF Trust, StreamInv, TypeOK, HostPlaces, HostWaiting
<1>14. CASE StartStream(n)
  <2>1. c2h' \in ControlStreams  BY <1>14, Taken DEF StartStream, Received
  <2>2. h2c' \in ControlStreams /\ Gains(h2c, h2c', n, {"STREAM_ACK"})
    BY <1>14, Answered, KnownTypes DEF StartStream
  <2>. QED
    BY <1>14, <2>1, <2>2, HandlerStream
    DEF StartStream, StreamInv, TypeOK, HostPlaces, HostWaiting
<1>15. CASE ServeLoop(n)
  <2>1. c2h' \in ControlStreams  BY <1>15, Taken DEF ServeLoop
  <2>2. hpc' = [hpc EXCEPT ![n] = hpc[n]]  BY <1>15 DEF ServeLoop, StreamInv, TypeOK
  <2>3. h2c' \in ControlStreams /\ Gains(h2c, h2c', n, {})
    BY <1>15, NoGain DEF ServeLoop, StreamInv, TypeOK
  <2>. QED
    BY <1>15, <2>1, <2>2, <2>3, HandlerStream
    DEF ServeLoop, StreamInv, TypeOK, HostPlaces, HostWaiting
<1>. QED
  BY <1>1, <1>2, <1>3, <1>4, <1>5, <1>6, <1>7, <1>8, <1>9, <1>10, <1>11, <1>12, <1>13, <1>14,
     <1>15
  DEF HostStep

(* Drop, ForgetPeer, ForgetPeerFails and HostRestart: what happens to the  *)
(* host from outside.                                                      *)
LEMMA OutsideStream ==
  ASSUME StreamInv,
         ForgetPeer \/ ForgetPeerFails \/ HostRestart \/ \E n \in Attempts : Drop(n)
  PROVE  StreamInv'
<1>. USE DEF StreamInv, clientVars, linkVars, hostVars
<1>0. MaxDials \in Nat \ {0} /\ Attempts = 1 .. MaxDials  BY SessionAssumption DEF Attempts
<1>1. /\ cpc' = cpc /\ cur' = cur /\ token' = token /\ crec' = crec
      /\ c2h' = c2h /\ h2c' = h2c
  BY DEF ForgetPeer, ForgetPeerFails, HostRestart, Drop
<1>2. up' \in [Attempts -> BOOLEAN] /\ \A n \in Attempts : up'[n] => up[n]
  BY DEF ForgetPeer, ForgetPeerFails, HostRestart, Drop, TypeOK
<1>3. CASE HostRestart
  <2>1. TypeOK'  BY <1>0, <1>1, <1>3 DEF HostRestart, TypeOK, HostPlaces
  <2>. QED
    BY <1>0, <1>1, <1>3, <2>1
    DEF HostRestart, TypeOK, Dialled, Fresh, AnswersServed, StreamAgreement
<1>4. CASE hpc' = hpc
  <2>1. hrec' \in 0 .. MaxDials /\ hdisk' \in 0 .. MaxDials /\ pairMu' \in 0 .. MaxDials
    BY <1>0 DEF ForgetPeer, ForgetPeerFails, HostRestart, Drop, TypeOK
  <2>2. TypeOK'  BY <1>1, <1>2, <1>4, <2>1 DEF TypeOK
  <2>3. cpc = "streaming" => cur \in Attempts  BY <1>0 DEF Dialled, TypeOK
  <2>. QED
    BY <1>1, <1>2, <1>4, <2>2, <2>3 DEF Dialled, Fresh, AnswersServed, StreamAgreement
<1>. QED  BY <1>3, <1>4 DEF ForgetPeer, ForgetPeerFails, Drop

(* The invariant holds before the first dial. *)
LEMMA InitStream == Init => StreamInv
<1>1. MaxDials \in Nat \ {0} /\ Attempts = 1 .. MaxDials  BY SessionAssumption DEF Attempts
<1>2. <<>> \in Seq(Message)  OBVIOUS
<1>. SUFFICES ASSUME Init PROVE StreamInv  OBVIOUS
<1>3. TypeOK
  BY <1>1, <1>2 DEF Init, TypeOK, ClientPlaces, HostPlaces, ControlStreams
<1>. QED
  BY <1>3 DEF Init, StreamInv, Dialled, Fresh, AnswersServed, StreamAgreement, Waiting

(* Every step keeps it. *)
LEMMA NextStream == StreamInv /\ [Next]_vars => StreamInv'
<1>. SUFFICES ASSUME StreamInv, [Next]_vars PROVE StreamInv'  OBVIOUS
<1>1. CASE Next  BY <1>1, UserStream, ClientStream, HostStream, OutsideStream DEF Next
<1>2. CASE UNCHANGED vars
  BY <1>2
  DEF vars, clientVars, linkVars, hostVars, StreamInv, TypeOK, Dialled, Fresh, AnswersServed,
      StreamAgreement
<1>. QED  BY <1>1, <1>2

(* A receiver that plays and whose connection lives is being served, over  *)
(* any number of attempts and whatever fails: an old handler's answers and *)
(* a closed connection's never count for the new attempt.                  *)
THEOREM PlayingIsServed == Spec => []StreamAgreement
BY InitStream, NextStream, PTL DEF Spec, StreamInv

-----------------------------------------------------------------------------
(* SecretAgreement *)

(* Handlers between begin and save hold pairMu, so there is one at most. *)
PairMuHeld == \A n \in Attempts : hpc[n] \in {"begin", "confirm", "save"} => pairMu = n

(* No code is confirmed before its handler has sent the challenge. *)
ConfirmAfterChallenge ==
  \A n \in Attempts : hpc[n] \in {"first", "hello", "lock", "begin"} =>
    ~Has(h2c[n], "PAIR_CHALLENGE") /\ ~Has(c2h[n], "PAIR_CONFIRM")

(* A handler that can still save a record. *)
CanSave(n) == \/ hpc[n] = "save"
              \/ hpc[n] = "confirm" /\ Has(c2h[n], "PAIR_CONFIRM")

(* Before it confirms, the receiver has neither confirmed nor a result. *)
ResultAfterConfirm ==
  cpc \in {"resume", "hello", "helloOk", "pin", "challenge"} =>
    ~Has(c2h[cur], "PAIR_CONFIRM") /\ ~Has(h2c[cur], "PAIR_RESULT")

(* The result a receiver waits for is that of the only pairing that can    *)
(* still be saved, or of the record the host has.                          *)
ResultIsLast ==
  cpc = "result" /\ Has(h2c[cur], "PAIR_RESULT") =>
    /\ hpc[cur] = "save" \/ hrec \in {0, cur}
    /\ \A n \in Attempts \ {cur} : ~CanSave(n)

(* A receiver pairs only without a record. *)
PairsAfresh == cpc \in {"pin", "challenge", "result"} => crec = 0

(* Once the receiver has a record, no other attempt's secret is saved. *)
NoOtherSave == crec # 0 => \A n \in Attempts \ {crec} : ~CanSave(n)

(* The inductive invariant behind SecretAgreement, with StreamInv. *)
PairInv ==
  /\ PairMuHeld /\ ConfirmAfterChallenge /\ ResultAfterConfirm /\ ResultIsLast
  /\ PairsAfresh /\ NoOtherSave /\ SecretAgreement

(* A handler that can save holds pairMu. *)
LEMMA SaverHoldsPairMu ==
  ASSUME PairMuHeld, NEW n \in Attempts, CanSave(n)
  PROVE  pairMu = n
BY DEF PairMuHeld, CanSave

(* A receiver's step that neither confirms a code nor takes a result. *)
LEMMA ClientPair ==
  ASSUME StreamInv, PairInv, cur' = cur, hpc' = hpc, hrec' = hrec, pairMu' = pairMu,
         NEW types, "PAIR_CONFIRM" \notin types,
         Gains(c2h, c2h', cur, types), Gains(h2c, h2c', cur, {}),
         crec' \in {crec, 0},
         cpc' \in {"resume", "hello", "helloOk", "pin", "challenge"} =>
           cpc \in {"resume", "hello", "helloOk", "pin", "challenge"} /\ cur \in Attempts,
         cpc' = "result" => cpc = "result" /\ cur \in Attempts,
         cpc' \in {"pin", "challenge", "result"} => crec' = 0
  PROVE  PairInv'
<1>. USE DEF PairInv
<1>1. \A n \in Attempts : /\ Has(h2c'[n], "PAIR_CHALLENGE") => Has(h2c[n], "PAIR_CHALLENGE")
                          /\ Has(h2c'[n], "PAIR_RESULT") => Has(h2c[n], "PAIR_RESULT")
                          /\ Has(c2h'[n], "PAIR_CONFIRM") => Has(c2h[n], "PAIR_CONFIRM")
  BY KnownTypes DEF Gains
<1>2. \A n \in Attempts : CanSave(n)' => CanSave(n)  BY <1>1 DEF CanSave
<1>3. PairMuHeld'  BY DEF PairMuHeld
<1>4. ConfirmAfterChallenge'  BY <1>1 DEF ConfirmAfterChallenge
<1>5. ResultAfterConfirm'  BY <1>1 DEF ResultAfterConfirm
<1>6. ResultIsLast'  BY <1>1, <1>2 DEF ResultIsLast
<1>7. PairsAfresh'  BY DEF PairsAfresh
<1>8. NoOtherSave'  BY <1>2 DEF NoOtherSave
<1>9. SecretAgreement'  BY DEF SecretAgreement
<1>. QED  BY <1>3, <1>4, <1>5, <1>6, <1>7, <1>8, <1>9

(* A handler's step that neither accepts a code nor saves a record. *)
LEMMA HandlerPair ==
  ASSUME StreamInv, PairInv, NEW n \in Attempts, NEW types,
         cpc' = cpc, cur' = cur, crec' = crec, hrec' = hrec,
         hpc[n] # "save", NEW s, s # "save", hpc' = [hpc EXCEPT ![n] = s],
         s = "confirm" => hpc[n] = "begin",
         s \in {"first", "hello", "lock", "begin"} =>
           hpc[n] \in {"first", "hello", "lock", "begin"} /\ "PAIR_CHALLENGE" \notin types,
         "PAIR_RESULT" \notin types,
         Gains(c2h, c2h', n, {}), Gains(h2c, h2c', n, types),
         s \in {"begin", "confirm"} => pairMu' = n,
         pairMu' = pairMu \/ pairMu \in {0, n}
  PROVE  PairInv'
<1>. USE DEF PairInv
<1>1. \A m \in Attempts : /\ Has(h2c'[m], "PAIR_RESULT") => Has(h2c[m], "PAIR_RESULT")
                          /\ Has(c2h'[m], "PAIR_CONFIRM") => Has(c2h[m], "PAIR_CONFIRM")
                          /\ Has(h2c'[m], "PAIR_CHALLENGE") =>
                               Has(h2c[m], "PAIR_CHALLENGE") \/ (m = n /\ "PAIR_CHALLENGE" \in types)
  BY KnownTypes DEF Gains
<1>2. hpc'[n] = s /\ \A m \in Attempts : m # n => hpc'[m] = hpc[m]
  BY DEF StreamInv, TypeOK
<1>3. \A m \in Attempts : CanSave(m)' => CanSave(m)
  BY <1>1, <1>2 DEF CanSave, ConfirmAfterChallenge
<1>4. PairMuHeld'
  BY <1>2, SessionAssumption DEF PairMuHeld, Attempts
<1>5. ConfirmAfterChallenge'  BY <1>1, <1>2 DEF ConfirmAfterChallenge
<1>6. cpc \in Waiting \cup {"pin"} => cur \in Attempts
  BY SessionAssumption DEF StreamInv, Dialled, TypeOK, Attempts
<1>7. ResultAfterConfirm'  BY <1>1, <1>6 DEF ResultAfterConfirm, Waiting
<1>8. ResultIsLast'  BY <1>1, <1>2, <1>3, <1>6 DEF ResultIsLast, Waiting
<1>9. PairsAfresh'  BY DEF PairsAfresh
<1>10. NoOtherSave'  BY <1>3 DEF NoOtherSave
<1>11. SecretAgreement'
  <2>1. crec # 0 => crec \in Attempts  BY SessionAssumption DEF StreamInv, TypeOK, Attempts
  <2>. QED  BY <1>2, <2>1 DEF SecretAgreement
<1>. QED  BY <1>4, <1>5, <1>7, <1>8, <1>9, <1>10, <1>11

(* Dial: nothing was sent on the new connection. *)
LEMMA DialPair == ASSUME StreamInv, PairInv, Dial PROVE PairInv'
<1>. USE DEF PairInv
<1>0. MaxDials \in Nat \ {0} /\ Attempts = 1 .. MaxDials  BY SessionAssumption DEF Attempts
<1>1. /\ cur' = cur + 1 /\ cur' \in Attempts /\ cpc' \in {"hello", "resume"}
      /\ h2c' = h2c /\ crec' = crec /\ hrec' = hrec /\ pairMu' = pairMu
      /\ hpc' = [hpc EXCEPT ![cur'] = "first"]
  BY <1>0 DEF Dial, StreamInv, TypeOK
<1>2. h2c[cur'] = <<>> /\ hpc[cur'] = "none"
  BY <1>0, <1>1 DEF StreamInv, Fresh, TypeOK
<1>3. ~Has(h2c'[cur'], "PAIR_CHALLENGE") /\ ~Has(h2c'[cur'], "PAIR_RESULT")
  BY <1>1, <1>2 DEF Has
<1>4. ~Has(c2h'[cur'], "PAIR_CONFIRM") /\ \A n \in Attempts \ {cur'} : c2h'[n] = c2h[n]
  <2>1. c2h'[cur'] = <<Msg("HELLO")>> \/ c2h'[cur'] = <<[type |-> "RESUME", arg |-> token]>>
    BY <1>1 DEF Dial, StreamInv, TypeOK, ControlStreams
  <2>2. ~Has(<<Msg("HELLO")>>, "PAIR_CONFIRM")
    BY DEF Has, Msg
  <2>3. ~Has(<<[type |-> "RESUME", arg |-> token]>>, "PAIR_CONFIRM")
    BY DEF Has
  <2>4. \A n \in Attempts \ {cur'} : c2h'[n] = c2h[n]
    BY <1>1 DEF Dial, StreamInv, TypeOK, ControlStreams
  <2>. QED  BY <2>1, <2>2, <2>3, <2>4
<1>5. hpc'[cur'] = "first" /\ \A n \in Attempts \ {cur'} : hpc'[n] = hpc[n]
  BY <1>1 DEF StreamInv, TypeOK
<1>6. \A n \in Attempts : CanSave(n)' => CanSave(n)  BY <1>4, <1>5 DEF CanSave
<1>7. PairMuHeld'  BY <1>1, <1>5 DEF PairMuHeld
<1>8. ConfirmAfterChallenge'  BY <1>1, <1>3, <1>4, <1>5 DEF ConfirmAfterChallenge
<1>9. ResultAfterConfirm'  BY <1>3, <1>4 DEF ResultAfterConfirm
<1>10. ResultIsLast' /\ PairsAfresh'  BY <1>1 DEF ResultIsLast, PairsAfresh
<1>11. NoOtherSave'  BY <1>1, <1>6 DEF NoOtherSave
<1>12. SecretAgreement'
  <2>1. crec # 0 => crec \in Attempts  BY <1>0 DEF StreamInv, TypeOK
  <2>. QED  BY <1>1, <1>2, <1>5, <2>1 DEF SecretAgreement
<1>. QED  BY <1>7, <1>8, <1>9, <1>10, <1>11, <1>12

(* The receiver confirms a code: its attempt, and no other, can now be     *)
(* saved.                                                                  *)
LEMMA ChallengePair == ASSUME StreamInv, PairInv, runPairingChallenge PROVE PairInv'
<1>. USE DEF PairInv
<1>1. /\ cpc = "challenge" /\ cpc' = "result" /\ cur' = cur /\ crec' = crec /\ hrec' = hrec
      /\ hpc' = hpc /\ pairMu' = pairMu /\ h2c' = Consume(h2c, cur)
      /\ h2c[cur] # <<>> /\ Head(h2c[cur]).type = "PAIR_CHALLENGE"
  BY DEF runPairingChallenge, hostVars, Received
<1>2. cur \in Attempts
  BY <1>1, SessionAssumption DEF Attempts, StreamInv, Dialled, TypeOK, Waiting
<1>3. /\ Gains(h2c, h2c', cur, {}) /\ Has(h2c[cur], "PAIR_CHALLENGE")
      /\ Gains(c2h, c2h', cur, {"PAIR_CONFIRM"})
  BY <1>1, <1>2, ConsumeGains, ConfirmSent DEF StreamInv, TypeOK
<1>4. \A n \in Attempts : /\ Has(h2c'[n], "PAIR_CHALLENGE") => Has(h2c[n], "PAIR_CHALLENGE")
                          /\ Has(h2c'[n], "PAIR_RESULT") => Has(h2c[n], "PAIR_RESULT")
                          /\ Has(c2h'[n], "PAIR_CONFIRM") => Has(c2h[n], "PAIR_CONFIRM") \/ n = cur
  BY <1>3, KnownTypes DEF Gains
<1>5. hpc[cur] \notin {"first", "hello", "lock", "begin"}
  BY <1>2, <1>3 DEF ConfirmAfterChallenge
<1>6. ~Has(h2c'[cur], "PAIR_RESULT")  BY <1>1, <1>2, <1>4 DEF ResultAfterConfirm
<1>7. PairMuHeld'  BY <1>1 DEF PairMuHeld
<1>8. ConfirmAfterChallenge'  BY <1>1, <1>4, <1>5 DEF ConfirmAfterChallenge
<1>9. ResultAfterConfirm' /\ ResultIsLast'
  BY <1>1, <1>6 DEF ResultAfterConfirm, ResultIsLast
<1>10. PairsAfresh' /\ NoOtherSave' /\ SecretAgreement'
  BY <1>1 DEF PairsAfresh, NoOtherSave, SecretAgreement
<1>. QED  BY <1>7, <1>8, <1>9, <1>10

(* The receiver takes the result and stores the secret. *)
LEMMA ResultPair == ASSUME StreamInv, PairInv, runPairingResult PROVE PairInv'
<1>. USE DEF PairInv
<1>1. /\ cpc = "result" /\ cpc' = "ack" /\ cur' = cur /\ crec' = cur /\ hrec' = hrec
      /\ hpc' = hpc /\ pairMu' = pairMu /\ h2c' = Consume(h2c, cur)
      /\ h2c[cur] # <<>> /\ Head(h2c[cur]).type = "PAIR_RESULT"
      /\ c2h' = send(c2h, cur, <<Msg("STREAM_START")>>)
  BY DEF runPairingResult, hostVars, Received
<1>2. cur \in Attempts
  BY <1>1, SessionAssumption DEF Attempts, StreamInv, Dialled, TypeOK, Waiting
<1>3. Gains(h2c, h2c', cur, {}) /\ Has(h2c[cur], "PAIR_RESULT")
  BY <1>1, <1>2, ConsumeGains DEF StreamInv, TypeOK
<1>4. Gains(c2h, c2h', cur, {"STREAM_START"})
  BY <1>1, <1>2, SendOne, KnownTypes DEF StreamInv, TypeOK
<1>5. \A n \in Attempts : /\ Has(h2c'[n], "PAIR_CHALLENGE") => Has(h2c[n], "PAIR_CHALLENGE")
                          /\ Has(c2h'[n], "PAIR_CONFIRM") => Has(c2h[n], "PAIR_CONFIRM")
  BY <1>3, <1>4, KnownTypes DEF Gains
<1>6. /\ hpc[cur] = "save" \/ hrec \in {0, cur}
      /\ \A n \in Attempts \ {cur} : ~CanSave(n)
  BY <1>1, <1>3 DEF ResultIsLast
<1>7. \A n \in Attempts : CanSave(n)' => CanSave(n)  BY <1>1, <1>5 DEF CanSave
<1>8. PairMuHeld' /\ ConfirmAfterChallenge'  BY <1>1, <1>5 DEF PairMuHeld, ConfirmAfterChallenge
<1>9. ResultAfterConfirm' /\ ResultIsLast' /\ PairsAfresh'
  BY <1>1 DEF ResultAfterConfirm, ResultIsLast, PairsAfresh
<1>10. NoOtherSave'  BY <1>1, <1>6, <1>7 DEF NoOtherSave
<1>11. SecretAgreement'  BY <1>1, <1>6 DEF SecretAgreement
<1>. QED  BY <1>8, <1>9, <1>10, <1>11

(* The receiver's steps. *)
LEMMA ClientStepPair == ASSUME StreamInv, PairInv, ClientStep PROVE PairInv'
<1>. USE DEF linkVars, hostVars
<1>0. /\ c2h \in ControlStreams /\ h2c \in ControlStreams
      /\ cpc \in Waiting \cup {"stuck", "pin"} => cur \in Attempts
  BY SessionAssumption DEF StreamInv, Dialled, TypeOK, Attempts
<1>. DEFINE Kept == /\ cur' = cur /\ hpc' = hpc /\ hrec' = hrec /\ pairMu' = pairMu
                    /\ crec' = crec
<1>1. CASE Dial \/ runPairingChallenge \/ runPairingResult
  BY <1>1, DialPair, ChallengePair, ResultPair
<1>2. CASE tryResumeOK \/ RequestStream
  <2>1. cur \in Attempts /\ Kept /\ cpc' = "streaming"
    BY <1>2, <1>0 DEF tryResumeOK, RequestStream, Waiting
  <2>2. Gains(c2h, c2h', cur, {}) /\ Gains(h2c, h2c', cur, {})
    BY <1>2, <1>0, <2>1, NoGain, ConsumeGains DEF tryResumeOK, RequestStream, Received
  <2>. QED  BY <2>1, <2>2, ClientPair
<1>3. CASE tryResumeTimeout
  <2>1. cur \in Attempts /\ Kept /\ cpc = "resume" /\ cpc' = "hello" /\ h2c' = h2c
    BY <1>3, <1>0 DEF tryResumeTimeout, Waiting
  <2>2. Gains(c2h, c2h', cur, {"HELLO"}) /\ Gains(h2c, h2c', cur, {})
    BY <1>3, <1>0, <2>1, SendOne, KnownTypes, NoGain DEF tryResumeTimeout, StreamInv
  <2>. QED  BY <2>1, <2>2, ClientPair
<1>4. CASE OrphanRead \/ ExchangeHellosHello
  <2>1. /\ cur \in Attempts /\ Kept /\ cpc = "hello" /\ cpc' \in {"hello", "stuck", "helloOk"}
        /\ c2h' = c2h
    BY <1>4, <1>0 DEF OrphanRead, ExchangeHellosHello, Waiting
  <2>2. Gains(c2h, c2h', cur, {}) /\ Gains(h2c, h2c', cur, {})
    BY <1>4, <1>0, <2>1, NoGain, ConsumeGains DEF OrphanRead, ExchangeHellosHello, Received
  <2>. QED  BY <2>1, <2>2, ClientPair
<1>5. CASE ExchangeHellosOK
  <2>1. /\ cur \in Attempts /\ Kept /\ cpc = "helloOk"
        /\ cpc' \in {"pin", "ack"} /\ (cpc' = "pin" => crec = 0)
    BY <1>5, <1>0 DEF ExchangeHellosOK, Waiting
  <2>2. Gains(h2c, h2c', cur, {})
    BY <1>5, <1>0, <2>1, ConsumeGains DEF ExchangeHellosOK, Received
  <2>3. PICK t \in {"PAIR_BEGIN", "STREAM_START"} : c2h' = send(c2h, cur, <<Msg(t)>>)
    BY <1>5 DEF ExchangeHellosOK
  <2>4. Gains(c2h, c2h', cur, {t})
    BY <1>0, <2>1, <2>3, SendOne, KnownTypes DEF StreamInv
  <2>. QED  BY <2>1, <2>2, <2>3, <2>4, ClientPair
<1>6. CASE EnterPIN
  <2>1. cur \in Attempts /\ Kept /\ cpc = "pin" /\ cpc' = "challenge" /\ c2h' = c2h /\ h2c' = h2c
    BY <1>6, <1>0 DEF EnterPIN
  <2>2. Gains(c2h, c2h', cur, {}) /\ Gains(h2c, h2c', cur, {})  BY <2>1, NoGain
  <2>. QED  BY <2>1, <2>2, ClientPair DEF PairInv, PairsAfresh
<1>7. CASE \/ UnexpectedMessage \/ HandshakeError \/ mediaLoopError \/ Backoff \/ PINAfterStop
  <2>1. Kept /\ cpc' \in {"backoff", "draining", "dial", "idle"} /\ c2h' = c2h /\ h2c' = h2c
    BY <1>7
    DEF UnexpectedMessage, HandshakeError, RunOnceFails, mediaLoopError, Backoff, PINAfterStop
  <2>2. Gains(c2h, c2h', cur, {}) /\ Gains(h2c, h2c', cur, {})  BY <2>1, NoGain
  <2>. QED  BY <2>1, <2>2, ClientPair
<1>. QED  BY <1>1, <1>2, <1>3, <1>4, <1>5, <1>6, <1>7 DEF ClientStep

(* The user's steps. *)
LEMMA UserPair ==
  ASSUME StreamInv, PairInv, Connect \/ Stop \/ ForgetHost \/ SendControl
  PROVE  PairInv'
<1>. USE DEF clientVars, linkVars, hostVars
<1>1. CASE Connect \/ Stop
  <2>1. /\ cur' = cur /\ hpc' = hpc /\ hrec' = hrec /\ pairMu' = pairMu /\ crec' = crec
        /\ cpc' \in {"dial", "idle", "pinStopped"} /\ c2h' = c2h /\ h2c' = h2c
    BY <1>1 DEF Connect, Stop
  <2>2. Gains(c2h, c2h', cur, {}) /\ Gains(h2c, h2c', cur, {})  BY <2>1, NoGain
  <2>. QED  BY <2>1, <2>2, ClientPair
<1>2. CASE ForgetHost
  <2>1. /\ cur' = cur /\ hpc' = hpc /\ hrec' = hrec /\ pairMu' = pairMu /\ crec' = 0
        /\ cpc' = cpc /\ c2h' = c2h /\ h2c' = h2c
    BY <1>2 DEF ForgetHost
  <2>2. Gains(c2h, c2h', cur, {}) /\ Gains(h2c, h2c', cur, {})  BY <2>1, NoGain
  <2>3. cpc \in Waiting \cup {"pin"} => cur \in Attempts
    BY SessionAssumption DEF StreamInv, Dialled, TypeOK, Attempts
  <2>. QED  BY <2>1, <2>2, <2>3, ClientPair DEF Waiting
<1>3. CASE SendControl
  <2>1. /\ cur' = cur /\ hpc' = hpc /\ hrec' = hrec /\ pairMu' = pairMu /\ crec' = crec
        /\ cpc' = cpc /\ c2h' = send(c2h, cur, <<Msg("CONTROL")>>) /\ h2c' = h2c
    BY <1>3 DEF SendControl
  <2>2. cur \in Attempts
    BY <1>3, SessionAssumption DEF SendControl, StreamInv, Dialled, TypeOK, Attempts
  <2>3. Gains(c2h, c2h', cur, {"CONTROL"}) /\ Gains(h2c, h2c', cur, {})
    BY <2>1, <2>2, NoGain, SendOne, KnownTypes DEF StreamInv, TypeOK
  <2>. QED  BY <2>1, <2>2, <2>3, ClientPair DEF PairInv, PairsAfresh
<1>. QED  BY <1>1, <1>2, <1>3

(* The handler accepts the code: it holds pairMu, so no other can save.    *)
LEMMA ConfirmPair ==
  ASSUME StreamInv, PairInv, NEW n \in Attempts, runPairingConfirm(n)
  PROVE  PairInv'
<1>. USE DEF PairInv
<1>1. /\ cpc' = cpc /\ cur' = cur /\ crec' = crec /\ hrec' = hrec /\ pairMu' = pairMu
      /\ hpc[n] = "confirm" /\ c2h[n] # <<>> /\ Head(c2h[n]).type = "PAIR_CONFIRM"
      /\ c2h' = Consume(c2h, n) /\ h2c' = send(h2c, n, <<Msg("PAIR_RESULT")>>)
      /\ hpc' = [hpc EXCEPT ![n] = "save"]
  BY DEF runPairingConfirm, clientVars, Received
<1>2. /\ Gains(c2h, c2h', n, {}) /\ Has(c2h[n], "PAIR_CONFIRM")
      /\ Gains(h2c, h2c', n, {"PAIR_RESULT"})
  BY <1>1, ConsumeGains, SendOne, KnownTypes DEF StreamInv, TypeOK
<1>3. \A m \in Attempts : /\ Has(h2c'[m], "PAIR_CHALLENGE") => Has(h2c[m], "PAIR_CHALLENGE")
                          /\ Has(h2c'[m], "PAIR_RESULT") => Has(h2c[m], "PAIR_RESULT") \/ m = n
                          /\ Has(c2h'[m], "PAIR_CONFIRM") => Has(c2h[m], "PAIR_CONFIRM")
  BY <1>2, KnownTypes DEF Gains
<1>4. hpc'[n] = "save" /\ \A m \in Attempts \ {n} : hpc'[m] = hpc[m]
  BY <1>1 DEF StreamInv, TypeOK
<1>5. CanSave(n)  BY <1>1, <1>2 DEF CanSave
<1>6. \A m \in Attempts \ {n} : ~CanSave(m)  BY <1>5, SaverHoldsPairMu
<1>7. \A m \in Attempts \ {n} : ~CanSave(m)'  BY <1>3, <1>4, <1>6 DEF CanSave
<1>8. /\ cpc \in Waiting \cup {"pin"} => cur \in Attempts
      /\ crec # 0 => crec \in Attempts
  BY SessionAssumption DEF StreamInv, Dialled, TypeOK, Attempts
<1>9. PairMuHeld'  BY <1>1, <1>4 DEF PairMuHeld
<1>10. ConfirmAfterChallenge'  BY <1>3, <1>4 DEF ConfirmAfterChallenge
<1>11. ResultAfterConfirm'  BY <1>1, <1>2, <1>3, <1>8 DEF ResultAfterConfirm, Waiting
<1>12. ResultIsLast'
  <2>1. CASE cur = n  BY <1>1, <1>4, <1>7, <2>1 DEF ResultIsLast
  <2>2. CASE cur # n  BY <1>1, <1>3, <1>5, <1>8, <2>2 DEF ResultIsLast, Waiting
  <2>. QED  BY <2>1, <2>2
<1>13. PairsAfresh'  BY <1>1 DEF PairsAfresh
<1>14. NoOtherSave'  BY <1>1, <1>5, <1>7 DEF NoOtherSave
<1>15. SecretAgreement'  BY <1>1, <1>4, <1>8 DEF SecretAgreement
<1>. QED  BY <1>9, <1>10, <1>11, <1>12, <1>13, <1>14, <1>15

(* SavePeer, whether or not it can write the file: the record is that of   *)
(* the one attempt that could still be saved.                              *)
LEMMA SavePair ==
  ASSUME StreamInv, PairInv, NEW n \in Attempts, SavePeer(n) \/ SavePeerFails(n)
  PROVE  PairInv'
<1>. USE DEF PairInv
<1>1. /\ cpc' = cpc /\ cur' = cur /\ crec' = crec /\ hrec' = n /\ hpc[n] = "save"
      /\ c2h' = c2h /\ h2c' = h2c
  BY DEF SavePeer, SavePeerFails, Return, clientVars, linkVars
<1>2. PICK s \in {"trust", "none"} : hpc' = [hpc EXCEPT ![n] = s]
  BY DEF SavePeer, SavePeerFails, Return
<1>3. hpc'[n] = s /\ \A m \in Attempts \ {n} : hpc'[m] = hpc[m]
  BY <1>2 DEF StreamInv, TypeOK
<1>4. CanSave(n) /\ pairMu = n  BY <1>1 DEF CanSave, PairMuHeld
<1>5. \A m \in Attempts : ~CanSave(m)'
  <2>1. \A m \in Attempts \ {n} : ~CanSave(m)  BY <1>4, SaverHoldsPairMu
  <2>. QED  BY <1>1, <1>3, <2>1 DEF CanSave
<1>6. /\ cpc \in Waiting \cup {"pin"} => cur \in Attempts
      /\ crec # 0 => crec \in Attempts
  BY SessionAssumption DEF StreamInv, Dialled, TypeOK, Attempts
<1>7. PairMuHeld'  BY <1>3, <1>4 DEF PairMuHeld
<1>8. ConfirmAfterChallenge'  BY <1>1, <1>3 DEF ConfirmAfterChallenge
<1>9. ResultAfterConfirm' /\ PairsAfresh'  BY <1>1 DEF ResultAfterConfirm, PairsAfresh
<1>10. ResultIsLast'
  BY <1>1, <1>4, <1>5, <1>6 DEF ResultIsLast, Waiting
<1>11. NoOtherSave'  BY <1>5, <1>6, <1>1 DEF NoOtherSave
<1>12. SecretAgreement'
  BY <1>1, <1>4, <1>6 DEF SecretAgreement, NoOtherSave
<1>. QED  BY <1>7, <1>8, <1>9, <1>10, <1>11, <1>12

(* A handler that returns. *)
LEMMA ReturnPair ==
  ASSUME StreamInv, PairInv, NEW n \in Attempts, hpc[n] # "save", Return(n),
         cpc' = cpc, cur' = cur, crec' = crec, hrec' = hrec, Gains(c2h, c2h', n, {})
  PROVE  PairInv'
<1>1. Gains(h2c, h2c', n, {})  BY NoGain DEF Return
<1>2. hpc' = [hpc EXCEPT ![n] = "none"] /\ (pairMu' = pairMu \/ pairMu \in {0, n})
  BY DEF Return
<1>. QED  BY <1>1, <1>2, HandlerPair

(* The steps of a handler. *)
LEMMA HostStepPair ==
  ASSUME StreamInv, PairInv, NEW n \in Attempts, HostStep(n)
  PROVE  PairInv'
<1>. USE DEF clientVars, linkVars, hostVars
<1>. DEFINE Kept == cpc' = cpc /\ cur' = cur /\ crec' = crec /\ hrec' = hrec
<1>1. CASE runPairingConfirm(n) \/ SavePeer(n) \/ SavePeerFails(n)
  BY <1>1, ConfirmPair, SavePair
<1>2. CASE ConnectionGone(n) \/ PairingTimeout(n)
  <2>1. Kept /\ hpc[n] # "save" /\ Return(n) /\ c2h' = c2h
    BY <1>2 DEF ConnectionGone, PairingTimeout, HostWaiting
  <2>2. Gains(c2h, c2h', n, {})  BY <2>1, NoGain
  <2>. QED  BY <2>1, <2>2, ReturnPair
<1>3. CASE HandshakeRefused(n) \/ PinMismatch(n) \/ StartStreamFails(n)
  <2>1. Kept /\ hpc[n] # "save" /\ Return(n) /\ c2h[n] # <<>> /\ c2h' = Consume(c2h, n)
    BY <1>3 DEF HandshakeRefused, PinMismatch, StartStreamFails, Received, Unexpected
  <2>. QED  BY <2>1, Taken, ReturnPair
<1>4. CASE tryResume(n)
  <2>1. /\ Kept /\ hpc[n] = "first" /\ c2h[n] # <<>> /\ c2h' = Consume(c2h, n)
        /\ pairMu' = pairMu
    BY <1>4 DEF tryResume, Received
  <2>2. PICK s \in {"hello", "serveResumed"} : hpc' = [hpc EXCEPT ![n] = s]
    BY <1>4 DEF tryResume
  <2>3. Gains(h2c, h2c', n, {"RESUME_OK"})
    BY <1>4, Answered, NoGain, KnownTypes DEF tryResume
  <2>. QED  BY <2>1, <2>2, <2>3, Taken, HandlerPair
<1>5. CASE CompleteHello(n)
  <2>1. /\ Kept /\ hpc[n] \in {"first", "hello"} /\ c2h[n] # <<>> /\ c2h' = Consume(c2h, n)
        /\ pairMu' = pairMu
    BY <1>5 DEF CompleteHello, Received
  <2>2. PICK s \in {"lock", "start"} : hpc' = [hpc EXCEPT ![n] = s]
    BY <1>5 DEF CompleteHello
  <2>3. Gains(h2c, h2c', n, {"HELLO", "HELLO_OK"})  BY <1>5, HelloAnswered
  <2>. QED  BY <2>1, <2>2, <2>3, Taken, HandlerPair
<1>6. CASE lockPairMu(n)
  <2>1. /\ Kept /\ hpc[n] = "lock" /\ hpc' = [hpc EXCEPT ![n] = "begin"]
        /\ pairMu = 0 /\ pairMu' = n /\ c2h' = c2h /\ h2c' = h2c
    BY <1>6 DEF lockPairMu
  <2>2. Gains(c2h, c2h', n, {}) /\ Gains(h2c, h2c', n, {})  BY <2>1, NoGain
  <2>. QED  BY <2>1, <2>2, HandlerPair
<1>7. CASE runPairingBegin(n)
  <2>1. /\ Kept /\ hpc[n] = "begin" /\ hpc' = [hpc EXCEPT ![n] = "confirm"]
        /\ c2h[n] # <<>> /\ c2h' = Consume(c2h, n) /\ pairMu' = pairMu
    BY <1>7 DEF runPairingBegin, Received
  <2>2. Gains(h2c, h2c', n, {"PAIR_CHALLENGE"})
    BY <1>7, Answered, KnownTypes DEF runPairingBegin
  <2>3. pairMu' = n  BY <2>1 DEF PairInv, PairMuHeld
  <2>. QED  BY <2>1, <2>2, <2>3, Taken, HandlerPair
<1>8. CASE Trust(n)
  <2>1. /\ Kept /\ hpc[n] = "trust" /\ hpc' = [hpc EXCEPT ![n] = "start"]
        /\ pairMu' = pairMu /\ c2h' = c2h /\ h2c' = h2c
    BY <1>8 DEF Trust
  <2>2. Gains(c2h, c2h', n, {}) /\ Gains(h2c, h2c', n, {})  BY <2>1, NoGain
  <2>. QED  BY <2>1, <2>2, HandlerPair
<1>9. CASE StartStream(n)
  <2>1. /\ Kept /\ hpc[n] = "start" /\ hpc' = [hpc EXCEPT ![n] = "serve"]
        /\ c2h[n] # <<>> /\ c2h' = Consume(c2h, n) /\ pairMu' = pairMu
    BY <1>9 DEF StartStream, Received
  <2>2. Gains(h2c, h2c', n, {"STREAM_ACK"})  BY <1>9, Answered, KnownTypes DEF StartStream
  <2>. QED  BY <2>1, <2>2, Taken, HandlerPair
<1>10. CASE ServeLoop(n)
  <2>1. /\ Kept /\ hpc[n] \in {"serve", "serveResumed"} /\ hpc' = [hpc EXCEPT ![n] = hpc[n]]
        /\ c2h[n] # <<>> /\ c2h' = Consume(c2h, n) /\ pairMu' = pairMu /\ h2c' = h2c
    BY <1>10 DEF ServeLoop, StreamInv, TypeOK
  <2>2. Gains(h2c, h2c', n, {})  BY <2>1, NoGain
  <2>. QED  BY <2>1, <2>2, Taken, HandlerPair
<1>. QED
  BY <1>1, <1>2, <1>3, <1>4, <1>5, <1>6, <1>7, <1>8, <1>9, <1>10 DEF HostStep

(* A broken connection and a forgotten receiver. *)
LEMMA OutsidePair ==
  ASSUME StreamInv, PairInv, ForgetPeer \/ ForgetPeerFails \/ \E n \in Attempts : Drop(n)
  PROVE  PairInv'
<1>1. /\ cpc' = cpc /\ cur' = cur /\ crec' = crec /\ hrec' \in {hrec, 0}
      /\ hpc' = hpc /\ pairMu' = pairMu /\ c2h' = c2h /\ h2c' = h2c
  BY DEF ForgetPeer, ForgetPeerFails, Drop, clientVars, linkVars, hostVars
<1>. QED
  BY <1>1
  DEF PairInv, PairMuHeld, ConfirmAfterChallenge, ResultAfterConfirm, ResultIsLast, CanSave,
      PairsAfresh, NoOtherSave, SecretAgreement

(* The invariant holds before the first dial. *)
LEMMA InitPair == Init => PairInv
BY DEF Init, PairInv, PairMuHeld, ConfirmAfterChallenge, ResultAfterConfirm, ResultIsLast,
       PairsAfresh, NoOtherSave, SecretAgreement

(* Every step of a host process that does not end keeps it. *)
LEMMA NextPair ==
  ASSUME "restart" \notin Faults
  PROVE  StreamInv /\ PairInv /\ [Next]_vars => PairInv'
<1>. SUFFICES ASSUME StreamInv, PairInv, [Next]_vars PROVE PairInv'  OBVIOUS
<1>1. CASE Next
  BY <1>1, UserPair, ClientStepPair, HostStepPair, OutsidePair DEF Next, HostRestart
<1>2. CASE UNCHANGED vars
  BY <1>2
  DEF vars, clientVars, linkVars, hostVars, PairInv, PairMuHeld, ConfirmAfterChallenge,
      ResultAfterConfirm, ResultIsLast, CanSave, PairsAfresh, NoOtherSave, SecretAgreement
<1>. QED  BY <1>1, <1>2

(* While the host process runs, the two stores never hold the secrets of   *)
(* different pairings: through results that are lost, pairings that        *)
(* overlap, wrong codes, stores that cannot be written and devices         *)
(* forgotten on either side (runPairing on both sides, pairMu).            *)
THEOREM StoresAgree ==
  ASSUME "restart" \notin Faults
  PROVE  Spec => []SecretAgreement
<1>1. Init => StreamInv /\ PairInv  BY InitStream, InitPair
<1>2. StreamInv /\ PairInv /\ [Next]_vars => StreamInv' /\ PairInv'  BY NextStream, NextPair
<1>3. PairInv => SecretAgreement  BY DEF PairInv
<1>. QED  BY <1>1, <1>2, <1>3, PTL DEF Spec
=============================================================================
