# Remote AU: specifications, checks and proofs

Remote AU streams the audio of a Windows PC (the *host*, or sender) to phones
and other machines (the *receivers*) over QUIC (protocol v2) or plain TCP/UDP
(protocol v1), on the local network or through a relay. This directory models
its control plane, its media paths, its buffers, its stores and its phone
receiver in TLA+, checks them with TLC and proves the safety properties that are
checked, all but one, with TLAPS. Paths are relative to `src/`; a bare Go file name is a file of
`engine/internal/`, a bare Swift file name one of `ios/RemoteAU/Engine/`.

## 1. Inventory

| Part | State | Operations | Interacts with |
|---|---|---|---|
| v2 client media (`media.go`) | `seen`, `nextSeq`, `future`, `lastFlush`, counters | `accept`, `tick`, `flush`, `emit`, `emitFEC` | `mediaLoop` (datagrams) and `flushLoop` (2 ms ticker) under `mediaM`; the counters go to the host's codec decisions |
| v2 client (`client.go`) | session, resume token, media, stop flag | `Run`, `runOnce`, `tryResume`, `runPairing`, `mediaLoop`, `utilityLoop`, `Stop` | session layer, pairing store, user (PIN) |
| v2 session (`session.go`) | control stream, peer identity, token | `send`, `recv`, `ExchangeHellos`, `RequestStream`, `StartStream`, `ServeLoop` | both engines; a reader goroutine per `recv` |
| v2 host (`host.go`) | `trusted`, `conns`, `resumeStates`, `pairMu` | `handleConnInner`, `tryResume`, `runPairing`, `startStreamFor`, `ForgetPeer` | a handler goroutine per connection, all sharing one `Host` |
| Host capture (`host.go`, `qualitymode.go`) | `h.opts`, `h.capture` | `SetSourceDevice`, `SetCaptureSource`, `SetCaptureApps`, `applySetSource`, `ensureCapture`, `readCapture`, `monitorDefaultEndpoint` | send loops, receivers, tray, endpoint monitor |
| Quality (`adaptive.go`, `host.go`) | controller, preset, encoder, format generation, dwell | `Update`, `applyQuality`, `switchCodec`, `SetQuality` | STATS of the receiver, `sendLoop` |
| Pairing exchange (`exchange.go`) | keys, transcript, code | `BeginMessage` … `OnResult` | both `runPairing`s, the screen |
| Trust stores (`mobile/store.go`, `RemoteAUCore.swift`) | file, Keychain, memory | `SavePeer`, `RemovePeer`, two migrations | app launches, kills, a locked Keychain |
| Relay (`relay.go`) | waiting hosts, splices | register, pair, four copies, teardown | host and phone legs |
| v1 transport (`sender.go`, `receiver.go`) | sequence numbers, sources, trackers, handlers | attempts, hellos, packets; accept, register, idle, shutdown | mixer |
| Mixer, jitter buffer (`mixer/`) | stream list; ring, `primed`, counters | `AddStream`, `RemoveStream`; `Write`, `Read` | v1 receiver goroutines, device callback |
| Audio ring (`ring.go`) | byte ring with a quantum | `TryWrite`, `Read` | capture callback, send loop |
| Wire formats (`protocol/`, `discovery/discovery.go`) | | `Append*`/`Decode*`, `WriteMessage`/`ReadMessage`, `WriteFrame`/`ReadFrame`, `Encode*`/`Decode` | every component that sends or receives |
| Discovery (`finder.go`, `responder.go`, `host.go`) | instances, rate limiter | `FindPorts`, `Allow`, both responders | UDP broadcast |
| Phone receiver (`ReceiverModel.swift`) | sender binding, main queue, state | `start`, `stop`, `disconnect`, `runAudio`, watchdog, housekeeping | audio thread, main thread, timer |
| Phone buffers (`ReorderBuffer.swift`, `PCMRing.swift`, `AdaptiveJitterPolicy.swift`, `SessionRecorder.swift`) | window, ring, target, queue of chunks | `accept`, `tick`; `write`, drain; `update`; `append`, `drain`, `stop` | v1 sender, audio unit, file |

`PROJECT.json` lists all parts, with those that are left out and the reasons.

### What is hard here

* **Concurrency.** Handlers of an old and a new connection of the same device
  share `trusted`, `conns`, `resumeStates` and `pairMu`; `recv` leaves a reader
  goroutine behind when its context expires; four kinds of actors take and
  reopen one capture; the v1 receiver shuts down while connections arrive; on
  the phone three threads share the sender binding and post to a fourth.
* **Failure.** Connections break, the host ends between two steps of a pairing,
  a record cannot be written, a code is wrong, the app is killed or the Keychain
  locks between any two calls of a migration, a file is cut short.
* **Ordering.** Datagrams are lost, repeated and reordered and their number
  wraps; the answer to RESUME may come after its timeout; presets change
  between a decision and its application, or between two calls of one pass; work
  is put on a queue after the lock it was decided under has been given up.
* **Limits.** Windows, rings and queues that fill, an instance cap, a rate
  limiter with integer division, a stream limit and handshake slots.

`PROJECT.json` lists each hazard at its line with the properties that would
catch it.

## 2. Modules

| Module | Models | Role |
|---|---|---|
| `ClientMedia` | `media.go`, with the network and the ticker | component |
| `Session` | `client.go`, `host.go`, `session.go`, `mobile.go` | composition of receiver, host and session layer |
| `PairingExchange` | `exchange.go` under both `runPairing`s | component, two phones and a host |
| `TrustStore` | `mobile/store.go`, `mobile.go` (Setup), `RemoteAUCore.swift` | component with crashes |
| `Discovery` | `finder.go`, `responder.go`, `host.go` (runDiscoveryV2) | finder and responders composed |
| `HostCapture` | `host.go`, `qualitymode.go`, tray `settings.go` | component, all who share the capture |
| `HostStream` | `host.go`, `adaptive.go` | quality controller, encoder and send loop composed |
| `Relay` | `relay.go` with the dials of `host.go` and `client.go` | composition of relay, host and phones |
| `V1Receiver` | `receiver.go`, `mixer.go` (stream list) | lifecycle of the goroutines |
| `V1Stream` | `sender.go`, `receiver.go` (tracking) | sender, network and receiver composed |
| `Wire` | `protocol/v2/control.go`, `protocol/v2/media.go`, `protocol/`, `discovery/` | writers, readers and the bytes between them |
| `PlayoutQueue` | | abstract specification: a drop-oldest queue |
| `JitterBuffer` | `jitterbuffer.go` | component, implements `PlayoutQueue` |
| `AudioRing` | `ring.go` | component |
| `PCMRing` | `PCMRing.swift` | component |
| `PhoneReceiver` | `ReceiverModel.swift` | threads, senders and user composed |
| `PhoneReorder` | `ReorderBuffer.swift` behind `sender.go` | buffer, network and sender composed |
| `PhonePolicy` | `AdaptiveJitterPolicy.swift` | component |
| `PhoneRecorder` | `SessionRecorder.swift` | component |
| `ModArithmetic` | | lemmas about `%` and `\div` |
| `ClientMediaProofs`, `JitterBufferProofs`, `SessionProofs` | | theorems about the module of that name |
| `HostCaptureProofs` | | theorems about `HostCapture` and `AudioRing` |
| `V1Proofs` | | theorems about `V1Receiver` and `V1Stream` |
| `ConnectProofs` | | theorems about `Relay`, `Discovery`, `TrustStore` and `PairingExchange` |
| `PhoneProofs` | | theorems about `PhoneReceiver`, `PhonePolicy`, `PhoneReorder`, `PCMRing` and `PhoneRecorder` |
| `MCSession`, `MCPairing`, `MCHost`, `MCPhone`, `MCNetwork` | | the modules TLC is started on |

`MCPairing`, `MCHost`, `MCPhone` and `MCNetwork` extend several components that belong
together; the two they instantiate, `HostStream` and `Wire`, have their properties
named again in the MC module. A variable `which`, chosen in the initial state,
says which of them a behaviour is about; the others keep their initial state.
The state spaces add up and each component is checked in full, as if alone.

### ClientMedia

A frame is named by its position in the host's stream and carries that position
modulo `SeqMod` (2^32 in the code) on the wire. `nextSeq`, `future` and the counters
are the fields of `clientMedia`; `sinceFlush` is the age of `lastFlush` in ticker
periods; `nextPos`, `played`, `concealed`, `accepted` and `gapAge` are history. `mediaM` is
held for a whole `accept` or `tick`, so each is one action: `accept` has one
disjunct per branch of its switch, and every branch includes the `flush` it ends
with. `flush` is given by what its loop covers: the held run from `nextSeq` on, or,
when forced, everything up to the last held frame, with concealment in between.
`emitFEC` may succeed or fail wherever the code tries it.

Abstracted: the codec always decodes; DTX silence, which no sender requests, is
left out; so are the averages derived from the counters. The network loses and
reorders but does not duplicate, as QUIC sees to. `SendMedia` keeps the spread
of what is in flight or not yet covered below half the sequence space, which at
5 ms a frame is four months of audio.

### Session

One receiver and one host. Attempts are numbered; the connection, the token of
its HELLO_OK and the secret of its pairing are named by the attempt's number.
`cpc` is the receiver's position in `runOnce` and the functions it calls, `hpc[n]` the
position of the handler of attempt `n`; an action runs from one receive to the
next and includes every send, store and registration in between. `crec` and
`hrec` are the records of the two stores, `hdisk` what the host's file holds.
`Faults` selects the environment events of a run: `drop` (a connection breaks),
`restart` (the host process ends and starts again), `forget` (on either side),
`badPin`, `slow` (a RESUME answered after the timeout), `saveFail` (a store cannot
write its file), `stop` (the app stops the client), `control` (SetQualityMode or
SetSource at any time), `noCapture` (the stream's producer fails).

Abstracted: an exchange with the right code yields a secret only its two sides
know (`PairingExchange` has the messages); `selectProfile` finds a profile; a message
sent on a closed connection is lost, and a handler may still read what was
queued before it notices. The reader goroutine that outlives `tryResume`'s timeout
shares a `bufio.Reader` with its successor without a lock: `OrphanRead` gives the
outcomes in which the orphan, first on the stream, takes the next message.

### PairingExchange, TrustStore, Discovery

`PairingExchange` follows the transcript of each side message by message. The
cryptography is symbolic: a key is named by its owner and attempt, an ECDH point
is the set of its two keys, a hash, HKDF output or MAC the tuple of its inputs.
Two phones meet one host that serves one pairing at a time and shows one code; a
user types what is on the screen at that moment, or mistypes it.

`TrustStore` has the legacy file, the Keychain and the memory of the running app.
Every Keychain call is an action of its own, the reads by which the two
migrations (Swift's, then Go's) and the store's loading decide as well as the
writes that follow them. `Kill` and `LockChanges` may come between any two; while the
Keychain is `locked`, or fails for any other reason, reads return nothing and
writes fail. `os.WriteFile` truncates before it writes: `save` leaves the file `Torn`,
and `Saved` ends it with all that was to be written or with an error. `misread` keeps
which items a read of this launch did not see though they were there, `clobbered`
that the Keychain was written after such a read; both are history.

What the model made visible: a file cut short decodes in neither migration, so
Go's fails and setup with it, at this and at every later launch.

`Discovery` has one finder, a v1 receiver with its rate limiter and a v2 host. A
host that does not know its own address announces the querier's, as
`runDiscoveryV2` does. The peers' clocks are one; time is counted in units of which
`Interval`, `Timeout` and `Resend` are multiples.

### HostCapture and HostStream

In `HostCapture` a request of a receiver or of the tray is the list of calls its
handler makes; the locked part of each call, the `Close` after unlocking and the
`ensureCapture` that ends a request are separate actions, so that any two requests, the
endpoint monitor and the send loops' own `ensureCapture` interleave. Captures are
numbered; `source` says what each open one records.

`HostStream` has the controller with its cooldown, the preset in force, the encoder's
own settings, the dwell, and the frame length `sendLoop` started with. `Update` and
`Apply` are separate, since `SetQuality` takes a lock that `handleControl` does not. The
receiver's decoder never changes: `runOnce` registers `handleControl` but starts no
`ServeLoop`, so nothing reads FORMAT_UPDATE. A STATS message is abstracted to the level
it leads to, which the averages of the code can make any of the four.

### Relay

One host id, host connections (`leg`) that come and go, and the relay's goroutine per
phone. The entry of a host that has hung up stays in `waiting` until it is replaced
or taken, as in the code. A splice is the set of copies that still run; a copy
ends when its source ends or when it has something to write to a dead side. The
sealed contents are left out.

### V1Receiver and V1Stream

`V1Receiver` is about who owns what: the accept loop, handlers and their handshake
slots, `activeStreams` with the mixer's list, the sources of the UDP loop, and the
steps of `RunListeners`' shutdown. `V1Stream` is about the audio: the sender's attempts,
sequence numbers and capture positions, a network that loses, repeats and
reorders (UDP) or delivers in order until it breaks (TCP), and the receiver's
`frameTracker` with its capped silence. An audio frame is named by its capture
position. `capped` and `first` are history.

### JitterBuffer, AudioRing, PCMRing and PlayoutQueue

`JitterBuffer` counts in frames; `writing` is the size of the `Write` that holds the mutex:
`lock` takes it, `Write` is the rest of the function, and between the two a `Read` finds
`TryLock` failing. The refinement maps the queue to the `used` slots from `read` on, and a
packet enters the abstract queue when `Write` ends. `AudioRing` counts in bytes, since
its point is the quantum: a block that ends inside a frame, an overrun in the
middle of one. `PCMRing` has the reader's fractional phase in steps of 1/`Scale` and the
neighbours each output frame is made of.

### PhoneReceiver, PhoneReorder, PhonePolicy, PhoneRecorder

`PhoneReceiver` splits the handling of a datagram where the lock is released: the
binding is read, written, and the closure for the main thread posted, with `stop`,
`disconnect` and the watchdog in between. It assumes that a stopped audio thread
leaves its 10 ms poll before the user starts the receiver again.

`PhoneReorder` keeps the code's arithmetic: `nextSeq` advances by the frames of a
packet while the sender advances by one. So the sender's time line is *not* kept:
with two frames a packet, every second packet that arrives in order is dropped as
late. `phone_seq` shows it (`LateIsStale`). The same arithmetic may leave held packets
behind `nextSeq` until the next reset. What `PacketsAccounted` says is what the buffer
does keep, of the packets it takes in: each is played once or still held, none is
concealed. `taken`, `played` and `passed` are history.

`PhonePolicy` has whole milliseconds and ages in passes of housekeeping. The audio
thread and the utility timer both run passes; a pass takes the policy's lock once
for each call, `reset`, `update`, the read of the preset and that of the manual target,
and then gives the target to the engine. Each is an action of its thread, and the
settings, which come on the main thread, or the other pass may come in between.
`disturbed` is history: a setting changed since this pass's `update`. Passes after
`stop`, which return at once, are left out.

`PhoneRecorder` has the serial queue as a count of drains and the chunk the running
one has taken. `append` and `stop` give the lock up before they put a drain on the
queue: `append` and `postDrain`, `beginStop` and `syncStop` are separate, so a recording may
end and the next begin before a late drain is queued. `ahead` counts the drains
`ioQueue.sync` waits for. That a drain finds sound and no open file, which the code
provides for by dropping the sound, is not reachable (`Controlled` in `PhoneProofs`).

### Wire

A value is a record whose numbers are the sequences of their bytes. An encoder is
given by the order and width of the fields it appends, a decoder by the places it
reads them at, each from its own function of the code, so that nothing but the
bytes relates the two. A reader of a stream fills a buffer of the size it needs
and waits for more until the stream breaks (`Cut`); a datagram may be replaced by
one that differs in a byte or in length (`Stray`). An encoder or decoder that returns
an error has no result.

What the model made visible: a type-3 announce with a name of 255 bytes is
encoded and then refused by `Decode`, since it is one byte over `MaxPacketBytes`
(`tooLong`); `DecodeCaps` accepts bytes after the blob; the comment at
`protocol/v2/control.go:37` says "fixed 13 bytes", and `capsSize` is 15.

Abstracted: relay messages, the PAIR_*, VOLUME, PING and RESUME payloads, and
`Caps.Validate`.

## 3. Runs

| Run | Expectation | What it shows |
|---|---|---|
| `session` | pass | `SecretAgreement` and `StreamAgreement` over three overlapping attempts; `PairedByCode`; `TrustKept`; `ReplyRate` and `BestAddr` |
| `session_progress` | pass | with every fault allowed, an attempt without a token ends |
| `host` | pass | `CaptureIsSelection`, `CapturesOwned`, `SoundComesBack`, `PresetTakesEffect`; `CaptureIntact`: the capture ring keeps frames whole, in order and counted |
| `phone` | pass | `PacketsAccounted`, `PlayedInOrder`, `RecordingComplete`, `TargetInBounds`, `SettingsTakeEffect`, `FirstSenderWins`, `RemainingSenderHeard`; `PhoneIntact`: the phone's ring interpolates between neighbours and accounts for every frame |
| `network` | pass | `StreamsOwned`, `ReturnedClean`, `CancelReturns`; `SoundInPlace`, `SoundInOrder`, `SenderHeard`; `PairedOnce`, `RelayHostFound`, `DeadSpliceEnds`; `ReadAsWritten`; of the v2 pipeline `MediaTypes`, `PlayedInPlace`, `StatsMatchOutput`, `AcceptedNotConcealed`, `HeldAhead`, `HeldIsPlayed`; of the jitter buffer that it implements `PlayoutQueue` (`RingIsQueue`), `RingHoldsNewest`, `FramesAccounted`, `FullBufferPlays` |
| `session_missed_resume` | violation | a missed resume does not "simply fall back to the full flow" |
| `session_reconnect` | violation | after a broken stream `Run` never dials again |
| `phone_seq` | violation | the phone drops fresh packets as late |
| `host_switch` | violation | a codec switch costs every frame that follows |
| `host_fanout` | violation | two receivers share the captured audio between them |
| `store_migration` | violation | a migration overwrites the hosts in a Keychain that did not show them to it |
| `manual_range` | violation | the manual target leaves the user's bounds |

Each violation states what a comment of the repository says; the `findings` of
`PROJECT.json` quote it.

### Behaviours the model shows

These properties are stated in the modules and fail; no run lists them. To see
the counterexample, make the property the only one of a cfg with the constants
given and, for `Session`, `FairSpec` and `MaxDials = 3`.

| Property | Constants | What happens |
|---|---|---|
| `ClientMedia!ConcealAfterHold` | as `Network.cfg` | `tick` forces the flush every period, so a gap is concealed before the hold expires (`media.go:118`) |
| `Session!BothSidesStore` | `Faults = {"restart"}` | PAIR_RESULT is sent before `SavePeer`; the receiver keeps a record the host does not have (`host.go:983`) |
| `Session!SecretAgreement` | `Faults = {"stop", "restart"}` | the host ends between PAIR_RESULT and `SavePeer` while its file still has the record of an older pairing, and comes back with the older secret (`host.go:983`) |
| `Session!HelloIsNotServed` | `Faults = {"drop", "slow"}` | a RESUME answered late leaves the host serving a receiver that waits for HELLO |
| `Session!WrongCodeIsTerminal` | `Faults = {"badPin"}` | the host closes without PAIR_RESULT, so the receiver dials again (`host.go:975`) |
| `Session!TrustedHasRecord` | `Faults = {"forget"}` | `ForgetPeer` between `SavePeer` and the assignment to `trusted` (`host.go:598`) |
| `Session!ServedIsListed` | `Faults = {"drop"}` | the handler of an old connection unlists the new one (`host.go:640`) |
| `Relay!SpliceTornDown` | as `Network.cfg` | the splice waits for all four copies, so a host that hears nothing keeps a departed phone's splice (`relay.go:163`) |
| `TrustStore!TrustUsed` | as `Pairing.cfg` | a kill after the identity and before the peers were moved: the Keychain has an identity, so neither migration runs again and the hosts stay in the file; or the read of the peers was refused |
| `PhonePolicy!TargetSettles` | as `Phone.cfg` | the target rises to the demand, falls after the hold and rises again; two threads' passes alternate |
| `PhoneReceiver!RecordingEnds` | as `Phone.cfg` | `disconnect` between the binding and the closure that `configureStream` posts: the state stays `streaming` with nobody bound, and neither the watchdog nor the auto-stop acts (`ReceiverModel.swift:674`) |

### Bounds

* `session`: three attempts, so that two pairings, a forget in between and
  handlers of earlier attempts can overlap; two phones with two attempts each;
  two hosts in the store, three identities; a limiter of burst 2 over two
  intervals, one instance of room for two peers. `session_progress` has two
  attempts and every fault.
* `host`: two receivers, the tray and the monitor with two source switches in all,
  which is enough for any two actors to meet; three format generations, two
  preset changes; a capture ring of 7 bytes with a quantum of 2 that wraps twice,
  and blocks that are odd or larger than the ring.
* `phone`: two senders and six events of the user and the senders; six packets of
  two frames, a window and cap of two; two changes of the settings or the network,
  so that one can come before a pass and one into it, with a pair of bounds that
  some presets exceed and one, given in the wrong order, above every preset, and
  manual targets inside and outside them; rates and holds that reach the bounds
  in a few passes; two recordings of
  five appends by two threads in a queue of two; a ring of 5 frames, of which 8 are
  written, read at ratios 3/4, 1 and 5/4.
* `network`: three connections, two sources, two streams, one handshake slot; eight
  captured frames in packets of two, a gap cap of three, two sockets, two packets
  in flight; two phones and two host connections; two values on a stream, cut 1, 10
  or 25 bytes before its end, each message type with names and payloads at, below
  and above their limits. For the v2 pipeline 8 sequence numbers, the stream
  starting at 6, 5 frames, a window of 2, a hold of 3 periods: the numbers wrap
  after two frames, the window fills, gaps of one to three frames, late, early and
  refused frames all occur, and half the sequence space (4) is wider than the
  window, as in the code. For the jitter buffer target 2, ring 4, packets of 1, 3
  and 5 frames (5 does not fit), 12 frames: the ring wraps several times.

`CHECK_DEADLOCK FALSE` stands where a behaviour may rest: a stopped client, a
returned receiver, a phone nobody sends to, and the ends of the bounded counters.

### Fairness

* `ClientMedia`: time passes and the ticker runs. The network owes nothing.
* `Session`: goroutines that can run do, timers fire, the app starts the client
  and the user answers the PIN prompt. No fault is fair.
* `JitterBuffer`: the device keeps asking with each of its read sizes, and a `Write`
  that has the mutex ends. Writers owe nothing. With reads larger than the high
  watermark the code would be silent for good.
* `HostCapture`: requests run to their end; a send loop goes on, and opening a device
  or the tone succeeds when it is tried often enough. A per-app selection whose
  processes are gone is excepted.
* `HostStream`: STATS keep coming and `handleControl` ends.
* `V1Receiver`: loops and handlers go on; a handshake ends by its deadline; a peer may
  send for ever, so a handler ends only when its context or connection does.
* `V1Stream`: hellos go out, and of those sent again and again some arrive (strong
  fairness of one delivery). Audio may be lost for ever.
* `Relay`: goroutines go on, the host dials again, an unanswered leg times out.
* `PhonePolicy`: the passes of each thread keep coming; settings and network rest.
* `PhoneReceiver`: threads and timers run; of a sender's datagrams, repeated while it
  streams, some of each kind are read.

## 4. Proofs

TLC checks the instances of section 3; the theorems below hold for every value of
the constants that the named assumptions admit. TLC evaluates the assumptions on
every run. A theorem that has a hypothesis of its own names it. Each safety
property was first found to be not inductive, strengthened, and the strengthening
checked by TLC.

| Theorem | Property | Assumption |
|---|---|---|
| `ClientMediaProofs!TypeCorrect`, `FramesInPlace`, `WindowAhead` | `MediaTypes`, `PlayedInPlace`, `HeldAhead` | `ConstantsAssumption`: an even modulus, a window and a hold of at least one |
| `ClientMediaProofs!AcceptedIsDelivered`, `StatsAreTrue` | `AcceptedNotConcealed`, `StatsMatchOutput` | the same |
| `JitterBufferProofs!TypeCorrect`, `RingKeepsNewest`, `NoFrameVanishes`, `RingImplementsQueue` | `BufferTypes` (no run lists it), `RingHoldsNewest`, `FramesAccounted`, `RingIsQueue` | `JitterAssumption`: `0 < Target <= High`, positive sizes |
| `SessionProofs!PlayingIsServed` | `StreamAgreement` | `SessionAssumption`: one attempt at least, faults of those modelled |
| `SessionProofs!StoresAgree` | `SecretAgreement` | the same, and `"restart" \notin Faults` |
| `HostCaptureProofs!CaptureFollowsSelection`, `NoCaptureLeaks` | `CaptureIsSelection`, `CapturesOwned` | `HostAssumption`: finitely many receivers; `"closed"` is no device |
| `HostCaptureProofs!CaptureRingIntact` | `CaptureIntact` | `RingSizes`: a positive quantum |
| `V1Proofs!NoStreamLeaks`, `ReturnsClean` | `StreamsOwned`, `ReturnedClean` | `ReceiverAssumption`: finitely many connections, which are no sources |
| `V1Proofs!SoundKeepsItsPlace`, `SoundComesInOrder` | `SoundInPlace`, `SoundInOrder` | `StreamAssumption`: packets of at least one frame |
| `ConnectProofs!NeverSharedHost` | `PairedOnce` | connections are numbered from one |
| `ConnectProofs!RepliesWithinRate`, `BestAddrReported` | `ReplyRate`, `BestAddr` | `DiscoveryAssumption`: a positive burst and interval |
| `ConnectProofs!NoPairingLost` | `TrustKept` | `StoreAssumption`: no record is `None` |
| `ConnectProofs!PairingDecidedByCode` | `PairedByCode` | |
| `PhoneProofs!BindingChangesHands` | `FirstSenderWins` | |
| `PhoneProofs!TargetStaysInBounds` | `TargetInBounds` | `PolicyAssumption`: settings in the sliders' ranges |
| `PhoneProofs!NoPacketUnaccounted`, `PlaysInOrder` | `PacketsAccounted`, `PlayedInOrder` | packets of at least one frame |
| `PhoneProofs!PhoneRingIntact` | `PhoneIntact` | `RingSizes`: a positive ring and resolution, packets that fit |
| `PhoneProofs!RecordingsAreComplete` | `RecordingComplete` | |

The bounds on a behaviour (`MaxSent`, `MaxTries`, `MaxTime`, ...) are constants like the
others, so the theorems hold however large they are.

### The arguments

**ClientMedia.** That a frame from the window comes out in its place depends on the
key it was stored under. `IInv` adds that `nextSeq` is `nextPos` modulo `SeqMod`; that a held
frame is stored under its own number and lies between `nextPos` and `sent`; that
everything in flight lies within half the sequence space of `sent`; and that no
frame is both held and in flight. `DeltaIsDistance` is the key: the signed 32-bit
difference of two wire numbers is the distance of the positions while they are
less than half the space apart. `FlushStep` shows that `flush` keeps the window and
emits in place; one lemma per branch of `accept` follows. `AccountInv` holds what
was played and what was concealed behind `nextPos`; then a flush can neither
conceal a frame it played nor count one twice, and a run of losses that ends at
`nextPos` is the burst under way.

**JitterBuffer.** Contents, accounting and types are inductive together: the
accounting keeps the names of queued frames natural, the bound on `used` keeps the
written slots apart from those still queued. `RingOffset` is the ring arithmetic,
`RoomForPacket` says that an oversized packet leaves nothing of the old queue. For
`RingImplementsQueue` both queues are runs of consecutive frames, so a step is
compared by the ends of the runs; `lock` is a stutter, `Write` the enqueue and `Read` the
dequeue.

**Session.** `StreamInv`: an attempt has messages only once it was dialled, a stream
not yet dialled is empty, and an answer that lets the receiver play (RESUME_OK,
STREAM_ACK) is on a live connection only while its handler serves. `PairInv`: the
handler between BEGIN and `SavePeer` holds `pairMu`, so one at most can still save; a
CONFIRM follows its CHALLENGE and a result its CONFIRM; a receiver pairs only
without a record, and while it has one nobody can save another attempt's secret.
`StoresAgree` needs that the host process does not end: section 3 has the behaviour
in which it does and the stores disagree.

**HostCapture.** The two invariants need each other: a `Close` after unlocking leaves
the selected capture alone because what the actor holds is not the shared one,
and `switch` and `ensureCapture` put the selected source in place in the critical section that
reads it.

**AudioRing** (`RingInv`). `used` and every drop are whole quanta, the byte at offset `i` of
the ring has phase `i % Quantum`, and neighbours inside a quantum are neighbours of
the stream. The order is kept between all pairs rather than neighbours, because a
drop or an evicted part leaves any two apart. **PCMRing** (`PcmInv`): the ring
holds exactly the newest frames written; `ProducibleFound` shows that the guard of
`tryDrainAdvanced` admits only output frames whose two neighbours are in the ring.

**V1Receiver** (`IInv`). The stages of `RunListeners` and what may still be open in each
(`Shutdown`), and tracked connections as those whose handler runs, beside
`StreamsOwned`; a slot is counted by the lemmas `SlotTaken` and its counterpart.
**V1Stream** (`StreamInv`). A slip is a capture position less `Chunk` times the number; a
sender's slip only grows, so a later number has a later position
(`NetOrdered`, `TrackersBehind`). Over TCP every number between the tracker's and
the sender's is on its way or lost with the connection (`InTurn`). `Written` says what
`out` holds against `expectedCaptureFrame`.

**Relay** (`IInv`). The relay has a host connection in one place: waiting, or with one
phone (`InOnePlace`), and a phone is spliced exactly when it has a peer.

**Discovery.** `LimiterInv`: replies sent and tokens left stay below the burst and the
intervals up to the last refill, and a bucket is empty only since the last reply
(`QuotientSum` is the integer division). `InstancesHeard`: what `addPeerInstance` keeps of a
peer is the least address it answered from and what it announces.

**TrustStore** (`StoreInv`). What a migration has still in the file while it moves it
(`InMove`), what its reads have told it, unless they hid something (`Found`), what the
store being loaded holds of the Keychain (`Loaded`), and what a file and a write
under way contain (`Whole`). A file is removed only when its peers are in the
Keychain, and peers are written only over a list that holds none, or after a
read that hid it: that is the write `TrustKept` excepts with `clobbered`, and that
`store_migration` shows to be possible. One lemma covers what writes do
(`KeychainWrites`), one each the file, the life of the app, and the steps of the two
migrations and of the loading.

**PairingExchange** (`ExchangeInv`). What each side has heard at each point
(`PhoneHeard`, `HostHeard`) and which message is on the connection (`OnWire`), with the
transcript as a sequence of parts. Equal tags have equal inputs, so equal codes;
a secret names the two keys it is made of, so no two phones share one.

**Phone.** `BindingFits`: while a datagram is in hand the binding is its sender's or
nobody's, since only the audio thread binds. `PolicyInv`: the bounds are in order and
the lower one is not above the ceiling of a rise, and what a pass that nothing
disturbed has read so far is in force (`InForce`). `ReorderInv`: what was played or
concealed lies below `nextSeq`, and a packet is held or played and not both.
`RecorderInv`: what is written, what the drain has in hand and what waits follow one
another and are together what the recording kept (`InHand`); only the open
recording has sound in hand, and when `ioQueue.sync` returns nothing of it waits
(`Controlled`), whatever drains are still queued or to be queued.

### Only model-checked

* Liveness, which is out of the prover's reach: `HeldIsPlayed`, `FullBufferPlays`,
  `FirstAttemptEnds`, `SoundComesBack`, `PresetTakesEffect`, `RemainingSenderHeard`,
  `CancelReturns`, `SenderHeard`, `RelayHostFound`, `DeadSpliceEnds`, `SettingsTakeEffect`.
* `ReadAsWritten`: numbers and messages are put together with folds over sequences
  (`FoldLeft`, `FlattenSeq`), and what a recursive definition computes cannot be proved
  by induction here.

## 5. Not modelled

* The device backends (`audio/wasapi`, `audio/malgo`): COM and driver calls.
* Of the wire codecs: relay messages, the PAIR_*, VOLUME, PING and RESUME payloads,
  `Caps.Validate`. The other models carry decoded messages.
* TLS, certificates and the relay's sealing; the codecs themselves and a payload
  that does not decode.
* `AudioEngineController.swift` and `DriftController.swift`: the audio session of the
  operating system and floating-point rate control.
* Volume, mute, local recording and the statistics shown in the tray; `Mixer.Read`'s
  sum; `ping`, whose PONG nobody reads.
* The encrypted file of the Windows store, beyond the effect of saving.
* `PCMRing.write` of more than the whole ring, which no caller reaches.
* Command line, tray windows, the iOS views and the tweak: no protocol state,
  apart from the tray's source menu.

## 6. Plan

Every component with control of its own is modelled, and every safety property of
a passing run but `ReadAsWritten` is proved. What is left:

1. `ReadAsWritten` in parts: what does not need a fold, such as that a stream's reader
   returns a prefix of what was written when each message is read back as itself.
2. Refinements: `AudioRing` and `PCMRing` as drop-oldest queues, as `JitterBuffer` is.
3. For the properties that fail and are listed in section 3, the strongest
   statements that hold: of `TrustedHasRecord` without `forget`, of `ServedIsListed`
   without a second connection.
4. The PAIR_*, RESUME and relay payloads in `Wire`.
