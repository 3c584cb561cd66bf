---------------------------- MODULE HostCapture ----------------------------
(***************************************************************************)
(* The host's one capture and those who share it (engine/host.go,          *)
(* engine/qualitymode.go): the send loops that read it and reopen it, the  *)
(* receivers whose SET_SOURCE switches it, the tray, and the monitor of    *)
(* the default endpoint.  Each of them changes h.opts and takes h.capture  *)
(* under h.mu, and closes what it took after unlocking.                    *)
(***************************************************************************)
EXTENDS Integers, Sequences, FiniteSets

CONSTANTS
  Receivers,   \* receivers with a stream; each has a control handler
  Devices,     \* playback devices
  MaxSwitches, \* bound: source switches in one behaviour
  MaxFrames    \* bound: frames captured in one behaviour

ASSUME HostAssumption == IsFiniteSet(Receivers) /\ "closed" \notin Devices

VARIABLES
  sel,       \* h.opts: [apps, tone, device]
  capture,   \* h.capture, 0 when nil
  source,    \* what each open capture records
  live,      \* receivers whose sendLoop runs
  todo,      \* per actor: the calls its request still has to make
  held,      \* per actor: the capture it took and has to close
  switches,  \* switches asked for
  frames,    \* history: frames read from the capture
  heard      \* history: per receiver, how many of them it was sent

vars == <<sel, capture, source, live, todo, held, switches, frames, heard>>

Default == "default"
Tray == "tray"
Monitor == "monitor"
Actors == Receivers \cup {Tray, Monitor}
Ids == 1 .. Cardinality(Actors) + 1
Closed == "closed"

Init ==
  /\ sel = [apps |-> FALSE, tone |-> FALSE, device |-> Default]
  /\ capture = 0 /\ source = [i \in Ids |-> Closed] /\ live = {}
  /\ todo = [a \in Actors |-> <<>>] /\ held = [a \in Actors |-> 0]
  /\ switches = 0 /\ frames = 0 /\ heard = [r \in Receivers |-> 0]

-----------------------------------------------------------------------------
(* What ensureCaptureViaBackend opens: per-app capture wins, then the test *)
(* tone, then the device.                                                  *)
chosen == IF sel.apps THEN "apps" ELSE IF sel.tone THEN "tone" ELSE sel.device

alwaysOpens == TRUE

(* An open capture is kept. *)
needsOpen == capture = 0

(* ensureCapture, under h.mu. *)
open ==
  \E i \in Ids :
    /\ source[i] = Closed /\ \A j \in Ids : source[j] = Closed => i <= j
    /\ source' = [source EXCEPT ![i] = chosen] /\ capture' = i

ensureCapture == IF needsOpen THEN open ELSE UNCHANGED <<capture, source>>

takeLater(a) == UNCHANGED <<capture, held>>

(* The caller takes the shared capture in the section that changes h.opts. *)
take(a) == held' = [held EXCEPT ![a] = capture] /\ capture' = 0

SetSourceDevice(d) == [sel EXCEPT !.device = d, !.apps = FALSE]
SetCaptureSource(tone) == [sel EXCEPT !.tone = tone, !.apps = FALSE]
SetCaptureApps == [apps |-> TRUE, tone |-> FALSE, device |-> Default]

(* The selection after a call. *)
selection(call) ==
  CASE call[1] = "device" -> SetSourceDevice(call[2])
    [] call[1] = "tone" -> SetCaptureSource(TRUE)
    [] call[1] = "loopback" -> SetCaptureSource(FALSE)
    [] call[1] = "apps" -> SetCaptureApps

-----------------------------------------------------------------------------
(* Requests: the calls of applySetSource and applySetSourceWithApps, and   *)
(* the single calls of the tray's menus.                                   *)
setSource ==
  {<< <<"device", d>>, <<"loopback">>, <<"ensure">> >> : d \in Devices \cup {Default}} \cup
  {<< <<"tone">>, <<"ensure">> >>, << <<"apps">>, <<"ensureOrRestore">> >>}

trayRequests ==
  {<< <<"device", d>> >> : d \in Devices \cup {Default}} \cup {<< <<"tone">> >>, << <<"apps">> >>}

requests(a) ==
  IF a = Tray THEN trayRequests ELSE IF a = Monitor THEN {<< <<"endpoint">> >>} ELSE setSource

Request(a) ==
  /\ todo[a] = <<>> /\ held[a] = 0 /\ switches < MaxSwitches
  /\ a \in Receivers => a \in live
  /\ switches' = switches + 1
  /\ \E r \in requests(a) : todo' = [todo EXCEPT ![a] = r]
  /\ UNCHANGED <<sel, capture, source, live, held, frames, heard>>

calls(a, names) == todo[a] # <<>> /\ held[a] = 0 /\ Head(todo[a])[1] \in names

(* The locked part of SetSourceDevice, SetCaptureSource, SetCaptureApps;   *)
(* the monitor takes the capture and changes nothing else.                 *)
Switch(a) ==
  /\ calls(a, {"device", "tone", "loopback", "apps", "endpoint"})
  /\ sel' = IF Head(todo[a])[1] = "endpoint" THEN sel ELSE selection(Head(todo[a]))
  /\ take(a)
  /\ todo' = [todo EXCEPT ![a] = Tail(@)]
  /\ UNCHANGED <<source, live, switches, frames, heard>>

(* old.Close(), after unlocking.  An error ends the request there. *)
CloseOld(a) ==
  /\ held[a] # 0
  /\ source' = [source EXCEPT ![held[a]] = Closed]
  /\ held' = [held EXCEPT ![a] = 0]
  /\ todo' = todo \/ todo' = [todo EXCEPT ![a] = <<>>]
  /\ UNCHANGED <<sel, capture, live, switches, frames, heard>>

(* The request ends by reopening the capture. *)
Ensure(a) ==
  /\ calls(a, {"ensure", "ensureOrRestore"}) /\ ensureCapture
  /\ todo' = [todo EXCEPT ![a] = Tail(@)]
  /\ UNCHANGED <<sel, live, held, switches, frames, heard>>

(* Opening fails; a receiver's per-app request goes back to the default. *)
EnsureFails(a) ==
  /\ calls(a, {"ensure", "ensureOrRestore"}) /\ needsOpen
  /\ todo' = [todo EXCEPT ![a] =
       IF Head(@)[1] = "ensure" THEN <<>> ELSE << <<"loopback">>, <<"ensure">> >>]
  /\ UNCHANGED <<sel, capture, source, live, held, switches, frames, heard>>

-----------------------------------------------------------------------------
(* startStreamFor opens the capture before the loop starts. *)
StartStream(r) ==
  /\ r \notin live /\ ensureCapture /\ live' = live \cup {r}
  /\ UNCHANGED <<sel, todo, held, switches, frames, heard>>

StopStream(r) ==
  /\ r \in live /\ todo[r] = <<>> /\ held[r] = 0 /\ live' = live \ {r}
  /\ UNCHANGED <<sel, capture, source, todo, held, switches, frames, heard>>

(* sendLoop: readCapture takes what the capture has. *)
ReadCapture(r) ==
  /\ r \in live /\ capture # 0 /\ frames < MaxFrames
  /\ frames' = frames + 1 /\ heard' = [heard EXCEPT ![r] = @ + 1]
  /\ UNCHANGED <<sel, capture, source, live, todo, held, switches>>

noReopen(r) == FALSE /\ UNCHANGED vars

(* sendLoop: readCapture returned nothing, so the capture is reopened. *)
Reopen(r) ==
  /\ r \in live /\ capture = 0 /\ ensureCapture
  /\ UNCHANGED <<sel, live, todo, held, switches, frames, heard>>

Next ==
  \/ \E a \in Actors : Request(a) \/ Switch(a) \/ CloseOld(a) \/ Ensure(a) \/ EnsureFails(a)
  \/ \E r \in Receivers : StartStream(r) \/ StopStream(r) \/ ReadCapture(r) \/ Reopen(r)

Spec == Init /\ [][Next]_vars

-----------------------------------------------------------------------------
(* The calls a request is made of. *)
Calls ==
  {<<"device", d>> : d \in Devices \cup {Default}} \cup
  {<<c>> : c \in {"tone", "loopback", "apps", "endpoint", "ensure", "ensureOrRestore"}}

TypeOK ==
  /\ sel \in [apps : BOOLEAN, tone : BOOLEAN, device : Devices \cup {Default}]
  /\ capture \in Ids \cup {0} /\ held \in [Actors -> Ids \cup {0}]
  /\ source \in [Ids -> Devices \cup {Default, "apps", "tone", Closed}]
  /\ live \subseteq Receivers /\ todo \in [Actors -> Seq(Calls)]
  /\ switches \in Nat /\ frames \in Nat /\ heard \in [Receivers -> Nat]

(* The capture that is read is the one selected: no switch, however it     *)
(* interleaves with a loop that reopens the capture, leaves an open        *)
(* capture of another source behind (h.opts and h.capture change in one    *)
(* critical section).                                                      *)
CaptureIsSelection == capture # 0 => source[capture] = chosen

(* No capture leaks and none is closed twice or while it is in use: every  *)
(* open capture is the shared one or is held by the one actor that will    *)
(* close it.                                                               *)
CapturesOwned ==
  /\ {i \in Ids : source[i] # Closed} = ({capture} \cup {held[a] : a \in Actors}) \ {0}
  /\ \A a, b \in Actors : held[a] # 0 => held[a] # capture /\ (held[a] = held[b] => a = b)

(* "a live stream never goes permanently silent while h.capture is nil"    *)
(* (sendLoop), but for a per-app selection whose processes are gone.       *)
SoundComesBack ==
  (live # {} /\ capture = 0 /\ ~sel.apps) ~> (capture # 0 \/ sel.apps \/ live = {})

(* Every receiver is sent what the host captures: the capture is fanned    *)
(* out to all live streams ("a single shared capture feeds all receivers", *)
(* Host.Run).                                                              *)
FanoutIsComplete ==
  [][\A r \in Receivers :
       (r \in live /\ frames' > frames) => heard'[r] = heard[r] + (frames' - frames)]_vars

(* Requests run to their end and send loops go on; opening a device or the *)
(* tone succeeds when it is tried often enough.                            *)
Fairness ==
  /\ \A a \in Actors : WF_vars(Switch(a)) /\ WF_vars(CloseOld(a)) /\ WF_vars(Ensure(a) \/ EnsureFails(a))
  /\ \A r \in Receivers : WF_vars(Reopen(r) /\ ~sel.apps)
=============================================================================
