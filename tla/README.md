# Verification of miracast-sink

TLA+ models of the Wi-Fi Display (Miracast) implementation in this repository,
TLC configurations that check them on small instances, and TLAPS proofs for
every instance. The native code is under `src/native/wifi-display` (written
below without that prefix); the Java side is `src/framework-modify` and
`src/java`.

    tlc -workers 2 -config MCTunnelRenderer.cfg MCTunnelRenderer.tla   # one run
    tlapm TunnelRendererProofs.tla               # the proofs of one component

`PROJECT.json` lists components, runs, the lines each definition translates
(`map`), a seeded bug per property that its run must find (`mutants`), the
hazards of the code and the disagreements found.

## 1. Inventory

The source device shares its screen. `WifiDisplayController` finds a display,
connects to it, and asks a `WifiDisplaySource` to listen. The display (a
"dongle", or the sink of this repository) connects over TCP; the two speak RTSP
in both directions (M1 to M16 of the Wi-Fi Display specification). After SETUP
and PLAY a `PlaybackSession` encodes screen and sound and sends an MPEG
transport stream over RTP. The sink reorders the packets and feeds a player.

Concurrency comes in three forms. Each `AHandler` runs on an `ALooper`: one
message at a time, in the order posted, delayed messages when they are due.
`ANetworkSession` has a thread of its own. Binder threads call in from the media
player, the encoder, HDCP and the Java side.

| Component | State | Operations | What is hard | What makes it correct |
|---|---|---|---|---|
| `sink/TunnelRenderer` (jitter buffer) | list of packets, last number played, clock of a miss, empty media buffers | queueBuffer (looper), dequeueBuffer, doSomeWork, onBufferAvailable (binder) | two threads under two locks, duplicates, losses, wait before a skip | in order, nothing lost in between, no lost wakeup, buffers conserved |
| `sink/RTPSink` | a `Source` per SSRC, two UDP sessions, report timer | RTP/RTCP datagrams, errors, receiver reports, connect | wrap of 16 bit numbers, late packets, jumps, which port is whose | extended numbers follow the sender's, reports right and regular |
| `sink/WifiDisplaySink` | state, session, response handlers | start, connect, M1 to M5, SETUP, PLAY, errors | speaks and is spoken to over one connection | reaches PLAYING, sockets bound before media |
| `source/WifiDisplaySource` | state, client, response handlers, timers, HDCP, playback session | start, stop, client comes and goes, requests, responses, keep-alive, reaper | stop() against everything else, timers after their reason, deferred SETUP | stop() answered and clean, sessions accounted for, client kept alive |
| `source/PlaybackSession` with `Track`, `MediaPuller`, `Converter`, `RepeaterSource` | tracks, their queues, what each thread does | finishPlay, access units, drain, errors, destroyAsync | four threads; reads that block; messages about tracks that are gone | destroyed when quiet, units in order, destroy answered |
| `source/Sender` | transport, RTP sequence, history, reports | connect, queue, retransmit, sender reports | NACK against the bounded history, failure of one of two sockets | retransmits what it sent, one death notice |
| `source/TSPacketizer` | tracks and continuity counters | addTrack, packetize | counters modulo 16, padding arithmetic | counters continuous, packets 188 bytes |
| `ANetworkSession` | sessions and sockets, wakeup pipe, fd sets | create, destroy, sendRequest, start, stop, threadLoop | fd sets used after the lock was given up, socket numbers reused | wakeups kept, failures told once, data sent |
| `WifiDisplayController.java` | desired, connecting, connected, cancelling device, timeouts, retries | scan, connect, disconnect, P2P broadcasts, timeouts | callbacks of earlier attempts | one attempt at a time, retries bounded |
| player app, JNI | WFD on or off, peer, sink | broadcasts, start of the player | order of broadcasts | player started once per group |
| `ParsedMessage`, `Parameters` | none | parse | text | no protocol state |
| `TimeSeries`, `sink/LinearRegression` | statistics for the log | add, fit | floating point | log output only |
| `wfd.cpp`, `udptest.cpp`, `nettest.cpp`, `rtptest.cpp` | command line | options | - | test tools |

How they interact: `WifiDisplaySource` and `WifiDisplaySink` call
`ANetworkSession` and receive its notifications as messages;
`WifiDisplaySource` owns one `PlaybackSession`, which owns a `Sender` and its
`Track`s; a `Track` owns a `MediaPuller` (own looper), which reads a
`RepeaterSource` (own looper) or the microphone, and a `Converter` (own looper
for the encoder, same looper for messages). `RTPSink` owns the `TunnelRenderer`.

## 2. Modules

| Module | Models | Composition |
|---|---|---|
| `ReorderBuffer` | the promise of `TunnelRenderer.h:33`: the oldest packet held is played, none older than the last | abstract specification |
| `TunnelRenderer` | `sink/TunnelRenderer.cpp`, both threads | implements `ReorderBuffer` (property `Reassembles`) |
| `TunnelRendererProofs` | theorems about `TunnelRenderer` | EXTENDS it and TLAPS |
| `RtpSource` | `RTPSink::Source`, as operators on its fields | used by `RTPSink` |
| `RTPSink` | `sink/RTPSink.cpp`, sender and network | the renderer is an INSTANCE of `ReorderBuffer` |
| `RTPSinkProofs` | theorems about `RTPSink` | EXTENDS it and TLAPS |
| `WifiDisplaySource` | `source/WifiDisplaySource.cpp`, with what its environment knows of each connection (`dongle`, `asked`) | open: the peer comes from `Dongle` or `WfdSession` |
| `Dongle` | displays that answer well or not, leave, fall silent | EXTENDS `WifiDisplaySource` |
| `DongleProofs` | theorems about `WifiDisplaySource` with `Dongle` | EXTENDS it and TLAPS |
| `WifiDisplaySink` | `sink/WifiDisplaySink.cpp`, as operators on its fields | used by `WfdSession` |
| `WfdSession` | the source and sinks of this repository connected, one sink per connection | EXTENDS `WifiDisplaySource`, `WifiDisplaySink` |
| `WfdSessionProofs` | theorems about `WfdSession` | EXTENDS it and `DongleProofs` |
| `TSPacketizer` | `source/TSPacketizer.cpp`: tracks, packet counts, padding, counters | used by `MediaStream` |
| `Sender` | `source/Sender.cpp` over UDP: sockets, queue, history, NACKs, sender reports | used by `MediaStream` |
| `MediaStream` | the whole path of the media, from an access unit to the player | composes `TSPacketizer`, `Sender`, `RtpSource` and the renderer's looper side |
| `MediaStreamProofs` | theorems about `TSPacketizer`, and about `MediaStream` and, in it, `Sender` | EXTENDS it and TLAPS |
| `DisplayListener` | what `WifiDisplayController.Listener` is promised | abstract specification |
| `WifiDisplayController` | `WifiDisplayController.java`, all its callbacks | implements `DisplayListener` (property `ToldInOrder`) |
| `WifiDisplayControllerProofs` | theorems about `WifiDisplayController` | EXTENDS it and TLAPS |
| `ANetworkSession` | `ANetworkSession.cpp` | stands alone |
| `ANetworkSessionProofs` | theorems about `ANetworkSession` | EXTENDS it and TLAPS |
| `PlaybackSession` | `source/PlaybackSession.cpp`, `MediaPuller.cpp`, `RepeaterSource.cpp`, `Converter.cpp`, opening and failure of `Sender.cpp` | stands alone |
| `PlaybackSessionProofs` | theorems about `PlaybackSession` | EXTENDS it and TLAPS |
| `MC...` | values of constants for TLC | |

Variables and actions keep the names of the code (`mState`, `onPlayRequest`
becomes `OnPlayRequest`). Variables without the `m` are queues and timers the
framework keeps for the code, what is outside `src/`, or history; each is
commented where it is declared. A definition followed or preceded by one that
differs from it by one mistake (`NoInterrupt` before `Interrupt`) is a
seeded bug used by `mutants`; the specification never uses it.

**Steps.** A handler of a looper is one step, since its looper runs nothing
else meanwhile. Where other threads share the state the step is a critical
section: in `TunnelRenderer` one queueBuffer or one dequeueBuffer, so that a
packet may be queued between two dequeues of the other thread's doSomeWork; in
`ANetworkSession` a call under `mLock`, and each ready socket of the second
section of `threadLoop`, with `select()` and its stale fd sets in between; in
`PlaybackSession` the start and the end of a read, since the session goes on
while a puller is blocked in it.

**Time.** A timer is a message that may come at any time once it is scheduled;
its length does not order it against the network. The one clock that is
measured is the 50 ms wait of the renderer (`mFirstFailedAttempt`, in ticks).
`MediaStream` needs two facts about time to say anything of retransmission, and
states each in the guard that uses it: a datagram is overtaken by at most
`MaxLate` later ones (`Arrive`), and a packet that was asked for is back, if it
comes at all, before the wait for it is over (`WaitIsOver`). packetize() and the
`Sender` have a looper each there (`PlaybackSession.cpp:347-355`); they share
nothing but the packets that are handed over, so that it is enough to let their
handlers take turns.

**Aborts.** A CHECK that fails sets `aborted` to the function it is in and
nothing happens any more. Invariants that hold "while not aborted" say so.

### TunnelRenderer

`QueueBuffer` counts the bytes, inserts from the tail and drops a duplicate;
`InitPlayer` and `CallDoSomeWork` are the rest of the kWhatQueueBuffer handler,
and the packet that creates the player does not call doSomeWork.
`OnBufferAvailable` is the binder thread handing a media buffer back.
`LockStreamSource`, `PlayOne` and `StopWorking` are the loop of doSomeWork.
dequeueBuffer drops the stale prefix, then plays, waits, asks for a
retransmission or skips. Packets are their extended sequence number and weigh
one byte; a discontinuity command is counted. Left out: the destructor, the
surface, the format of the stream.

Three behaviours of the code that the model shows and no property forbids. The
wait for a missing packet has no timer: when the 50 ms are over, the packets
behind the gap may be played (`WaitIsOver`, `TunnelRenderer.cpp:264-303`), but
nothing calls doSomeWork until another packet or buffer comes, so they may stay
beside an empty buffer with both threads idle, for ever at the end of a stream.
`Due` is therefore the packet waited for and no other, and `NoWorkForgotten`
says that this is the one way in which a packet can be left lying: with both
threads idle and a buffer empty the packet waited for is not held, and
dequeueBuffer has found so since it last returned one, so that the wait runs. The
clock of the 50 ms wait starts when the queue is found empty
(`TunnelRenderer.cpp:235-238`), so after an idle period a gap is skipped at
once, without a wait or a request, although line 272 speaks of a wait. And
mTotalBytesQueued counts a duplicate that is then dropped (line 178).

### RtpSource and RTPSink

`NewSource` and `UpdateSeq` are RFC 3550 A.1 as written at `RTPSink.cpp:80-190`:
probation, an advance with a wrap, a jump that needs its successor to
resynchronise, a late packet. The sender numbers packets `0..MaxIndex` and
`origins` remembers which packet got which extended number; `counted` the packets
since `base`, the one that ended the probation, whose number `mBaseSeq` is. The 2 s chain of
reports is `sendRR`, the number of kWhatSendRR messages scheduled. One SSRC;
TCP interleaving, the fraction lost and delay statistics are left out.

A packet from before a wrap that arrives after it is numbered with the cycle
count from after it (`RTPSink.cpp:160`): it is played a cycle too late, and the
packets with its number then are taken for duplicates. The run lets this happen
(`lateAcrossWrap` remembers it), and `PlayedInSendingOrder` claims nothing of a
stream to which it has happened.

### WifiDisplaySource, Dongle, WfdSession

`queue` is the queue of the looper; `keepAlives`, `mReaperPending`,
`teardownTimer`, `finishStop2`, `finishPlay` are its delayed messages. Every
response handler and every request handler is an action, with each early return
and each CHECK. Responses are matched by request instead of CSeq, which is the
same while no request repeats before its answer. Whether mUsingHDCP is set
after a refused M3 depends on what in the response cannot be used, which is left
open. `Dongle` refuses, repeats,
leaves and goes silent. `WfdSession` replaces it by real sinks: sink s makes
connection s, what it sends is what the source's queue receives, and the source
keeps one of them and rejects those that come meanwhile. A connection breaks at
any time, each end reading what is left before the error. `dongle` and `asked`
(what became of a connection, how often it asked for something) are the other
side, kept by both environments, so that `DongleProofs` can speak of the
source's own steps for both. `WifiDisplaySink` gives each message exactly one
case: a response is looked up before its status is judged, as
`onReceiveClientData` does. The CHECKs that a dongle or a stop() at the wrong
moment makes fail are in the model, `AbortsOnlyWhenCutOff` says when that is: a
client that comes after the first was lost, a message of a client dropped
meanwhile, a PLAY after PAUSE or with stop() before it in the queue
(`WifiDisplaySource.cpp:204, 520, 831, 979, 1189`). Left out: the choice of
ports and video formats, TCP interleaving, IDR requests, a second stop(), requests
that name a playback session other than the one they were told of.

### ANetworkSession

`Collect`, `Select`, `Dispatch`/`Accept`/`ReadMore`/`WriteMore`/`DispatchEnds`
are one round of the thread; `CreateClientOrServer`, `DestroySession`,
`SendRequest`, `Stop` the calls. The fd sets hold (socket, session) pairs
although the code sees the socket number only, so that a reused number shows.
This reaches the CHECK of `writeMore` on a session that was made over the socket
of one destroyed meanwhile (`ANetworkSession.cpp:1063`); that it is reached in
no other way is `AbortsOnlyOnReusedSocket`. A connect() that fails is told with
the reason in the place of `send` (`ANetworkSession.cpp:468`), that is as a
failure to receive (`ConnectFails`). A session that connects is not read, so its
owner hears of one such failure; only over a reused socket can it have been read
before, and then be told twice. `FailuresToldOnce` says this and that no other
failure is told twice.
A request queued just before destroySession is dropped; `RequestsAreSent` allows
it as the code does. Left out: framing of TCP datagram sessions, the content of
data, a socket or pipe that stays full.

### PlaybackSession

`queue` is the one looper of session, tracks and converters; `puller[t]` says
what the thread of a puller does and holds its own queue. A plan bounds a
behaviour: units looked at, failures, and whether the session is destroyed. The
CHECKs that fail when destroyAsync, a source that ends or a start that fails
comes at the wrong moment (those of onFinishPlay, of a NULL converter, of ~Track,
~RepeaterSource, requestIDRFrame and of an audio source that ends) are in the
model and are reached; `ChecksHold` does not forbid them, it says that nothing
else makes them fail, and that those of `MediaPuller` on start and of a message
about a track that is gone never do. A client that named no RTCP port is connected
with its RTP socket alone, so `Connected` may come of one socket or of two; an RTP
socket that does not connect is told as an error of receiving and ignored
(`Sender.cpp:371-379`), and the session then waits for ever.
HDCP encryption and packetizing are left out but for their failure.

### TSPacketizer, Sender, MediaStream

`TSPacketizer` has the call packetize() as the variable `job`: `Packetize` up to
the first packet with data, `NextFragment` a turn of the loop, `Finish` the
return; a CHECK that fails sets `failed`. Sizes are the code's (188, 178, 184),
the counters wrap at `CounterMod`. `Sender` numbers RTP packets without bound
and puts them on the wire modulo `WireMod`. parseTSFB walks over its history,
strikes bits out of the mask and breaks off once everything was found: `Open` is
what is left of the mask at an entry, `Again` whether the entry is sent again,
`AllFound` whether the walk ends there. `ResendsWhatWasAsked` asks of `Resent`,
for every NACK in every state, the set a reader would expect.

`MediaStream` composes them with the network and the sink: a unit is cut up,
queued, sent, lost, delayed, numbered by `RtpSource`, played in order, asked for
once more and sent again. The renderer is its looper side only (arrivals drive
it), since `TunnelRenderer` has the threads. Each packet that arrives is numbered
as updateSeq does it. That is not always the number it was sent with: one that
comes out of the windows kMaxDropout and kMaxMisorder is taken for a jump, after
which the cycles are counted anew (finding 1); and one from before a wrap that
comes after it, which every retransmission of packet 65535 does, gets the cycle
count after the wrap (`RTPSink.cpp:160`), is held as a packet of a cycle later
and played in its place. `InWindow` says which packets can be told, from
`newest`, the packet whose number is the highest; `inWindows` remembers whether
all have been. The behaviours in which one has not are in the model, and
`NumberedAsSent` and `Continuous` end their claim there by name. Left out: TCP
interleaving, the bytes of
tables, headers and reports, RFC 4588 retransmission (compiled out), codec data
put in front of a unit.

### WifiDisplayController

Everything runs on one handler thread. The state is one record `link`, because
updateConnection passes over all of it in six steps and is called in the middle
of other handlers: `StopListening`, `RemoveGroup`, `CancelConnect`, `Connect`,
`Listen` are operators from `link` to `link`, `UpdateConnection` puts them
together with the early returns. The code tells attempts apart by the identity
of the WifiP2pDevice object; an object here is its address and a number.
WifiP2pManager answers each call once, at any time and in any order; broadcasts
come at any time and say anything. What the listener was told is `display` and
`connected`. The answer to stopPeerDiscovery names no scan: `scan.asked` remembers
whether a stop was asked for since the scan began, `scan.ended` whether such a
stop ended it (`"stopped"`) or one asked for before it began (`"cut short"`,
`WifiDisplayController.java:390-400`). A plan bounds what users and framework do. Left out: the intent
that is sent when the other side made the connection, audio routing, a group
info of null (which onGroupInfoAvailable does not test for), names and other
properties of displays.

## 3. Runs

| Run | Question | Bounds, and why they are enough |
|---|---|---|
| `renderer` | wakeups, retransmission, buffers, refinement | 4 sequence numbers, 5 arrivals, 2 buffers, wait 2: a gap of two, a duplicate, a late packet, a skip, and both buffers in flight occur in one behaviour |
| `rtp_sink` | reports, order | numbers wrap at 5, twice in 11 packets; one lost in a row, one late, one duplicate, jumps impossible |
| `rtp_resync` | (finding) resynchronisation | as above, 3 packets may be skipped at once |
| `source` | stop, sessions, HDCP, reaper, failing CHECKs | 2 connections so that a second client meets the first; 4 unasked requests are OPTIONS, SETUP, PLAY and one more; one message of dongles queued at a time besides those of source, timers and stop |
| `source_reconnect` | (finding) CHECK on a new client | as `source` |
| `session` | source with sinks: agreement, progress, stop | one connection, no other bound: the protocol is finite. More sinks only add ones that are rejected; with two (639,380 states) TLC finds the invariants to hold too, and `WfdSessionProofs` shows it for any number; the liveness properties are checked with one |
| `network` | wakeups, failures, failing CHECKs, data | 2 sessions over 2 sockets so that a number is used again, 2 requests, 1 arrival |
| `playback` | failing CHECKs, quiet destruction, order, progress | three plans: destroyed with 2 units on the way; destroyed with 1 unit and 1 failure; 4 units, the least with which one track overtakes the other |
| `playback_dormant` | (finding) wakeUp lost | one unit |
| `stream` | packetizing, continuity, NACKs, recovery | 4 or 6 units of two tracks at the sizes where the packet count changes, with and without tables; counters wrap at 4, RTP numbers at 5, history of 3, masks of 3 bits, windows of 3 ahead and 2 behind, 2 faults, one packet may overtake another: every wrap falls between and inside units, and the second plan is long enough for a packet from before a wrap to be played a cycle later, which breaks `Continuous` when it is asked for without `inWindows` |
| `controller` | roles, listener, wishes, scans | 2 displays, 1 retry of each kind; three plans: a connection asked for twice under broadcasts; one caught by the feature going off; scans with the feature switched thrice |
| `controller_retry` | (finding) a retry meets a later attempt | 1 display, asked for, given up, asked for again |

Each property is stated with its comment in its module; `mutants` names for
each a plausible mistake that its run detects. In short:

- `renderer`: `NoWorkForgotten` (both threads idle beside an empty buffer means
  that the packet waited for is not held and the wait for it runs),
  `AskedOnceForMissing`, `BuffersConserved`, `DueIsPlayed` (the packet waited for
  is played), and the refinement `Reassembles` (order, no loss in between).
- `rtp_sink`: `ReportIsTrue` (the highest number is the newest packet's, losses
  are not overstated), `PlayedInSendingOrder`, `ReportsGoOn` (one chain of
  reports that never dries up).
- `source`: `AnsweredIsClean`, `StopIsAnswered`, `SessionsAccounted`,
  `ReapedOnlyIfSilent`, `SetupAwaitsHDCP`, `AbortsOnlyWhenCutOff`.
- `session`: `StatesAgree`, `SocketsAreBound`, `ReachesPlaying`,
  `StopReachesSink`. The last and `StopIsAnswered` except a playback session that
  never answers destroyAsync (`PlaybackNeverAnswers`), and `StopIsAnswered` an
  HDCP module that never answers shutdownAsync (`HDCPNeverAnswers`).
- `network`: `NoWakeupLost`, `FailuresToldOnce` (once per direction, a failed
  connect() as one of receiving), `AbortsOnlyOnReusedSocket`, `RequestsAreSent`.
- `playback`: `ChecksHold`, `DestroyedIsQuiet`, `SentInOrder`,
  `DestroyIsAnswered`.
- `stream`: `ChecksHold` (no CHECK of packetize fails), `ResendsWhatWasAsked`,
  `NumberedAsSent` (while all packets come in the windows each is numbered as it
  was sent), `Continuous` (the player's continuity counters, under the same
  condition), `LostIsRecovered` (under no such condition: a packet that was asked
  for but not taken under its number counts as gone).
- `controller`: `Consistent` (one role per device, the display is the connected
  device's, the listener knows what is advertised, nothing is in progress that
  nobody ends), `ToldInOrder`, `WishesAreSettled` (given up counts as settled),
  `ScanIsFinished` (told as finished, unless a stop asked for since has ended the
  scan, or an earlier one cut it short; there is no third way).

Deadlock is not checked: in every system here the peer may fall silent, stop()
ends everything, bounds run out, or a CHECK aborts, and then nothing is left to
do. That something does happen when it must is what the liveness properties say.

### Fairness

- Loopers handle every message and every timer that is due (`Queued`, timers,
  `Looper`, `OnSendRR`): `ALooper` loops for ever.
- The scheduler runs every thread (`NetworkThread`, `Puller`, the renderer's
  two). `LockStreamSource` and `OnBufferAvailable` are strongly fair: a mutex is
  not kept from a thread for ever while it is released again and again, and the
  player hands back every buffer it has read.
- Time passes (`Tick`); a connect() ends, with success or not (`ConnectEnds`).
- Nothing is assumed of the playback session, which `playback_dormant` shows may
  never answer destroyAsync when the screen stands still, nor of the HDCP module,
  which may never answer shutdownAsync (if it was never started, for one).
  `StopIsAnswered` and `StopReachesSink` name the two as the only reasons to wait
  for ever: `source` and `session` have no fairness of `PlaybackDestroyed` and
  `OnHDCPShutdown`.
- In `session` the sinks run, and the playback session is established.
- In `stream` the network delivers what it does not lose, NACKs and datagrams
  independently of each other; in `controller` the framework answers every call
  of connect, removeGroup, cancelConnect, discoverPeers and requestPeers, and the
  handler delivers retries and time limits. Group info may never come, nor any
  broadcast or event of the display.
- Nothing is assumed of dongles, of packets arriving in the other runs, nor of the screen, which
  may stand still for ever: `DestroyIsAnswered` therefore excepts a puller that
  waits for a frame.

## 4. Findings

1. `rtp_resync`: after a resynchronisation the numbering restarts at 0 while the
   renderer keeps its last number, so the stream may be dropped as old.
2. `source_reconnect`: the CHECK at `WifiDisplaySource.cpp:204` fails for a
   client that reconnects or that connects during stop().
3. `playback_dormant`: wakeUp is lost if it comes just before the read goes
   dormant (`RepeaterSource.cpp:193`); the stop waits behind the read.
4. `controller_retry`: a retry recognises its attempt by the device object
   (`WifiDisplayController.java:889`), but a display asked for again after a
   disconnection is the same object: within the 500 ms of the retry the new
   attempt is torn down although it has not failed.

## 5. Proofs

`TunnelRendererProofs` proves, for every set of sequence numbers, every set of
buffers, every wait and every number of arrivals, from the assumptions on the
constants alone (`ExtSeqNos \subseteq Nat`, `Wait` positive,
`MaxArrivals \in Nat`):

- `TypeCorrect`: `TypeOK`, with `BytesCoverQueue` (what is counted covers what
  is held) and `FixedOnce`. `TypeOK` is
  not inductive alone: that `mTotalBytesQueued` stays natural needs that the
  bytes of what is held were counted.
- `InOrder`: `PlayedInOrder`, which the runs check as part of `Reassembles`, through `OrderInv`: the list is sorted
  (`Sorted`, by the lemma `InsertAfterSorted` on the insertion from the tail)
  and nothing played is newer than `mLastDequeuedExtSeqNo` (`PlayedUpToLast`).
- `NoLostWakeup`: `NoWorkForgotten`, through `WorkInv`. It is about the packet
  waited for, not about those behind a gap (section 2). A thread leaves
  doSomeWork only after a dequeueBuffer that returned NULL
  (`NothingDueAfterNull`) or with no buffer left, and each step that makes
  something due puts its own thread on the way to doSomeWork.
- `AskedOnce`: `AskedOnceForMissing`, through `AskedInv`: requests made so far
  are for packets up to the next one (`AskedUpToNext`).
- `BuffersAreConserved`: `BuffersConserved`, inductive with the types.
- `Implements`: `Spec => Abstract!Spec`. The mapping takes the packets newer
  than the last one played for `held`; dropping the stale prefix, waiting and
  asking are stutters, queueBuffer of a fresh packet is `Accept`, a dequeue that
  returns a packet is `Play`, since the head of a sorted list without its stale
  prefix is the oldest packet held.

The inductive invariant is `IInv` in `TunnelRenderer`, the conjunction of these
parts. The types are proved inductive first; each other part is then inductive
together with the types, and the refinement uses the types and `OrderInv`.
`Inductive` puts them together: `Spec => []IInv`.

`WifiDisplayControllerProofs` proves, for every set of devices, any numbers of
retries and any plan, `TypeCorrect` (`TypeOK`), `StaysConsistent` (`Consistent`)
and `ListenerToldInOrder` (`Spec => Told!Spec`), from `null` being no device.
`TypeOK /\ Consistent` is inductive as it stands (`IInvIsInvariant`), but not
within a handler: in the middle of updateConnection the wish is already another
device. `Between` is what holds there and `Held` what holds between handlers.
Each of the six steps takes `Between` to `Between` or `Held` and tells the
listener at most one thing (`Tells`); `LetGoHolds`, `ConnectHolds`, `ListenHolds`
and `UpdateHolds` put them together, and for each action one lemma (`...Keeps`)
shows that it comes down to one of them. That is also the step simulation of the
refinement, so the invariant and the refinement have one proof.

The first part of `MediaStreamProofs` proves, for access units of every size, any tracks and
every stuffing that leaves room in the first packet (`Extras \subseteq 0..170`),
`PacketizeNeverFails` (`ChecksHold`) through `JobOnCourse`: the packets still to
be written are those the rest of the unit needs at 184 bytes each. The arithmetic
is in `FirstPacketFits` and `FragmentFits`. The theorem is about `TSSpec`, in
which units of audio fit the PES length field (`Fits`: encoders deliver less).
`TracksAreDistinct` says that no two tracks get one PID (`DistinctPIDs`): addTrack
makes the PID from the number of tracks of the kind, so the proof counts them
(`CountTracks`). `MediaStream` takes the same steps with its own choice of units,
and the proofs about it, the second part, build on these lemmas.

`ANetworkSessionProofs` proves, for any number of sessions, sockets, requests and
arrivals, `TypeCorrect` (`TypeOK`), `WakesForEveryCall` (`NoWakeupLost`),
`TellsFailuresOnce` (`FailuresToldOnce`, with the second failure to receive that a
session read before it connected may be told of) and `ChecksFailOnReuseOnly`
(`AbortsOnlyOnReusedSocket`). None is inductive alone. `IInv` adds that identifiers
are never used again (`IDsAreFresh`), that a socket has one owner
(`SocketsAreOwn`), that bits and jobs are of sockets that were watched
(`BitsAreOfSockets`, `JobsAreOfBits`), what has been told of a session that failed
(`ErrorsAreSeen`, `FailuresAreFirst`) and that a socket that is watched and not
used again is still wanted (`StillWants`). The wake-up is the delicate part: the
pipe holds a byte for every change made since it was last read, so the sets that
`select()` is given can differ from what sessions want only while it is not
empty. `QuietChange` and `QuietRound` do this once for all calls and rounds.

`DongleProofs` proves, for any number of connections, any number of messages
dongles send and any lifesigns, with content protection and without, everything
the run of `Dongle` checks but liveness: `TypeCorrect` (`TypeOK`),
`StopsCompletely` (`AnsweredIsClean`), `LeaksNoSession` (`SessionsAccounted`),
`SetsUpAfterHDCP` (`SetupAwaitsHDCP`), `ChecksHoldUnlessCutOff`
(`AbortsOnlyWhenCutOff`) and the action property `ReapsTheSilentOnly`
(`ReapedOnlyIfSilent`). The assumptions are those on the constants and what a
dongle does in `Dongle`: it is not part of `src/`, and what it may send when is
part of what is proved. What a handler may find depends on what is still in the
queue, so the invariant is about the queue and the state together:

- `QueueInOrder`: of each two messages queued the second may follow the first; a
  connection comes before its messages, a playback session is destroyed once and
  nothing is established after that.
- `OneClient`: the source never has dealings with a second session, not even
  after the first was lost. It is why no handler finds a response of one client
  in the state another one has brought it to.
- `Connections`: a connection not yet seen is new and alive.
- `Stopping`: how far stop() is, by state, playback session and HDCP module.
- `Negotiation`: OPTIONS, M3, M4 and M5 come once each and in this order, of
  which `SetupAwaitsHDCP` needs that M5 is asked for once.
- `KeptAlive`: with the reaper at work a keep-alive is scheduled or an M16
  unanswered.

`Going` is their conjunction and holds while the process has not aborted; a step
that aborts has to establish `AbortsOnlyWhenCutOff` only. Most handlers change
little: `QuietStep`, `TalkStep` and `DropStep` show once what steps of a kind
preserve, and a lemma per handler (`...Step`) shows that it is of that kind.

`WfdSessionProofs` proves, for any number of sinks and without a bound on anything
they do, both safety properties of the run of `WfdSession`: `MediaMeetSockets`
(`SocketsAreBound`) and `StatesStayTogether` (`StatesAgree`). The one assumption
is that content protection is off, which the sink does not know. The sinks need
not behave like dongles by assumption here, they do so by their code: the
invariant `IInv` of `DongleProofs` is shown to hold with them, too, so that
`SessionsStopCompletely`, `SessionsChecksHold` and `SinksReapedIfSilent` carry
its theorems over to the real pair of programs, and the source's own steps, the
larger part of `DongleProofs`, are proved once for both (`SourceStep`). What is
new is `SInv`, about both ends and all that is between them:

- `OneBaton`: source and sink take each other from the connection to PLAY by
  messages each of which answers the one before (`ToSink`, `ToSource`), and of
  these one is under way at a time, in the source's queue or on its way to the
  sink. It is why SETUP is sent once and two sockets are never bound for one
  session, although nothing in `sendSetup` says so.
- `Stages`: how far both ends are when that message is a certain one
  (`StageThere`, `StageHere`), and how far a sink is at least (`StageOf`).
- `OneServed`: the source speaks to one sink ever, which is `OneClient` seen from
  the sinks; `Spoken`: it refuses nothing without showing an error, so that the
  CHECKs of a sink fail in no other case (`SessionsChecksHold`).
- `PlaysAsAsked`: `StatesAgree` of one sink.

Each handler of the source says something that takes a sink further or nothing
of the kind: `OrdinaryStep` does the latter once for all, `BatonStep` the former.
`SinkHears` and `SinkSays` say what `SinkReceive` does with each message,
`Received` and `Told` what becomes of the queues, and `ReceptionStages` that the
stages go on from there.

`PlaybackSessionProofs` proves, for any numbers of units and failures, with one
track and with two, over UDP and over TCP, destroyed at any time or never, every
safety property of the run of `PlaybackSession`: `TypeCorrect` (`TypeOK`),
`ChecksAlwaysHold` (`ChecksHold`), `DestroyedIsAlwaysQuiet` (`DestroyedIsQuiet`)
and the action property `SendsInOrder` (`SentInOrder`). The only assumption is
that the bounds are numbers. Four parties share the state: the session, a puller
per track and the encoder. What keeps them apart are the messages under way, so
most of the invariant is about these:

- `Ordered`: which message may follow which (`Fits`), and that the units of a
  track follow each other in order (`Follows`).
- `PullersStopOnce`, `StartsOnce`, `Undisturbed`: a puller is started once and
  stopped once, nothing starts before the one message that the connection is
  made, and nothing is taken down before destroyAsync.
- `StopsInOrder`: from destroyAsync on a track has to be told to stop, or to be
  about to, until it is gone; and it goes only when its puller has stopped and
  its encoder is shut down, of which `DestroyedIsQuiet` is the end.
- `NoneRunsAway`: destroyAsync may come before the tracks are started; it does
  not tell them to stop then, and they may be started all the same. Such a track
  is caught by the CHECKs of `~Track` and `~RepeaterSource`, but only because the
  messages that end the two tracks take turns (`Turn`); without this the last
  track could go with its puller at work.
- `EndsByFault`: an end of a source under way means that there was a fault.
- `InLine`, `Apart`, `Merged`: where the units are, from the source through the
  encoder and the queues of the track to the sender. No unit overtakes one of its
  own track, a unit is of one track, and what was sent is older than all that is
  to come of a track not passed over. `DrainSends` is the step of the merge.

`Going` is their conjunction and holds while the process has not aborted; of an
abort only `ChecksHold` has to be shown. `QuietStep`, `AsideStep`, `PullerStep`
and `MoveStep` show once what steps of a kind preserve.

`RTPSinkProofs` proves the safety properties of the run of `RTPSink` for any
number of packets and duplicates and any width of the sequence numbers:
`TypeCorrect` (`TypeOK`), `ReportsAreTrue` (`ReportIsTrue`) and
`PlaysInSendingOrder` (`PlayedInSendingOrder`). They assume, besides the
assumptions on the constants, `WithinWindows`: a packet is late by less than
`kMaxMisorder` = 100 others, and a gap, counted from the newest packet or from
one as late as can be, is less than `kMaxDropout` = 3000. That is what `updateSeq` has its windows
for. A stream that leaves them is resynchronised, starts its cycles at 0 again,
and is the subject of the run `rtp_resync`, in which the order is indeed lost;
no theorem speaks of it. A packet late by 100 can be taken for a jump, and the
first of a jump is dropped without having been counted. The parts of `IInv`:

- `Counting`: the number updateSeq computes for the highest packet, `mCycles`
  and all, is the number of the newest packet since the source was validated, no
  packet from before the end of the probation is newer by `MaxLate` or more, and
  `mReceived` is at least the number of packets `counted`. `OnProbation` is what
  makes this true when the probation ends: numbers have not wrapped yet, since
  a first wrap without two packets in sequence before it is not in the model.
- `Faithful`: without a late packet across a wrap, what is queued under a number
  is the packet of that number; `Playing` ties what the renderer holds and has
  played to these numbers.

The core is arithmetic: `Ahead` and `Behind` say what the 16 bit difference
`udelta` and the comparison `seq < mMaxSeq` make of a packet by whether it is
newer or older than the highest one, from the uniqueness of quotient and remainder
(`ModUnique`). `AheadGives`, `BehindGives` and `ProbationGives` carry this to
`UpdateSeq`, and each packet is `Handled` in one of three ways.

The second part of `MediaStreamProofs` proves the safety properties of the run of
`MediaStream`, for any plan of units, any number of tracks, losses and socket
errors, and any width of counters and sequence numbers. Three of them hold
however the sink numbers what comes:

- `StreamChecksHold` (`ChecksHold`): the packetizer meets its CHECKs on the units
  of the stream, by the lemmas of the first part.
- `SenderResendsWhatWasAsked` (`ResendsWhatWasAsked`): the history is a run of
  consecutive packets no longer than the numbers are wide, so a number on the
  wire names one packet of it at most, and a walk that strikes out bits and stops
  early sends what a walk to the end would. `Base` is the invariant: every list
  on its way from packetizer to history holds consecutive packets, each list
  going on where the one before it ended (`InTurn`), and every packet anywhere
  (`Known`) has been numbered.
- `StreamTypeCorrect` (`TypeOK`).

`StreamNumbersAsSent` (`NumberedAsSent`) and
`StreamIsContinuous` (`Continuous`) are about the stream as long as all packets
have come in the windows, and hold for any losses, copies, overtaking and
retransmissions in them, across any number of wraps:

- `NewestHolds`: while `inWindows`, once the source is validated `mMaxSeq` and
  `mCycles` make the number of `newest`. Before that, packets in the windows have
  not wrapped, and `mCycles` is 0. `ValidatedAfter` says when it becomes so; `WindowKeepsNumber` that updateSeq then
  gives a packet `InWindow` the number it was sent with, from the uniqueness of
  quotient and remainder; `WindowsFrame` that nothing but an arrival matters.
- One sequence: all that packetize has written is a stream in which every PID
  counts its packets (`Counted`), and there are `cut`s such that RTP packet n is
  the piece of it from `cut[n]` to `cut[n + 1]`, for every packet in a list, in the
  history, in the air or at the sink (`Streamed`). The stream and its cuts are not
  in the state; the invariant says that they exist, and each step shows new ones:
  `Packetize` and `NextFragment` make the stream longer, `HandOver` cuts it, and
  everything else (losses, copies, retransmission, overtaking) only moves pieces
  about. So what is played under consecutive numbers is one piece, and its
  counters go up by one.

No hypothesis is left to the reader: where the claim ends is in the two
properties, as a state of the model that is reached (one packet that is taken for
a jump, or that comes from before the last wrap of the newest). The second is no
rare case for the code: packet 65535 of every cycle cannot be recovered by
retransmission, and is later played in the place of another. `RTPSinkProofs`
says what order is kept with it and without it.

Only model-checked: every liveness property (`DueIsPlayed`, `ReportsGoOn`,
`StopIsAnswered`, `ReachesPlaying`, `StopReachesSink`, `RequestsAreSent`,
`DestroyIsAnswered`, `LostIsRecovered`, `WishesAreSettled`, `ScanIsFinished`),
since fairness and ENABLED are out of the prover's reach, and the four
violations, which a counterexample settles. No
RECURSIVE operator is used.

## 6. Plan

Done, in the order of importance for the code: jitter buffer and its promise;
RTP numbering; RTSP server with dongles; server with sink; network thread;
playback session; controller of the Java side; packetizer, sender and the whole
path of the media.

Next:

1. `Converter`: buffer indices of the encoder and silence detection
   (`Converter.cpp:264-660`), with the partial data queue of `MediaPuller`.
2. `ANetworkSession`: TCP datagram sessions and their framing.
3. Player application and JNI: WFD on or off, start of the player once per group.

Theorems: every safety property of every passing run is proved.

Not modelled and not planned: `ParsedMessage` and `Parameters` (text; the models
take messages as parsed), `TimeSeries` and `LinearRegression` (floating point
for the log), the command line tools.
