# GWL AirPlay 2 receiver: specifications

TLA+ modules that model the receiver in `src/`, TLC configurations that check
them on small instances, and theorems proved with TLAPS for all instances.
Paths below are relative to the repository; `rtp.cpp:32` means line 32 of
`src/rtp.cpp`.

Contents: the system, its hazards, the modules, the runs, the proofs, what the
runs found, what is left out, the plan.

## 1. The system

A sender (a phone) discovers the receiver by mDNS, opens a TCP control
connection and speaks HTTP/RTSP on it. SETUP opens UDP sockets; RTP packets
then arrive on the data socket and are reordered, decoded and played.

| Component | State it keeps | Operations | Source |
|---|---|---|---|
| Receiver life cycle | `running`, `config`, server, mDNS | `start`, `stop`, routing of requests | `airplay_receiver.cpp` |
| mDNS service | socket, `active`, records, responder thread | `publish`, `unpublish`, answer a query | `mdns.cpp` |
| HTTP server | `running`, listening socket, thread, retained handlers, input buffer | `start_per_connection`, `stop`, the serving loop | `http_server.cpp` |
| RTSP session | three flags, transport ports, SDP, receivers, event server, jitter buffer, pipeline | one handler per method, `reset`, destructor, `handle_media_packet` | `rtsp.cpp` |
| RTP receiver | socket, handler under a mutex, `worker_running`, thread | `bind`, `close`, `set_packet_handler`, `clear_packet_handler`, worker loop, `receive` | `rtp.cpp` |
| Jitter buffer | map from sequence number, expected number, statistics | `push`, `pop`, `reset` | `rtp_jitter_buffer.cpp` |
| Audio pipeline | `opened_`, `format_`, decoder, sink | `configure`, `push`, `reset` | `audio_pipeline.cpp`, `alac_audio_pipeline.cpp` |
| ALAC configuration, decoder | the config, the decoder's config and cookie | parse cookie, parse fmtp, `configure`, `decode`, `reset` | `alac_config.cpp`, `alac_decoder.cpp` |
| Pairing (transient, HKP), FairPlay | SRP or Curve25519 state, `complete_`, `verified_` | `/pair-setup`, `/pair-verify`, `/fp-setup` | `airplay_pairing.cpp`, `airplay_hkp_pairing.cpp`, `airplay_receiver.cpp` |
| SDP and legacy key parameters | parsed description, one flag | parse, decode | `sdp.cpp`, `crypto.cpp`, `crypto_session.cpp` |
| Sinks | open flag, format; Apple: a ring buffer and a render thread | `open`, `write`, `close`, render | `apple_audio_sink.cpp`, `callback_audio_sink.cpp` |

**How they interact.** Application -> `AirPlayReceiver::start` -> HTTP server and
mDNS responder. HTTP thread -> one handler per connection -> `RtspSession` ->
`RtpReceiver`s, a second HTTP server (the event channel), jitter buffer and
pipeline. RTP worker -> `handle_media_packet` -> jitter buffer -> pipeline ->
decoder -> sink.

**Threads.** The application; the HTTP thread (one connection at a time); one
event-channel thread per session, which calls the same session; the RTP worker;
the mDNS responder; on Apple systems the audio render thread. The only lock of
the core is the one around the RTP receiver's handler; everything else relies on
joining a thread before its data is touched, and the hard behaviours are where
that is, or is not, done.

**What makes each part correct.**

* Jitter buffer: stream order, each packet at most once, no packet lost track of,
  a gap never blocks for good.
* RTP receiver: after `clear_packet_handler` or `close` no delivery is under way
  and none begins; the join ends; header arithmetic stays inside the datagram.
* Pipeline: a sink is written to only while open and only in its format; after
  any failed step pipeline, decoder and sink agree.
* Apple sink: samples are heard once and in order, none survives a close, frames are
  never cut.
* Session: announced ports are open ones; TEARDOWN waits for the worker and leaves
  nothing behind; every request is answered.
* HTTP server: each request answered once, in order, and only when complete; a
  session outlives its connection and its last use.
* Announcement: description, decoder and keys are those of the last accepted body,
  read as a whole; nothing is mixed from two.
* Life cycle and mDNS: what is announced is served and can be resolved; a failed
  start leaves nothing.
* Pairing: pair-verify accepts only what belongs to its latest start, and a transient
  set-up is complete only with a proof of the parameters it holds.

## 2. Hazards

`PROJECT.json` lists each hazard with its line and the properties that cover
it. In short:

* wrap of the 16-bit sequence number, an overfull buffer, late and repeated
  packets (`rtp_jitter_buffer.cpp:27-49`);
* worker against owner in the RTP receiver, and a `recvfrom` that has no timeout
  (`rtp.cpp:32-52`, `103-133`, `157`);
* offsets in a datagram, field widths in fmtp lines and cookies, labels of a name, the
  length of a host (`rtp.cpp:169-181`, `alac_config.cpp:54-92`, `mdns.cpp:42`,
  `rtsp.cpp:23`);
* PAUSE, ANNOUNCE, FLUSH, TEARDOWN and the destructor against the RTP worker
  (`rtsp.cpp:44`, `50`, `53`, `54`, `60`, `rtsp.h:96-103`);
* SETUP failing half way, sessions used again after TEARDOWN or announced again
  (`rtsp.cpp:44`, `50`, `51`), lines of an SDP body in any order (`sdp.cpp:25`);
* stop while a connection is served or `accept` is blocked, a client that is gone when its
  answer is sent, requests cut and joined by TCP (`http_server.cpp:155`, `178`, `270`);
* the render thread between any two steps of a write or a reopening
  (`apple_audio_sink.cpp:39`, `134`, `142`);
* start failing half way, a query around a stop (`airplay_receiver.cpp:170`,
  `mdns.cpp:171`);
* a pairing that fails half way or is begun again (`airplay_pairing.cpp:48`,
  `airplay_hkp_pairing.cpp:59`).

Hazards that no property covers yet have a note that says why.

## 3. The modules

Definitions are named for what they model, and where the code has a name they
have that name. A comment "Faulty form" marks an operator that is a plausible bug
of the next definition; each checked property is violated when one of them takes
the place of the code's definition (`PROJECT.json`, "mutants"), which shows that
the property can fail.

| Module | Models | Kind |
|---|---|---|
| `OrderedStream` | what a reordering buffer promises | abstract specification |
| `JitterBuffer` | `RtpJitterBuffer` and the network in front of it | implements `OrderedStream` |
| `PacketSubscription` | what `RtpReceiver` promises the owner of a handler | abstract specification |
| `RtpHeader` | the checks of `RtpReceiver::receive` | operators |
| `RtpReceiver`, `MCRtpReceiver` | owner and worker of `RtpReceiver`, running those checks | implements `PacketSubscription` |
| `AudioPipeline` | `AudioPipeline`, its decoder and sink, two threads | state machine |
| `SampleQueue` | what an audio sink promises | abstract specification |
| `AppleSink`, `MCAppleSink` | `AppleAudioSink` and its render callback | implements `SampleQueue` |
| `RtspSession` | `RtspSession`, composing the parts above as its handlers see them | state machine |
| `AlacConfig` | the fmtp parser, the cookie, what the decoder supports | operators |
| `Announcement`, `MCAnnouncement` | ANNOUNCE with its body: SDP, pipeline, keys | implements `RtspSession` |
| `HttpServer`, `MCHttpServer` | `HttpServer` and its clients | state machine |
| `Pairing` | both pairings of a connection | state and actions, no `Next` of its own |
| `ReceiverLifecycle`, `MCReceiverLifecycle` | `AirPlayReceiver::start`/`stop`, `MdnsService`, a connection routed to `Pairing` | state machine |
| `JitterBufferProofs`, `RtpReceiverProofs`, `AudioPipelineProofs`, `ReceiverLifecycleProofs`, `RtspSessionProofs`, `HttpServerProofs`, `AppleSinkProofs`, `AnnouncementProofs` | theorems | proofs |

`Announcement` and `RtspSession` describe the same handlers at two levels: the first
reads bodies and leaves out sockets, the second reduces a body to "audio" or "video".
`ReceiverLifecycle` extends `Pairing`: each action of the one leaves the variables of
the other alone, except that the end of a connection discards its pairing objects.

### JitterBuffer
A packet is its index in the sender's stream; its sequence number is the index
modulo `SeqMod`, and only that number is seen by the model of the code. `push` is
one action (`Push`, with the branches discarded, kept, evicting), since one
thread calls it; `expected`, `packets` and `stats` are the fields. `floor`,
`delivered` and `evicted` are history; `newest` is the network's. The network
loses, repeats and reorders within `Window`; after `LossEnd` it loses nothing.
The eviction loop (lines 40-49) runs at most once per push, since a push adds one
packet, which the proof of `CapacityRespected` confirms. `SeqMod` stands for 2^16
and is even, as the comparison `static_cast<int16_t>(a - b) < 0` requires.

### RtpReceiver
Each access to what the two threads share is a step: `worker_running`, the thread
object, socket, handler. `cpc` is where the owner is in a call (`then` is what
follows its join), `wpc` where the worker is in its loop. `thread` is `none`
(not joinable), `live` or `ended`. `bind`, `close`, `set_packet_handler`,
`clear_packet_handler`, destruction and re-creation by the owner, `select` with a
timeout, a spurious `select`, and `recvfrom` are modelled. `Receive` takes a datagram of
any shape into `buffer`, and `Parse` runs the checks of `RtpHeader` on it: `packet`
becomes the range of the payload, or `NoPacket` and the worker goes round its loop.
One owner thread: the receivers of a session belong to the thread that handles its
requests.

### RtpHeader
A datagram is what the checks read of it: length, version, extension bit, CSRC
count, extension length, padding bit, last byte. Subtractions are modulo
`SizeMod`, as for `std::size_t`. The reference definition is `WellFormed`: a
header, a payload of some length and the padding make up the datagram.
`BytesRead` names the bytes the checks look at, in the order they are reached.

### AudioPipeline
`configure` and `reset` are the steps close sink, reset decoder, mark closed, set up
decoder, open sink, mark open; `push` is check, decode (with a begin and an end),
compare, write. Their steps interleave in every way: TEARDOWN joins the worker first, but
PAUSE and ANNOUNCE do not, and there is no lock. `overlapped` is history: it is true in a
push during which a configure or reset was under way. `WrittenInSinkFormat` speaks of the
other pushes, which include those that follow overlapped ones; `AllOpenTogether` of all
behaviours. What `decode` does with a decoder that is reset under it
(`alac_decoder.cpp:67-104`) is undefined; only which format the frame carries is modelled.

### AppleSink
`open` and `close` are their steps on the pipeline's thread (`open` begins with `close`, and
a failure after the audio unit was made ends with it: `asked` tells the two apart); `write`
is one step, since what it reads outside the lock only its own thread changes. The render
callback is `BeginRender` (reads the format, no lock) and `EndRender` (the block under the
lock). The audio unit calls back while started, one call at a time, and stopping it
waits for the call in progress: that is external. `heard` is the last block given to it.
The pipeline's calls are taken one after the other here; that they may overlap is finding 2.

### RtspSession
The HTTP thread runs a handler at a time. SETUP (both plist forms and the Transport
form) opens its sockets one by one (`OpenSocket`, `OpenSocketFails`; `todo` is what is
left), since each may fail and the worker may run in between. TEARDOWN is
`BeginTeardown`, `JoinWorker`, `Release`, in the order of `reset` (`rtsp.cpp:44`): the first
clears the media packet handler, before the second waits for the worker. The worker is
`TakePacket`, `PushPacket`, `DrainPackets`, which tests the handler, and `CallMediaHandler`.
If the handler is cleared between the test and the call, or the members are destroyed while
a packet is in progress, the outcome is undefined: it may pass unnoticed, or `WorkerCaught`
ends the process (`crashed`). The destructor is `BeginDestroy`, `StopReceiver`, `EndDestroy`,
in the order the members go (`rtsp.h:96-103`), at any time and with the worker anywhere. It
begins where the event channel has been stopped, whose wait is `HttpServer`'s. The jitter buffer is fresh
or started, the pipeline none, closed or open, the event channel a TCP port: what
they do inside is in their own modules. UDP and TCP ports are separate spaces.
A PTP SETUP compares the length of the host (`HostFits`): one that is too long throws,
nothing catches it, and the process is `terminated`. `HostLength` is a constant, so that
the run `rtsp_session` can show the rest for hosts that fit.
`WorkerWithinReceiver`
is a claim about the receiver and its socket alone: ANNOUNCE, PAUSE and FLUSH change the
pipeline and the jitter buffer under the worker.
FLUSH and `PushPacket` are one step each: that they exclude each other is *not* so
in the code (there is no lock), and what a race on the map would do is not modelled.

### AlacConfig
A config is a record; an fmtp line a sequence of tokens with numbers of at most 32
bits, a cookie a sequence of 24 bytes. The reference for the fmtp parser reads the
line as a whole (`Described`), not token by token. Decoding is external.

### Announcement
A body is a sequence of lines, told apart by kind and attribute key; the parsers fold
over it (`ParseSdp`, `ParseAlacFmtp`), and the properties read it as a whole (`SaidIn`,
`Described`). The text of a key or an IV is what the two decoders make of it, each
either nothing or a number of bytes. The code tries base64 first for the key and hex
first for the IV, and the run has the texts where this matters: a key in hex is also
base64 and always comes out as the latter, and an IV of 22 hex digits, which would be
sixteen bytes in base64, comes out as eleven, so that the keys are silently not
taken. `ImplementsSession` maps this module to `RtspSession` with
`sdp` reduced to `"none"`, `"audio"` (readable fmtp line) or `"video"`; sockets and
worker stutter in it.

### HttpServer
A connection's client sends a script of requests, each of two pieces (head, body)
that TCP may cut or join anywhere. `received` and `consumed` give the input buffer;
`answers` what was answered. `Enter` calls `accept`, which fails at once on a closed socket;
`accept` that is blocked when the socket is closed may fail (`AcceptFails`: so on macOS and
Windows), or keep the socket and take one more connection (`Connect`, `Accept`: so on Linux
and Android), and may also fail while the server runs, whereupon the loop goes on. All of
this is in `Next`; that the close wakes `accept` is in no fairness condition. `send` to a
client that is gone fails (`ReplyFails`) or raises SIGPIPE, which ends the process
(`ReplyKills`). A malformed request stays in the input; a `Content-Length` near 2^64, which
wraps `total` (`http_server.cpp:107`), is not modelled.

### Pairing
Keys and secrets are symbolic. A key of the receiver is the number of the request that
generated it (0 is a null pointer), a secret the pair of keys it was agreed from, and
`LowOrder` holds the client keys with which X25519 agrees on nothing. `StartUnknown`,
`StartDisagrees` and `StartAgrees` are the three ends of phase 1 of pair-verify, after
the client's keys were stored: no identity, no agreement, an answer. `Finish` is phase
2; a client may answer any offer it was ever made, also one that is superseded. `SetUp`
is M1 with M2, `ProofMatches` and `ProofDiffers` are M3, with a proof of any exchange M2 ever
told of. `starts`, `offers` and `proved` are history; `starts` and `srpKey` also name the
keys generated. Requests that are refused without a change are left out.
`verified_` is set and never cleared, and the secret of a wrong M3 stays beside an older
`complete_`: nothing in the code reads them, so no property speaks of them.

### ReceiverLifecycle
`start`: server, `publish` (open socket, store records, activate, announce), or abort.
`stop` and the destructor: deactivate, close socket, join responder, stop server, join its
thread (`JoinServer`), which a start that is aborted does as well.
The responder re-reads `active` after `recvfrom`, which `TakeQuery` models. A
configuration is the name, as the sequence of the lengths of its labels, and the port.
`Encoded` writes a name as `name()` does (`mdns.cpp:36-49`): a label of more than 63
bytes ends it early and without a zero. `ResolvedPort` is what a resolver gets from the
response: nothing if the name is misread or longer than the 255 octets DNS allows
(`WireLength`). Port 0 is left out (with it the code would announce 0). `hpc` is where the
server's thread is; `Connect`, `Request`, `Disconnect` and `AcceptEnds` are its steps, and it
ends only when its client leaves or `accept` returns after the stop. The server keeps the
objects of a connection that has ended until it stops (`http_server.cpp:124-137`), but no
request reaches them any more: `Discard` models that.

## 4. The runs

| Run | States | Shows |
|---|---|---|
| `jitter` | 126,190 | order, conservation, progress over a gap, refinement of `OrderedStream` |
| `jitter_wrap_lossy` | violation | finding 1 |
| `rtp_receiver` | 69,436 | thread protocol, header checks on the datagrams received, refinement of `PacketSubscription`, join ends |
| `audio_pipeline` | 1,211 | formats, failures of `configure`, any interleaving with pushes |
| `audio_pipeline_overlap` | violation | finding 2 |
| `apple_sink` | 292,571 | refinement of `SampleQueue`, frames stay whole |
| `rtsp_session` | 2,519,416 | ports, TEARDOWN, destructor, worker, event channel; handlers return |
| `rtsp_setup_host` | violation | finding 3 |
| `announcement` | 14,154 | SDP, fmtp and keys against their references; decoder set up as its config says; refinement of `RtspSession` |
| `http_server` | 23,849 | order and completeness of answers, session lifetime, stop under its two premises |
| `http_server_stop` | violation | finding 4 |
| `receiver_lifecycle` | 395,059 | announced implies served and resolvable, all or nothing, both pairings, calls return under their premises |

**Bounds and why they are enough.**

* `jitter`: `SeqMod` 12, capacity 3, window 2. The network loses packets up to index 5
  (gaps, evictions with and without the awaited packet, the buffer full), and the
  numbers wrap at 12 with all packets up to 18. A held packet is at most 5 past the
  stream position, less than half a turn, as a 16-bit number allows 32,767.
  `MaxReceived` bounds the pushes between two resets. In the lossy run the wrap is in
  reach of a loss.
* `rtp_receiver`: two handlers tell the current from the last one; one waiting datagram,
  since the worker takes them one at a time; sizes and field values on both sides of each
  comparison the checks make.
* `apple_sink`: rings of two samples (mono) and four (stereo, or mono at twice the rate), two
  sample values, writes of up to two frames and requests of up to three: the ring fills,
  wraps and runs empty, requests exceed it, and it is reopened with another channel count.
* `audio_pipeline`: three formats, so that the frame's, the sink's and the one asked for may
  all differ.
* `rtsp_session`: three ports for three UDP sockets; a SETUP may fail at each socket, and
  sockets that are closed and opened again may get each other's ports. No symmetry, since
  liveness is checked. The host has fourteen characters, the most that fit; `rtsp_setup_host`
  adds the fifteen of the longest addresses.
* `announcement`: three groups of bodies. Fmtp lines of one token, lines that lack one field,
  and lines with one field twice, with numbers that wrap to a valid one in 8 and 16 bits; media,
  versions and attributes in the orders the parser could confuse; keys and IVs in either
  encoding, in both, of a wrong length and missing. Any body may follow any other, before
  and after PAUSE and TEARDOWN.
* `http_server`: two connections (one served, one waiting), scripts of up to three
  requests: two pipelined, three with a `Connection: close` on the middle one, and a
  malformed one in front of a plain one. `http_server_stop` has one connection.
* `receiver_lifecycle`: five configurations tell a start from those before it; their names
  include one of exactly 255 octets with labels of 63 bytes, one of 256, one with a label of
  64 and one with an empty label. On a connection there are three
  starts of pair-verify and two set-ups, enough for an exchange, a failed one and a retry;
  every connection begins anew, so that more of them add nothing.

**Fairness.** Weak fairness of a thread's own steps: once a call or a handler has begun,
its thread goes on while it can. No fairness for calls, clients or the network, nor for
`accept` to fail when its socket is closed. Three liveness properties state what they need
beyond that, as premises of the formula: `JoinReturns` that the worker does not stay in
`recvfrom` with nothing to read; `StopReturns` and `CallsReturn` that a client that is served
leaves in the end (`ClientsLeave`) and that `accept` does not stay on a closed socket
(`AcceptReturns`), which macOS and Windows give and Linux and Android do not. In the session
a packet in the worker goes on (`handle_media_packet` has no wait in it). In the lifecycle
the kernel wakes a `recvfrom` on a socket that was shut down; that much of `CallsReturn`
needs no premise.

## 5. The proofs

Checked by `tlapm` with SMT, Zenon and LS4, for every value of the constants that the
named assumptions allow. Every invariant, every action property and every refinement that
a passing run checks is a theorem; what TLC shows for an instance, these show for all.
Each strengthened invariant was first checked by TLC on the component's run.

* `JitterBufferProofs`. `TypeCorrect`: `TypeOK` is inductive as it stands; its last
  but one conjunct (a packet is filed under its own number) is what eviction
  and pop need. `CapacityRespected` rests on `TypeOK` and finiteness of the map's domain.
  `PacketsAccountedFor`: received minus discarded is delivered plus evicted plus held;
  inductive with `CapacityBound`, since the eviction must be seen to remove exactly one.
  Lemmas about `Extended` and `Without` carry the cardinalities.
  The rest is under `MildNetwork`: losses end before the numbers first wrap, and a packet is
  late by less than the capacity and by less than half a turn. It bounds the network, and is
  needed: `jitter_wrap_lossy` refutes order without its first part. The invariant `Positioned`
  says that the expected number is that of the packet after the stream position, and that what
  is held lies ahead of it by less than half a turn; the lemmas about `SequenceBefore` turn
  that into an order of indices. From it `NothingBehind`, `NeededTaken`, `InOrder`,
  `FullMovesOn` and `Refines`, the simulation of `OrderedStream` step by step. The numbers
  may wrap any number of times.
* `RtpReceiverProofs`. The inductive invariant is `IInv = TypeOK /\ ControllerKnows /\
  WorkerRelies`. The properties alone are not inductive: that no socket is closed under
  the worker needs to be known before the close, when the owner has cleared
  `worker_running` and joined. `ControllerKnows` says for each position of the owner what
  the worker can be doing, `WorkerRelies` what a live worker can rely on. From it:
  `TypeCorrect`, `ClearIsQuiet`, `CloseIsSafe`, `SpawnIsSafe`, `BoundListens` and
  `Implementation`, the step simulation that makes `RtpReceiver` implement
  `PacketSubscription` with `delivering` the worker's copy of the handler.
  `PayloadBounds`, `ReadBounds` and the agreement of the header checks with `WellFormed`
  hold for every length and every field value, if header lengths are far from the range of
  `std::size_t`; `ReadsAreInside` and `LayoutDecides` carry them to every reachable state.
* `AudioPipelineProofs`. The invariant says what is open and for which format at each step of
  `configure`, whatever the worker does (`ControllerKnows`), and that a push that no call
  overlaps sees nothing of it change (`WorkerRelies`). From it `SinkGetsItsFormat` and
  `OpenTogether`, for every interleaving. The condition `~overlapped` of the first is needed:
  without it the run `audio_pipeline_overlap` refutes the claim.
* `AppleSinkProofs`. `WholeFrames` needs to be told that a ring exists only for a format whose
  frames divide it, and that the callback, which reads the format before it takes the lock,
  finds the same format behind it, since a close waits for the call in progress. `SinkIsQueue`
  is the refinement of `SampleQueue`: the queue is `Queued`, what lies in the ring from the
  read position on, round its end. `WriteAppends` shows that the two halves of a write are
  appended to it, and `EndRenderIsTake` that a request takes from its front, with lemmas for
  the remainders.
* `RtspSessionProofs`. `TransportMatches` alone is not
  inductive: what a SETUP that is half done has opened, and what a TEARDOWN that is half done
  has closed, must be known at every step between (`SetupProgress`, `SetupStands`,
  `TeardownOrder`), and that a packet is taken only from an open socket whose handler is in
  place (`WorkerWithinReceiver`); the destructor is among the steps, at any time.
  `EmptyAfterTeardown` is the strengthening for `TornDownIsClean`: it holds until the next SETUP or ANNOUNCE, whatever the worker did before.
* `HttpServerProofs`. `ThreadOwned` says for each position of the thread who may have started
  or stopped it, or that a signal has ended both, and that its session is retained, `AnswersFollow` that answers keep up with
  what was taken from the buffer, `ParsedWhole` that no more is taken than was received.
* `AnnouncementProofs`. The invariant is `DecoderOfOneBody`, `KeysOfOneBody`,
  `NothingUndescribed` and `LastAnnounced` (the last answer is the one its body calls for).
  `SdpIsRead` and `FmtpIsRead` show that the two parsers, which fold over a body of any length,
  return what the body says read as a whole. A fold is first shown to be a function of the
  number of elements taken (`SdpRun`, `FmtpRun`); what holds of the first k elements is then
  shown by induction on k, which is the least-number principle: `Smallest`, from the library's
  theorem that the natural numbers are well founded. (The library's induction rule itself
  takes an operator, which the provers cannot instantiate; a set of numbers does as well.)
  With these and the invariant come `SdpMeant`, `FmtpMeant` and `KeysMeant`. `DecoderMatches`
  also needs that the four bytes `Bytes` makes of a 32-bit number are the ones `Be` adds up to
  it (`BytesAddUp`) and where they lie in the cookie (`CookieHolds`). `Implementation` is the
  refinement of `RtspSession`. The assumption on bodies, `BodyAssumption`, is the shape of a
  line.
* `ReceiverLifecycleProofs`. The invariant is `Standing` (what is up at each step of `start`
  and `stop`, the server's thread included), `ResponderKnows` (a responder that answers has the records of this start),
  `ExchangeIsLatest` (an offer made with the key that is held is the one of the latest
  start) and `CompleteWasProved`. `VerifiesLatestStart` alone is not inductive: a failed
  agreement must be known to leave no secret. Lemmas on `Encoded` show that a name
  whose labels have 1 to 63 bytes, and that has no more than 255 octets, is read back to its end.

Only model-checked: the five liveness properties `EveryRequestAnswered`, `StopReturns`,
`CallsReturn`, `JoinReturns` and `HandlersReturn` (fairness and ENABLED are out of the
prover's reach).

## 6. What the runs found

1. `jitter_wrap_lossy`. `std::map` orders its keys as plain integers, and an overfull
   buffer erases `packets_.begin()` (`rtp_jitter_buffer.cpp:41`). When the numbers
   wrap while a packet is missing, `begin()` is the *newest* packet. The buffer then
   erases each packet that arrives, for a whole turn, and in the end pops the stale ones.
   `test_jitter_wraparound` (`tests/core_tests.cpp:37-46`) states the order across the wrap,
   without a loss, where it holds (run `jitter`).
2. `audio_pipeline_overlap`. PAUSE and ANNOUNCE reset the pipeline while the worker may be in
   `push`; the worker then writes to a closed sink, which the sink of the tests asserts
   never happens (`tests/core_tests.cpp:116`).
3. `rtsp_setup_host`. `setup_ptp_response_plist` throws for a host of fifteen characters or
   more (`rtsp.cpp:23`), speaking of an IPv4 address, which has up to fifteen; the exception
   leaves the server's thread function, which ends the process. The sockets were opened before.
4. `http_server_stop`. `stop` closes the listening socket and joins the thread
   (`http_server.cpp:267-270`). On Linux and Android, for which the core is built
   (`README.md:37`, `docs/mobile-build.md`, `.github/workflows/ci.yml:19`), the close does not
   end an `accept` that is blocked: without a further connection `stop` does not return, though
   "Press Ctrl-C to stop." (`examples/macos/main.cpp:38`) promises it. A `shutdown` before the
   close, as in `mdns.cpp:284`, would wake it there.

Noted on the way, with no run: `reset` and `set_media_packet_handler` assign the
`std::function` that the worker tests and calls, without a lock and before the worker is joined
(`rtsp.cpp:44`, `58`, `60`; nothing in the receiver sets one); `send` without `MSG_NOSIGNAL`
may end the process (`http_server.cpp:178`); `airplay_receiver.h:23` says that the log callback
is called from the network thread, and `start` and `stop` also call it on the application's;
`README.md` lists the query-driven mDNS responder as open, and `mdns.cpp:145-173` has one.

## 7. Not modelled, and why

* What the worker reads of members that are destroyed, or of a handler that is cleared, under
  it (`rtsp.h:96-103`, `rtsp.cpp:44`, `60`) is undefined. In the model it goes unnoticed or ends
  the process; that it corrupts other state is not modelled. The same holds for a decoder that
  is reset in a decode (`alac_decoder.cpp:98-104`) and a map that is cleared in a push.
* A `Content-Length` near 2^64 (`http_server.cpp:104-109`).
* The order of the samples within one block that is stored: `SampleQueue` leaves the content of
  a write free, and `AppleSink` shows that what was stored is heard as it was stored.
* Requests on the event channel's thread (`rtsp.cpp:46`): a second caller of the session,
  planned.
* `/info` and FairPlay answers (`airplay_receiver.cpp:29-108`): fixed bytes; the
  key message FairPlay stores is read nowhere. Plist bodies, of which the length of the
  host is modelled, wording and logs.
* What `parse_sdp` stores and nothing reads (session name, fingerprint, group, ports, codec).
* Failures of random numbers and memory in OpenSSL. In phase 1 of pair-verify they would
  leave a null key with the old secret (`airplay_hkp_pairing.cpp:64`).
* `parse_alac_config`, which the receiver never calls. It takes byte 5 for `pb` and reads what
  follows one byte early (`alac_config.cpp:54-62`), unlike `make_cookie`, and its unit test
  (`tests/core_tests.cpp:58-76`) shows that without a model.
* The local address and the TXT strings of the mDNS records; a later `publish` keeps an
  earlier address if it finds none (`mdns.cpp:254`).
* A part of an answer sent (`http_server.cpp:178`), and a descriptor number that is given to
  another socket while the responder holds it (`mdns.cpp:284`): planned.
* RECORD after PAUSE, which leaves the stream silent as nothing opens the pipeline again
  (`rtsp.cpp:52`), is allowed by the model; no document says what it should do.
* The ALAC library, the audio system, sockets: external, as the source uses them.
* `audio_clock.cpp`, `media_frame.cpp`, `platform.cpp`: no state the receiver uses.
* Examples, scripts, CI, Windows-only branches.

## 8. The plan

Done: the core in the order jitter buffer, RTP receiver, pipeline, Apple sink,
session, ALAC, HTTP server, life cycle; then the header checks inside the receiver,
ANNOUNCE with its body, the pairings and the names in the life cycle; then the proofs of
every invariant, action property and refinement that a passing run checks.

Next:

1. Two callers of a session: `RtspSession` with the event channel's thread as a second
   caller, its join and close split into their calls on `RtpReceiver`.
2. Partial sends in `HttpServer`; descriptor reuse in `ReceiverLifecycle`.
3. Proofs: weaker hypotheses for the jitter buffer (a loss is harmless as long as no
   packet is missing while the numbers wrap); that no step of the pipeline's owner blocks,
   as far as it can be stated without ENABLED.
