---------------------------- MODULE RtspSession ----------------------------
(***************************************************************************)
(* RtspSession (src/rtsp.cpp): the state behind one control connection.    *)
(* It composes the media, control and timing receivers, the event channel, *)
(* the jitter buffer and the audio pipeline, each reduced to what the      *)
(* session's handlers see of it.  Two threads use it: the HTTP thread runs *)
(* the request handlers and, in the end, the destructor; the media         *)
(* receiver's worker runs handle_media_packet.                             *)
(***************************************************************************)
EXTENDS Naturals, Sequences

CONSTANTS
    Port,             \* ports the system may hand out
    NoPort,           \* port 0
    HostLength        \* lengths of the host in the URI of a SETUP

ASSUME PortAssumption == NoPort \notin Port
ASSUME HostAssumption == HostLength \subseteq Nat /\ HostLength # {}

VARIABLES
    configured,       \* configured_
    setupInfo,        \* setup_info_complete_
    recording,        \* recording_
    transport,        \* the server ports in transport_
    bound,            \* the port each socket has, NoPort if it is not open
    listening,        \* the media receiver has a handler, so its worker runs
    sdp,              \* sdp_: "none", "audio" with a readable fmtp line, or "video"
    crypto,           \* crypto_ is configured
    pipeline,         \* alac_audio_pipeline_: "none", "closed" or "open"
    mediaHandler,     \* media_packet_handler_: "none" or "set"
    jitter,           \* jitter_buffer_: "fresh" or "started"
    cpc,              \* position of the HTTP thread
    todo,             \* sockets a SETUP in progress has still to open
    wpc,              \* position of the media worker in handle_media_packet
    reply,            \* the last answer
    setupFailed,      \* history: a SETUP was answered 500 since the last reset
    tornDown          \* history: nothing was set up since a TEARDOWN

flags == <<configured, setupInfo, recording>>
sockets == <<transport, bound, listening>>
media == <<sdp, crypto, pipeline, mediaHandler>>
history == <<setupFailed, tornDown>>
control == <<cpc, todo>>
vars == <<flags, sockets, media, jitter, control, wpc, reply, history>>

Receiver == {"data", "control", "timing"}     \* UDP; the event channel is TCP
Socket == Receiver \cup {"event"}
NoPorts == [s \in Socket |-> NoPort]
NoReply == [accepted |-> FALSE, ports |-> << >>]

\* A session as the connection's handler factory makes it, with or without
\* an audio sink (airplay_receiver.cpp:167).
Init ==
    /\ configured = FALSE /\ setupInfo = FALSE /\ recording = FALSE
    /\ transport = NoPorts /\ bound = NoPorts /\ listening = FALSE
    /\ sdp = "none" /\ crypto = FALSE /\ pipeline \in {"none", "closed"}
    /\ mediaHandler = "none"
    /\ jitter = "fresh"
    /\ cpc = "idle" /\ todo = << >>
    /\ wpc = "idle"
    /\ reply = NoReply
    /\ setupFailed = FALSE /\ tornDown = FALSE

\* The answer to a request, with the ports its body or headers announce; the
\* status that says why a request is refused is left out.
Answer(ports) == reply' = [accepted |-> TRUE, ports |-> ports]
Accepted == Answer(<< >>)
Refused == reply' = [accepted |-> FALSE, ports |-> << >>]

-----------------------------------------------------------------------------
\* ANNOUNCE: the body does not parse, or describes neither audio nor video.
AnnounceRefused ==
    /\ cpc = "idle"
    /\ Refused
    /\ UNCHANGED <<flags, sockets, media, jitter, control, wpc, history>>

\* The pipeline is configured from an audio description; it refuses before
\* it touches anything, fails half way and is left closed, or is open.
ConfigurePipeline(described, accepted) ==
    IF pipeline # "none" /\ described = "audio"
    THEN \/ accepted = TRUE /\ pipeline' = "open"
         \/ accepted = FALSE /\ pipeline' \in {pipeline, "closed"}
    ELSE accepted = TRUE /\ UNCHANGED pipeline

\* A description without usable keys leaves the old ones in place.  Keys that
\* were extracted are valid, so that configuring them does not fail.
ConfigureCrypto == crypto' \in {crypto, TRUE}

Announce(described) ==
    /\ cpc = "idle"
    /\ sdp' = described
    /\ configured' = TRUE
    /\ \/ /\ ConfigurePipeline(described, TRUE)
          /\ ConfigureCrypto
          /\ Accepted
       \/ /\ ConfigurePipeline(described, FALSE)
          /\ UNCHANGED crypto
          /\ Refused
    /\ tornDown' = FALSE
    /\ UNCHANGED <<setupInfo, recording, sockets, mediaHandler, jitter, control,
                   wpc, setupFailed>>

-----------------------------------------------------------------------------
\* The first binary-plist SETUP opens every socket but announces none yet.
\* Its two flags are set before anything can fail.
BeginSetupInfo(ptp) ==
    /\ cpc = "idle"
    /\ ~setupInfo
    /\ setupInfo' = TRUE
    /\ configured' = TRUE
    /\ cpc' = IF ptp THEN "setupPtp" ELSE "setupNtp"
    /\ todo' = IF ptp THEN <<"data", "control", "event">>
                      ELSE <<"data", "control", "timing", "event">>
    /\ tornDown' = FALSE
    /\ UNCHANGED <<recording, sockets, media, jitter, wpc, reply, setupFailed>>

\* A later binary-plist SETUP only reports the ports of the first one.
SetupStream ==
    /\ cpc = "idle"
    /\ setupInfo /\ configured
    /\ \E announced \in {{"data"}, {"data", "control"}} :
          Answer([s \in announced |-> transport[s]])
    /\ UNCHANGED <<flags, sockets, media, jitter, control, wpc, history>>

\* A SETUP with a Transport header opens the sockets that have no port yet.
BeginSetupTransport ==
    /\ cpc = "idle"
    /\ configured
    /\ cpc' = "setupTransport"
    /\ todo' = <<"data">>
               \o (IF transport["control"] = NoPort THEN <<"control">> ELSE << >>)
               \o (IF transport["timing"] = NoPort THEN <<"timing">> ELSE << >>)
    /\ tornDown' = FALSE
    /\ UNCHANGED <<flags, sockets, media, jitter, wpc, reply, setupFailed>>

SettingUp == cpc \in {"setupPtp", "setupNtp", "setupTransport"}

\* bind(0) or start_event_channel: an open socket keeps its port.
SocketPort(s) == IF bound[s] # NoPort THEN {bound[s]}
                 ELSE IF s = "event" THEN Port
                 ELSE Port \ {bound[t] : t \in Receiver}

\* The socket is open.  The Transport branch then stores its port at once,
\* and gives the media receiver its handler; so does start_event_channel.
OpenSocket ==
    /\ SettingUp
    /\ todo # << >>
    /\ \E port \in SocketPort(Head(todo)) :
          /\ bound' = [bound EXCEPT ![Head(todo)] = port]
          /\ transport' = IF cpc = "setupTransport" \/ Head(todo) = "event"
                          THEN [transport EXCEPT ![Head(todo)] = port]
                          ELSE transport
    /\ listening' = (listening \/ (cpc = "setupTransport" /\ Head(todo) = "data"))
    /\ todo' = Tail(todo)
    /\ UNCHANGED <<flags, media, jitter, cpc, wpc, reply, history>>

\* No socket or no port for it: 500, and what was opened so far stays open.
OpenSocketFails ==
    /\ SettingUp
    /\ todo # << >>
    /\ bound[Head(todo)] = NoPort
    /\ transport' = IF Head(todo) = "event"
                    THEN [transport EXCEPT !["event"] = NoPort] ELSE transport
    /\ Refused
    /\ setupFailed' = TRUE
    /\ cpc' = "idle"
    /\ todo' = << >>
    /\ UNCHANGED <<flags, bound, listening, media, jitter, wpc, tornDown>>

EndSetupTransport ==
    /\ cpc = "setupTransport"
    /\ todo = << >>
    /\ Answer([s \in Receiver |-> transport[s]])
    /\ cpc' = "idle"
    /\ UNCHANGED <<flags, sockets, media, jitter, todo, wpc, history>>

\* The PTP answer holds the host by which the sender reached the receiver, or
\* "127.0.0.1", with the length in four bits: fifteen means "longer".
HostFits(length) == (IF length = 0 THEN 9 ELSE length) < 15

\* With all sockets open the ports are stored and the event port answered.  A
\* host that does not fit throws, and nothing up to the thread's start catches.
EndSetupInfo ==
    /\ cpc \in {"setupPtp", "setupNtp"}
    /\ todo = << >>
    /\ transport' = [transport EXCEPT
                        !["data"] = bound["data"],
                        !["control"] = bound["control"],
                        !["timing"] = IF cpc = "setupPtp" THEN NoPort
                                      ELSE bound["timing"]]
    /\ \E length \in HostLength :
          IF cpc = "setupPtp" /\ ~HostFits(length)
          THEN cpc' = "terminated" /\ UNCHANGED reply
          ELSE /\ cpc' = "idle"
               /\ Answer(IF cpc = "setupPtp"
                         THEN [s \in {"event"} |-> transport[s]]
                         ELSE [s \in {"event", "timing"} |-> bound[s]])
    /\ UNCHANGED <<flags, bound, listening, media, jitter, todo, wpc, history>>

-----------------------------------------------------------------------------
\* SETUP and RECORD in a state that does not allow them.
Refuse ==
    /\ cpc = "idle"
    /\ ~(configured /\ bound["data"] # NoPort)
    /\ Refused
    /\ UNCHANGED <<flags, sockets, media, jitter, control, wpc, history>>

\* Faulty form: RECORD does not ask for an open media receiver.
CanRecordConfigured == configured

CanRecord == configured /\ bound["data"] # NoPort

Record ==
    /\ cpc = "idle"
    /\ CanRecord
    /\ recording' = TRUE
    /\ Accepted
    /\ UNCHANGED <<configured, setupInfo, sockets, media, jitter, control,
                   wpc, history>>

ClosedPipeline == IF pipeline = "none" THEN "none" ELSE "closed"

\* The worker is not stopped: it may be in the middle of a packet.
Pause ==
    /\ cpc = "idle"
    /\ recording' = FALSE
    /\ pipeline' = ClosedPipeline
    /\ Accepted
    /\ UNCHANGED <<configured, setupInfo, sockets, sdp, crypto, mediaHandler,
                   jitter, control, wpc, history>>

Flush ==
    /\ cpc = "idle"
    /\ jitter' = "fresh"
    /\ Accepted
    /\ UNCHANGED <<flags, sockets, media, control, wpc, history>>

\* OPTIONS, GET_PARAMETER, SET_PARAMETER and unknown methods.
Query ==
    /\ cpc = "idle"
    /\ Accepted \/ Refused
    /\ UNCHANGED <<flags, sockets, media, jitter, control, wpc, history>>

\* Whoever owns the session sets and clears the media packet handler between
\* requests; clearing it does not wait for the worker.
SetMediaPacketHandler ==
    /\ cpc = "idle"
    /\ mediaHandler = "none"
    /\ mediaHandler' = "set"
    /\ tornDown' = FALSE
    /\ UNCHANGED <<flags, sockets, sdp, crypto, pipeline, jitter, control, wpc,
                   reply, setupFailed>>

ClearMediaPacketHandler ==
    /\ cpc = "idle"
    /\ mediaHandler = "set"
    /\ mediaHandler' = "none"
    /\ UNCHANGED <<flags, sockets, sdp, crypto, pipeline, jitter, control, wpc,
                   reply, history>>

\* Faulty form: the completed SETUP is not forgotten.
BeginTeardownKeepsSetup ==
    /\ cpc = "idle"
    /\ recording' = FALSE
    /\ mediaHandler' = "none"
    /\ cpc' = "join"
    /\ UNCHANGED <<configured, setupInfo, sockets, sdp, crypto, pipeline, jitter,
                   todo, wpc, reply, history>>

\* reset, first part: the flags and the media packet handler are cleared before
\* the worker is stopped, which may be about to call that handler.
BeginTeardown ==
    /\ cpc = "idle"
    /\ recording' = FALSE
    /\ configured' = FALSE
    /\ setupInfo' = FALSE
    /\ mediaHandler' = "none"
    /\ cpc' = "join"
    /\ UNCHANGED <<sockets, sdp, crypto, pipeline, jitter, todo, wpc, reply,
                   history>>

\* Faulty form: the handler is cleared without waiting for the worker.
JoinWorkerSkips ==
    /\ cpc = "join"
    /\ listening' = FALSE
    /\ cpc' = "release"
    /\ UNCHANGED <<flags, transport, bound, media, jitter, todo, wpc, reply,
                   history>>

\* clear_packet_handler comes back when the worker is between packets.
JoinWorker ==
    /\ cpc = "join"
    /\ wpc = "idle"
    /\ listening' = FALSE
    /\ cpc' = "release"
    /\ UNCHANGED <<flags, transport, bound, media, jitter, todo, wpc, reply,
                   history>>

\* Faulty forms: the transport is kept, the event channel is closed with the
\* receivers, the pipeline stays open.
ResetSocketsKeepsTransport ==
    /\ bound' = [NoPorts EXCEPT !["event"] = bound["event"]]
    /\ UNCHANGED transport
ResetSocketsAndEvents == bound' = NoPorts /\ transport' = NoPorts
ResetMediaKeepsPipeline ==
    /\ jitter' = "fresh"
    /\ sdp' = "none" /\ crypto' = FALSE
    /\ UNCHANGED <<pipeline, mediaHandler>>

ResetSockets ==
    /\ bound' = [NoPorts EXCEPT !["event"] = bound["event"]]
    /\ transport' = NoPorts
ResetMedia ==
    /\ jitter' = "fresh"
    /\ sdp' = "none" /\ crypto' = FALSE /\ pipeline' = ClosedPipeline
    /\ UNCHANGED mediaHandler

\* reset, last part: the receivers are closed and destroyed, everything else
\* is put back.  The event channel keeps listening.
Release ==
    /\ cpc = "release"
    /\ ResetSockets
    /\ ResetMedia
    /\ Accepted
    /\ cpc' = "idle"
    /\ setupFailed' = FALSE
    /\ tornDown' = TRUE
    /\ UNCHANGED <<flags, listening, todo, wpc>>

-----------------------------------------------------------------------------
\* The destructor, from where the event channel has been stopped (which waits for
\* the thread of its HttpServer: see StopReturns there).  The members go, the
\* pipeline, the media packet handler and the jitter buffer before the media
\* receiver, whose worker may still be at work: no TEARDOWN need come first.
\* What is destroyed is shown as empty, and the connection has had its answers.
BeginDestroy ==
    /\ cpc = "idle"
    /\ bound' = [bound EXCEPT !["event"] = NoPort]
    /\ transport' = NoPorts
    /\ pipeline' = "none" /\ mediaHandler' = "none" /\ jitter' = "fresh"
    /\ sdp' = "none" /\ crypto' = FALSE
    /\ reply' = NoReply /\ setupFailed' = FALSE
    /\ cpc' = "destroying"
    /\ UNCHANGED <<flags, listening, todo, wpc, tornDown>>

\* The media receiver tells its worker to stop and waits for it.
StopReceiver ==
    /\ cpc = "destroying"
    /\ listening' = FALSE
    /\ cpc' = "stopping"
    /\ UNCHANGED <<flags, transport, bound, media, jitter, todo, wpc, reply,
                   history>>

\* The session is gone, with its sockets.
EndDestroy ==
    /\ cpc = "stopping"
    /\ wpc = "idle"
    /\ bound' = NoPorts
    /\ recording' = FALSE
    /\ cpc' = "gone"
    /\ UNCHANGED <<configured, setupInfo, transport, listening, media, jitter, todo,
                   wpc, reply, history>>

\* An exception that nothing catches has ended the process.
Ended == cpc \in {"terminated", "crashed"}

\* Nothing is left to run: the session is destroyed, or the process has ended.
Gone == (cpc = "gone" \/ Ended) /\ UNCHANGED vars

-----------------------------------------------------------------------------
\* The worker: handle_media_packet returns at once unless recording.
TakePacket ==
    /\ wpc = "idle" /\ ~Ended
    /\ listening
    /\ recording
    /\ wpc' = "push"
    /\ UNCHANGED <<flags, sockets, media, jitter, control, reply, history>>

\* A fresh jitter buffer accepts any packet.
PushPacket ==
    /\ wpc = "push" /\ ~Ended
    /\ \/ jitter' = "started" /\ wpc' = "drain"
       \/ jitter = "started" /\ wpc' = "idle" /\ UNCHANGED jitter
    /\ UNCHANGED <<flags, sockets, media, control, reply, history>>

\* Faulty form: the next packet is taken without leaving handle_media_packet.
DrainPacketsLoops ==
    /\ wpc = "drain" /\ ~Ended
    /\ wpc' = "push"
    /\ UNCHANGED <<flags, sockets, media, jitter, control, reply, history>>

\* Every packet that is due goes to the pipeline, and to the media packet
\* handler if there is one; one packet stands for them.
DrainPackets ==
    /\ wpc = "drain" /\ ~Ended
    /\ \/ wpc' = "idle"
       \/ mediaHandler = "set" /\ wpc' = "call"
    /\ UNCHANGED <<flags, sockets, media, jitter, control, reply, history>>

\* The handler was there when it was tested.
CallMediaHandler ==
    /\ wpc = "call" /\ ~Ended
    /\ wpc' = "idle"
    /\ UNCHANGED <<flags, sockets, media, jitter, control, reply, history>>

\* What the worker uses has been cleared or destroyed under it: the handler it
\* is about to call, or the members of a session that goes.  That is undefined;
\* it may pass unnoticed (the actions above) or end the process.
WorkerCaught ==
    /\ ~Ended
    /\ \/ wpc = "call" /\ mediaHandler = "none"
       \/ wpc # "idle" /\ cpc \in {"destroying", "stopping"}
    /\ wpc' = "idle"
    /\ cpc' = "crashed" /\ todo' = << >>
    /\ UNCHANGED <<flags, sockets, media, jitter, reply, history>>

Request == \/ AnnounceRefused
           \/ \E described \in {"audio", "video"} : Announce(described)
           \/ \E ptp \in BOOLEAN : BeginSetupInfo(ptp)
           \/ SetupStream
           \/ BeginSetupTransport
           \/ Refuse
           \/ Record
           \/ Pause
           \/ Flush
           \/ Query
           \/ SetMediaPacketHandler
           \/ ClearMediaPacketHandler
           \/ BeginTeardown
           \/ BeginDestroy
           \/ Gone

Continue == \/ OpenSocket
            \/ OpenSocketFails
            \/ EndSetupTransport
            \/ EndSetupInfo
            \/ JoinWorker
            \/ Release
            \/ StopReceiver
            \/ EndDestroy

HandlePacket == PushPacket \/ DrainPackets \/ CallMediaHandler \/ WorkerCaught

Worker == TakePacket \/ HandlePacket

Next == Request \/ Continue \/ Worker

\* A handler that has begun runs on, and so does a packet in the worker.
Fairness == WF_vars(Continue) /\ WF_vars(HandlePacket)

Spec == Init /\ [][Next]_vars
FairSpec == Spec /\ Fairness

-----------------------------------------------------------------------------
\* Type invariant; a handler has sockets left to open only during a SETUP.
TypeOK ==
    /\ configured \in BOOLEAN /\ setupInfo \in BOOLEAN /\ recording \in BOOLEAN
    /\ transport \in [Socket -> Port \cup {NoPort}]
    /\ bound \in [Socket -> Port \cup {NoPort}]
    /\ listening \in BOOLEAN
    /\ sdp \in {"none", "audio", "video"}
    /\ crypto \in BOOLEAN
    /\ pipeline \in {"none", "closed", "open"}
    /\ jitter \in {"fresh", "started"}
    /\ cpc \in {"idle", "setupPtp", "setupNtp", "setupTransport", "join",
                "release", "destroying", "stopping", "gone", "terminated",
                "crashed"}
    /\ todo \in Seq(Socket)
    /\ todo # << >> => SettingUp
    /\ wpc \in {"idle", "push", "drain", "call"}
    /\ mediaHandler \in {"none", "set"}
    /\ setupFailed \in BOOLEAN /\ tornDown \in BOOLEAN

\* The transport the session reports (rtsp.h:58) never names a port other than
\* that of the socket it has open: not after a SETUP that failed half way, a
\* second SETUP, a TEARDOWN or a SETUP that follows one (rtsp.cpp:44,47,51).
TransportMatches ==
    \A s \in Socket : transport[s] # NoPort => transport[s] = bound[s]

\* While the worker is in handle_media_packet its media socket is open, and its
\* receiver has a handler until the destructor itself takes it away: no TEARDOWN
\* has gone past its wait, and no destructor has come back.  It is a claim about
\* the receiver only.  ANNOUNCE, PAUSE and FLUSH change the pipeline and the
\* jitter buffer under the worker, and a TEARDOWN clears the media packet handler
\* before it waits (rtsp.cpp:44,50,53,54,60, rtsp.h:96-103).
WorkerWithinReceiver ==
    wpc # "idle" => /\ bound["data"] # NoPort
                    /\ listening \/ cpc \in {"stopping", "crashed"}
                    /\ cpc \notin {"release", "gone"}

\* A session that records has a SETUP behind it and a media socket, whatever
\* failed in between (rtsp.cpp:52, against 44 and 51).
RecordingHasSocket == recording => configured /\ bound["data"] # NoPort

\* After a TEARDOWN, and until something is set up again, nothing of the old
\* stream is left, whatever other requests come: no worker, port, packet,
\* description, key, open sink or media packet handler (rtsp.cpp:44).
TornDownIsClean ==
    (tornDown /\ cpc = "idle") =>
        /\ wpc = "idle" /\ ~listening
        /\ \A s \in Receiver : bound[s] = NoPort
        /\ transport = NoPorts
        /\ jitter = "fresh"
        /\ sdp = "none" /\ ~crypto
        /\ pipeline # "open" /\ mediaHandler = "none"
        /\ ~configured /\ ~recording

\* Every port the last accepted SETUP announced is that of an open socket, and
\* stays so until the next request is answered; only a SETUP that failed
\* before lets a later one announce port 0 (rtsp.cpp:51).
AnsweredPortsOpen ==
    (reply.accepted /\ cpc = "idle" /\ ~setupFailed) =>
        \A s \in DOMAIN reply.ports : /\ reply.ports[s] # NoPort
                                      /\ reply.ports[s] = bound[s]

\* The event channel, once open, keeps its port until the session goes: no
\* TEARDOWN, failed or repeated SETUP closes or moves it (rtsp.cpp:44,47,48).
EventChannelSurvives ==
    [][bound["event"] # NoPort /\ cpc' # "destroying"
         => bound'["event"] = bound["event"]]_bound

\* The receiver's address fits the compact plist of a PTP answer, as the check
\* in setup_ptp_response_plist demands of it (rtsp.cpp:23).
AddressFits == cpc # "terminated"

\* A handler that waits for the worker, or for a socket, comes back: the
\* request is answered or the session is gone, unless the worker was caught by
\* what was cleared under it (rtsp.cpp:43,44,51).  Of the destructor this is
\* said from BeginDestroy on: the event channel's thread is not part of it.  No
\* handler begins before the one before it has returned, so that it is enough to
\* say that the thread is idle, or the session gone, again and again.
HandlersReturn ==
    []<>(cpc \in {"idle", "gone", "crashed"})
=============================================================================
