---------------------------- MODULE Announcement ----------------------------
(***************************************************************************)
(* What an ANNOUNCE does to a session (src/rtsp.cpp:50, src/sdp.cpp,       *)
(* src/crypto.cpp, src/crypto_session.cpp, src/audio_pipeline.cpp): its    *)
(* body is parsed as SDP, the audio pipeline is set up from the fmtp line, *)
(* and the legacy key and IV are decoded and kept.  PAUSE and TEARDOWN     *)
(* undo parts of it.  RtspSession has the same handlers with the body      *)
(* reduced to "audio" or "video"; this module shows that to be right.      *)
(***************************************************************************)
EXTENDS AlacConfig

CONSTANTS
    Body              \* SDP bodies: sequences of lines

\* What a line holds is told by its kind and key.
ASSUME BodyAssumption ==
    \A body \in Body :
        /\ body \in Seq(Range(body))
        /\ \A line \in Range(body) :
              /\ line.kind = "v" => line.zero \in BOOLEAN
              /\ line.kind = "a" /\ line.key = "fmtp" => line.data \in Seq(Token)

VARIABLES
    configured,       \* configured_
    sdp,              \* sdp_
    crypto,           \* crypto_: whether it is configured, its key and IV
    pipeline,         \* alac_audio_pipeline_: "none", "closed" or "open"
    decoder,          \* the pipeline's decoder: configured, config, cookie
    cpc,              \* position of the HTTP thread in a TEARDOWN
    status,           \* the last answer
    announced,        \* history: the body of the last request, if an ANNOUNCE
    tornDown          \* history: no ANNOUNCE was accepted since a TEARDOWN

vars == <<configured, sdp, crypto, pipeline, decoder, cpc, status, announced,
          tornDown>>

-----------------------------------------------------------------------------
\* A line is [kind], "v" with whether it reads "v=0", "m" with the medium's
\* type, or "a" with key and data.  The data of fmtp is its sequence of tokens;
\* that of a key or an IV is what either decoder makes of the text.
NoBytes == [size |-> 0, of |-> "none"]
NoText == [base64 |-> NoBytes, hex |-> NoBytes]

NoSdp == [version |-> FALSE, media |-> << >>, fmtp |-> << >>,
          rsaaeskey |-> NoText, aesiv |-> NoText]

\* Faulty form: the first attribute of a key counts.
TakeLineFirst(parsed, line) ==
    CASE line.kind = "v" -> [parsed EXCEPT !.version = line.zero]
      [] line.kind = "m" -> [parsed EXCEPT !.media = Append(@, line.type)]
      [] line.kind = "a" /\ line.key \in DOMAIN parsed ->
            IF parsed[line.key] = NoSdp[line.key]
            THEN [parsed EXCEPT ![line.key] = line.data] ELSE parsed
      [] OTHER -> parsed

\* parse_sdp line by line.  What an rtpmap says of a medium is only logged.
TakeLine(parsed, line) ==
    CASE line.kind = "v" -> [parsed EXCEPT !.version = line.zero]
      [] line.kind = "m" -> [parsed EXCEPT !.media = Append(@, line.type)]
      [] line.kind = "a" /\ line.key \in {"fmtp", "rsaaeskey", "aesiv"} ->
            [parsed EXCEPT ![line.key] = line.data]
      [] OTHER -> parsed

ParseSdp(body) == FoldLeft(TakeLine, NoSdp, body)
Parses(parsed) == parsed.version /\ parsed.media # << >>
Has(parsed, type) == type \in Range(parsed.media)

\* What the parsers make of each body, as tables.  An fmtp line without a single
\* token gives no config.
Parsed == [body \in Body |-> ParseSdp(body)]
ConfigIn == [body \in Body |-> ParseAlacFmtp(Parsed[body].fmtp, EmptyConfig)]
PlayableSdp == {Parsed[body] : body \in {b \in Body : /\ Has(Parsed[b], "audio")
                                                     /\ ConfigIn[b].ok}}

\* A key is tried as base64 first, an IV as hex.  A text that neither decodes
\* ends the extraction, with the same result as no text: no valid parameters.
FirstDecoded(one, other) == IF one # NoBytes THEN one ELSE other
NoKeys == [configured |-> FALSE, key |-> NoBytes, iv |-> NoBytes]
Extract(parsed) ==
    [configured |-> TRUE,
     key |-> FirstDecoded(parsed.rsaaeskey.base64, parsed.rsaaeskey.hex),
     iv |-> FirstDecoded(parsed.aesiv.hex, parsed.aesiv.base64)]
ValidKeys(keys) == keys.key # NoBytes /\ keys.iv.size = 16

\* Faulty form: a part that is missing is taken from the keys of before.
ConfigureCryptoMerges(parsed) ==
    LET new == Extract(parsed)
        merged == [new EXCEPT !.iv = FirstDecoded(@, crypto.iv)]
    IN  crypto' = IF ValidKeys(merged) THEN merged ELSE crypto

\* CryptoSession::configure gets valid parameters only, so it never refuses.
ConfigureCrypto(parsed) ==
    crypto' = IF ValidKeys(Extract(parsed)) THEN Extract(parsed) ELSE crypto

-----------------------------------------------------------------------------
Init == /\ configured = FALSE
        /\ sdp = NoSdp
        /\ crypto = NoKeys
        /\ pipeline \in {"none", "closed"}
        /\ decoder = Idle
        /\ cpc = "idle"
        /\ status = 0
        /\ announced = << >>
        /\ tornDown = FALSE

\* AudioPipeline::configure: it refuses at once, or closes what was open and
\* then is stopped by the decoder, by the ALAC library or by the sink, or opens.
ConfigurePipeline(config) ==
    \/ /\ config.bit_depth # 16
       /\ status' = 415
       /\ UNCHANGED <<pipeline, decoder>>
    \/ /\ config.bit_depth = 16
       /\ status' = 415
       /\ pipeline' = "closed"
       /\ decoder' = Idle
    \/ /\ config.bit_depth = 16
       /\ Supported(config)
       /\ status' = 200
       /\ pipeline' = "open"
       /\ decoder' = [configured |-> TRUE, config |-> config,
                      cookie |-> MakeCookie(config)]

AnnounceRefused(body) ==
    LET parsed == Parsed[body] IN
    /\ cpc = "idle"
    /\ \/ ~Parses(parsed) /\ status' = 400
       \/ /\ Parses(parsed)
          /\ ~Has(parsed, "audio") /\ ~Has(parsed, "video")
          /\ status' = 415
    /\ announced' = body
    /\ UNCHANGED <<configured, sdp, crypto, pipeline, decoder, cpc, tornDown>>

\* The keys are looked at only when the pipeline has not refused.
Announce(body) ==
    LET parsed == Parsed[body] IN
    /\ cpc = "idle"
    /\ Parses(parsed)
    /\ Has(parsed, "audio") \/ Has(parsed, "video")
    /\ sdp' = parsed
    /\ configured' = TRUE
    /\ IF pipeline # "none" /\ parsed \in PlayableSdp
       THEN ConfigurePipeline(ConfigIn[body].config)
       ELSE status' = 200 /\ UNCHANGED <<pipeline, decoder>>
    /\ IF status' = 200 THEN ConfigureCrypto(parsed) ELSE UNCHANGED crypto
    /\ announced' = body
    /\ tornDown' = FALSE
    /\ UNCHANGED cpc

ResetPipeline == /\ pipeline' = IF pipeline = "none" THEN "none" ELSE "closed"
                 /\ decoder' = Idle

Pause == /\ cpc = "idle"
         /\ ResetPipeline
         /\ status' = 200
         /\ announced' = << >>
         /\ UNCHANGED <<configured, sdp, crypto, cpc, tornDown>>

\* TEARDOWN: the flag, then the wait for the media worker, then the rest.
BeginTeardown ==
    /\ cpc = "idle"
    /\ configured' = FALSE
    /\ cpc' = "join"
    /\ announced' = << >>
    /\ UNCHANGED <<sdp, crypto, pipeline, decoder, status, tornDown>>

JoinWorker ==
    /\ cpc = "join"
    /\ cpc' = "release"
    /\ UNCHANGED <<configured, sdp, crypto, pipeline, decoder, status, announced,
                   tornDown>>

\* Faulty form: the keys outlive the session's description.
ReleaseKeepsKeys ==
    /\ cpc = "release"
    /\ sdp' = NoSdp
    /\ ResetPipeline
    /\ status' = 200
    /\ cpc' = "idle"
    /\ tornDown' = TRUE
    /\ UNCHANGED <<configured, crypto, announced>>

Release ==
    /\ cpc = "release"
    /\ sdp' = NoSdp
    /\ crypto' = NoKeys
    /\ ResetPipeline
    /\ status' = 200
    /\ cpc' = "idle"
    /\ tornDown' = TRUE
    /\ UNCHANGED <<configured, announced>>

Next == \/ \E body \in Body : AnnounceRefused(body) \/ Announce(body)
        \/ Pause
        \/ BeginTeardown
        \/ JoinWorker
        \/ Release

Spec == Init /\ [][Next]_vars

-----------------------------------------------------------------------------
\* What a body says, without the order its lines are read in.
Lines(body, kind) == {i \in DOMAIN body : body[i].kind = kind}
Attributes(body, key) == {i \in Lines(body, "a") : body[i].key = key}
SaidIn(body, key) ==
    IF Attributes(body, key) = {} THEN NoSdp[key]
    ELSE body[Max(Attributes(body, key))].data
Media(body) == {body[i].type : i \in Lines(body, "m")}
Readable(body) == /\ Lines(body, "v") # {} /\ body[Max(Lines(body, "v"))].zero
                  /\ Lines(body, "m") # {}

\* An ANNOUNCE is refused exactly if its body names no version 0 or no medium
\* (400), or neither audio nor video (415), or if the pipeline refuses a config
\* that the body's fmtp line gives; and the session then has the description
\* of the last body that got so far, of each attribute the last, in whichever
\* medium it stands (sdp.cpp:61-94, rtsp.cpp:50).
SdpMeansWhatItSays ==
    announced # << >> =>
        LET readable == Readable(announced)
            playable == Media(announced) \cap {"audio", "video"} # {}
        IN  /\ status = 400 <=> ~readable
            /\ readable /\ ~playable => status = 415
            /\ readable /\ playable =>
                  /\ Range(sdp.media) = Media(announced)
                  /\ \A key \in {"fmtp", "rsaaeskey", "aesiv"} :
                        sdp[key] = SaidIn(announced, key)
            /\ (status = 415 /\ playable) =>
                  /\ "audio" \in Media(announced) /\ pipeline # "none"
                  /\ Valid(Described(sdp.fmtp, EmptyConfig))

\* The pipeline plays what the last accepted fmtp line says, unshortened: a
\* line whose numbers do not fit their fields, or that does not say enough,
\* leaves it as it was, and a stream is never opened on a part of a line
\* (alac_config.cpp:68-96, rtsp.cpp:50).
FmtpMeansWhatItSays ==
    [][decoder'.configured /\ decoder' # decoder =>
          /\ Fits(SaidIn(announced', "fmtp"))
          /\ Valid(decoder'.config)
          /\ decoder'.config = Described(SaidIn(announced', "fmtp"), EmptyConfig)
          /\ pipeline' = "open" /\ status' = 200]_decoder

\* The ALAC library is set up for the very stream the decoder's config names,
\* which sizes the output and labels the frames, whatever was announced in
\* between; an open pipeline has a decoder (alac_decoder.cpp:52-65, 67-96).
DecoderMatchesConfig ==
    /\ pipeline = "open" <=> decoder.configured
    /\ decoder.configured => AgreesWith(decoder.config, CookieSays(decoder.cookie))

\* Key and IV come in with one accepted ANNOUNCE, from its last rsaaeskey and
\* its last aesiv, the IV with sixteen bytes; nothing but another such pair or
\* a TEARDOWN changes them (crypto.cpp:54-76, crypto_session.cpp:5-21).
Readings(text) == {text.base64, text.hex} \ {NoBytes}
KeysOfOneAnnouncement ==
    [][\/ crypto' = NoKeys /\ cpc = "release"
       \/ /\ status' = 200
          /\ crypto'.key \in Readings(SaidIn(announced', "rsaaeskey"))
          /\ crypto'.iv \in Readings(SaidIn(announced', "aesiv"))
          /\ crypto'.iv.size = 16]_crypto

\* A session that only announces, pauses and tears down, seen as RtspSession
\* sees it.
Session == INSTANCE RtspSession WITH
    Port <- {"port"}, NoPort <- "none", HostLength <- {0},
    setupInfo <- FALSE, recording <- FALSE,
    transport <- [s \in {"data", "control", "timing", "event"} |-> "none"],
    bound <- [s \in {"data", "control", "timing", "event"} |-> "none"],
    listening <- FALSE, mediaHandler <- "none",
    sdp <- IF sdp.media = << >> THEN "none"
           ELSE IF sdp \in PlayableSdp THEN "audio" ELSE "video",
    crypto <- crypto.configured,
    jitter <- "fresh", todo <- << >>, wpc <- "idle", setupFailed <- FALSE,
    reply <- [accepted |-> status = 200, ports |-> << >>]

\* The bodies add nothing to the session that RtspSession does not allow.
ImplementsSession == Session!Spec
=============================================================================
