--------------------------- MODULE AudioPipeline ---------------------------
(***************************************************************************)
(* AudioPipeline and AlacAudioPipeline (src/audio_pipeline.cpp,            *)
(* src/alac_audio_pipeline.cpp) with their decoder and sink.  The RTP      *)
(* worker pushes packets; the RTSP thread configures and resets.  Neither  *)
(* takes a lock, so each access to the pipeline, the decoder or the sink   *)
(* is a step, and those of a push and of a configure or reset come in any  *)
(* order: TEARDOWN joins the worker before it resets the pipeline, PAUSE   *)
(* and ANNOUNCE do not (src/rtsp.cpp:44, 50, 53).  What a decode leaves of *)
(* a decoder that is reset under it is not modelled; only which format it  *)
(* gives the frame is.                                                     *)
(***************************************************************************)
CONSTANTS
    Format,       \* PCM formats a supported AlacConfig may ask for
    NoFormat

ASSUME FormatAssumption == NoFormat \notin Format

VARIABLES
    opened,       \* opened_
    format,       \* format_
    decoder,      \* the decoder's configured format, or NoFormat
    sink,         \* the format the sink is open for, or NoFormat
    cpc,          \* position of the RTSP thread
    asked,        \* the format configure was called with, or NoFormat
    wpc,          \* position of the RTP worker
    pcm,          \* format of the frame the worker has decoded
    overlapped    \* history: a configure or reset was under way in this push

pipelineVars == <<opened, format>>
controllerVars == <<cpc, asked>>
pushVars == <<wpc, pcm>>
workerVars == <<pushVars, overlapped>>
vars == <<pipelineVars, decoder, sink, controllerVars, workerVars>>

Init == /\ opened = FALSE
        /\ format = NoFormat
        /\ decoder = NoFormat
        /\ sink = NoFormat
        /\ cpc = "idle" /\ asked = NoFormat
        /\ wpc = "idle" /\ pcm = NoFormat /\ overlapped = FALSE

-----------------------------------------------------------------------------
\* The RTSP thread: configure is reset and three more steps.

CallReset == /\ cpc = "idle"
             /\ cpc' = "close"
             /\ overlapped' = (wpc # "idle")
             /\ UNCHANGED <<pipelineVars, decoder, sink, asked, pushVars>>

CallConfigure(f) == /\ cpc = "idle"
                    /\ cpc' = "close"
                    /\ asked' = f
                    /\ overlapped' = (wpc # "idle")
                    /\ UNCHANGED <<pipelineVars, decoder, sink, pushVars>>

\* configure returns before it touches anything: no decoder or sink, an
\* invalid configuration, or samples of other than 16 bits.
RejectConfigure == /\ cpc = "idle"
                   /\ UNCHANGED vars

\* if (sink_ && opened_) sink_->close()
CloseSink == /\ cpc = "close"
             /\ sink' = IF opened THEN NoFormat ELSE sink
             /\ cpc' = "resetDecoder"
             /\ UNCHANGED <<pipelineVars, decoder, asked, workerVars>>

ResetDecoder == /\ cpc = "resetDecoder"
                /\ decoder' = NoFormat
                /\ cpc' = "markClosed"
                /\ UNCHANGED <<pipelineVars, sink, asked, workerVars>>

MarkClosed == /\ cpc = "markClosed"
              /\ opened' = FALSE
              /\ cpc' = IF asked = NoFormat THEN "idle" ELSE "setUp"
              /\ UNCHANGED <<format, decoder, sink, asked, workerVars>>

\* decoder_->configure(config) accepts or refuses.
SetUpDecoder == /\ cpc = "setUp"
                /\ \/ decoder' = asked /\ cpc' = "open" /\ UNCHANGED asked
                   \/ UNCHANGED decoder /\ cpc' = "idle" /\ asked' = NoFormat
                /\ UNCHANGED <<pipelineVars, sink, workerVars>>

\* Faulty forms: the sink is opened with the previous format_; the decoder is
\* left configured when the sink fails.
OpenSinkStaleFormat ==
    /\ cpc = "open"
    /\ cpc' = "markOpen"
    /\ sink' = format
    /\ UNCHANGED <<decoder, asked, pipelineVars, workerVars>>

OpenSinkKeepsDecoder ==
    /\ cpc = "open"
    /\ \/ sink' = asked /\ cpc' = "markOpen" /\ UNCHANGED asked
       \/ cpc' = "idle" /\ asked' = NoFormat /\ UNCHANGED sink
    /\ UNCHANGED <<decoder, pipelineVars, workerVars>>

\* sink_->open(format) succeeds, or the decoder is reset again.
OpenSink == /\ cpc = "open"
            /\ \/ sink' = asked /\ cpc' = "markOpen" /\ UNCHANGED <<decoder, asked>>
               \/ /\ decoder' = NoFormat
                  /\ cpc' = "idle"
                  /\ asked' = NoFormat
                  /\ UNCHANGED sink
            /\ UNCHANGED <<pipelineVars, workerVars>>

MarkOpen == /\ cpc = "markOpen"
            /\ format' = asked
            /\ opened' = TRUE
            /\ cpc' = "idle"
            /\ asked' = NoFormat
            /\ UNCHANGED <<decoder, sink, workerVars>>

Controller == \/ CallReset
              \/ \E f \in Format : CallConfigure(f)
              \/ RejectConfigure
              \/ CloseSink
              \/ ResetDecoder
              \/ MarkClosed
              \/ SetUpDecoder
              \/ OpenSink
              \/ MarkOpen

-----------------------------------------------------------------------------
\* The RTP worker: push of a packet that carries a payload.

CheckOpened == /\ wpc = "idle"
               /\ overlapped' = (cpc # "idle")
               /\ wpc' = IF opened THEN "decode" ELSE "idle"
               /\ UNCHANGED <<pipelineVars, decoder, sink, controllerVars, pcm>>

\* decode returns false at once unless the decoder is configured.
BeginDecode == /\ wpc = "decode"
               /\ wpc' = IF decoder # NoFormat THEN "decoding" ELSE "idle"
               /\ UNCHANGED <<pipelineVars, decoder, sink, controllerVars, pcm,
                               overlapped>>

\* The frame takes its format from the decoder's configuration at its end;
\* the packet may also turn out not to be decodable.
EndDecode == /\ wpc = "decoding"
             /\ \/ pcm' = decoder /\ wpc' = "compare"
                \/ pcm' = NoFormat /\ wpc' = "idle"
             /\ UNCHANGED <<pipelineVars, decoder, sink, controllerVars,
                            overlapped>>

\* The frame must have the format the pipeline was opened with.
CompareFormat == /\ wpc = "compare"
                 /\ IF pcm = format
                    THEN wpc' = "write" /\ UNCHANGED pcm
                    ELSE wpc' = "idle" /\ pcm' = NoFormat
                 /\ UNCHANGED <<pipelineVars, decoder, sink, controllerVars,
                                overlapped>>

WriteSink == /\ wpc = "write"
             /\ wpc' = "idle"
             /\ pcm' = NoFormat
             /\ UNCHANGED <<pipelineVars, decoder, sink, controllerVars,
                            overlapped>>

Worker == \/ CheckOpened
          \/ BeginDecode
          \/ EndDecode
          \/ CompareFormat
          \/ WriteSink

Next == Controller \/ Worker

Spec == Init /\ [][Next]_vars

-----------------------------------------------------------------------------
\* The pipeline writes to its sink only while the sink is open, which the
\* sink of the tests asserts (tests/core_tests.cpp:116).
WriteOnlyWhenOpen == wpc = "write" => sink # NoFormat

\* A push that no configure or reset overlaps writes its samples to a sink that
\* is open for their format, whatever steps of those calls failed before it and
\* whichever pushes they did overlap (lines 17-31, 39-48).
WrittenInSinkFormat ==
    wpc = "write" /\ ~overlapped => sink # NoFormat /\ pcm = sink

\* Between calls pipeline, decoder and sink agree: all open for one format or
\* all closed, whichever step of an earlier configure failed and wherever in a
\* push the worker is (lines 17-31).
AllOpenTogether ==
    cpc = "idle" => IF opened
                    THEN format # NoFormat /\ decoder = format /\ sink = format
                    ELSE decoder = NoFormat /\ sink = NoFormat
=============================================================================
