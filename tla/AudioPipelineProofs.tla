------------------------ MODULE AudioPipelineProofs ------------------------
(***************************************************************************)
(* What AudioPipeline promises for every set of formats, however pushes    *)
(* and the calls of configure and reset are interleaved.  The properties   *)
(* speak of the worker about to write and of the RTSP thread between       *)
(* calls; the invariant follows the decoder and the sink through every     *)
(* step of a configure, which a push never changes, and the worker through *)
(* every step of a push that none of those calls overlaps.                 *)
(***************************************************************************)
EXTENDS AudioPipeline, TLAPS

\* At each point of configure and reset: what is open, and for which format.
ControllerKnows ==
    /\ cpc = "idle" => asked = NoFormat
    /\ cpc \in {"idle", "close"} =>
         IF opened THEN format # NoFormat /\ decoder = format /\ sink = format
                   ELSE decoder = NoFormat /\ sink = NoFormat
    /\ cpc \in {"resetDecoder", "markClosed"} => sink = NoFormat
    /\ cpc = "markClosed" => decoder = NoFormat
    /\ cpc \in {"setUp", "open", "markOpen"} => ~opened /\ asked \in Format
    /\ cpc = "setUp" => decoder = NoFormat /\ sink = NoFormat
    /\ cpc = "open" => decoder = asked /\ sink = NoFormat
    /\ cpc = "markOpen" => decoder = asked /\ sink = asked
    /\ asked \in Format \cup {NoFormat}
    /\ cpc \in {"idle", "close", "resetDecoder", "markClosed", "setUp", "open",
                "markOpen"}

\* At each point of a push that nothing overlaps: all is as when opened_ was read.
WorkerRelies ==
    /\ wpc # "idle" /\ ~overlapped => cpc = "idle" /\ opened
    /\ wpc = "write" /\ ~overlapped => pcm = format
    /\ wpc \in {"idle", "decode", "decoding", "compare", "write"}

IInv == {opened, overlapped} \subseteq BOOLEAN /\ ControllerKnows /\ WorkerRelies

THEOREM InitIInv == Init => IInv
BY DEF Init, IInv, ControllerKnows, WorkerRelies

\* Every step of configure and reset, whether it succeeds or not.
LEMMA ControllerStep ==
  ASSUME IInv, Controller
  PROVE  IInv'
<1> USE DEF IInv, ControllerKnows, WorkerRelies, pipelineVars, controllerVars,
            workerVars, pushVars
<1>1. CASE CallReset
  BY <1>1 DEF CallReset
<1>2. ASSUME NEW f \in Format, CallConfigure(f) PROVE IInv'
  BY <1>2 DEF CallConfigure
<1>3. CASE RejectConfigure
  BY <1>3 DEF RejectConfigure, vars
<1>4. CASE CloseSink
  BY <1>4 DEF CloseSink
<1>5. CASE ResetDecoder
  BY <1>5 DEF ResetDecoder
<1>6. CASE MarkClosed
  BY <1>6, FormatAssumption DEF MarkClosed
<1>7. CASE SetUpDecoder
  BY <1>7, FormatAssumption DEF SetUpDecoder
<1>8. CASE OpenSink
  BY <1>8, FormatAssumption DEF OpenSink
<1>9. CASE MarkOpen
  BY <1>9, FormatAssumption DEF MarkOpen
<1>10. QED
  BY Controller, <1>1, <1>2, <1>3, <1>4, <1>5, <1>6, <1>7, <1>8, <1>9
  DEF Controller

\* A push changes neither the pipeline nor what it drives.
LEMMA WorkerStep ==
  ASSUME IInv, Worker
  PROVE  IInv'
<1> USE DEF IInv, ControllerKnows, WorkerRelies, pipelineVars, controllerVars
<1>1. CASE CheckOpened
  BY <1>1 DEF CheckOpened
<1>2. CASE BeginDecode
  BY <1>2 DEF BeginDecode
<1>3. CASE EndDecode
  BY <1>3 DEF EndDecode
<1>4. CASE CompareFormat
  BY <1>4 DEF CompareFormat
<1>5. CASE WriteSink
  BY <1>5 DEF WriteSink
<1>6. QED
  BY Worker, <1>1, <1>2, <1>3, <1>4, <1>5 DEF Worker

THEOREM Invariance == Spec => []IInv
<1>1. IInv /\ UNCHANGED vars => IInv'
  BY DEF IInv, ControllerKnows, WorkerRelies, vars, pipelineVars, controllerVars,
         workerVars, pushVars
<1>2. IInv /\ [Next]_vars => IInv'
  BY <1>1, ControllerStep, WorkerStep DEF Next
<1>3. QED
  BY InitIInv, <1>2, PTL DEF Spec

\* The samples of a push that no configure or reset overlaps go to a sink that is
\* open for their format, also when pushes before it were overlapped.
THEOREM SinkGetsItsFormat == Spec => []WrittenInSinkFormat
<1>1. IInv => WrittenInSinkFormat
  BY DEF IInv, ControllerKnows, WorkerRelies, WrittenInSinkFormat
<1>2. QED
  BY <1>1, Invariance, PTL

\* Whichever step of a configure fails, pipeline, decoder and sink are left
\* all open for one format or all closed, wherever in a push the worker is.
THEOREM OpenTogether == Spec => []AllOpenTogether
<1>1. IInv => AllOpenTogether
  BY DEF IInv, ControllerKnows, AllOpenTogether
<1>2. QED
  BY <1>1, Invariance, PTL
=============================================================================
