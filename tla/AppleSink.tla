----------------------------- MODULE AppleSink -----------------------------
(***************************************************************************)
(* AppleAudioSink (src/apple_audio_sink.cpp): a ring buffer between the    *)
(* audio pipeline, which opens, writes and closes, and the render callback *)
(* on a thread of the audio unit.  The pipeline's calls come one at a      *)
(* time.  What a thread does under the mutex is one step; opened, format   *)
(* and the assignment of the ring are not under it.  The audio unit is     *)
(* modelled from its use: it calls back while it is started, one call at a *)
(* time, and stopping it waits for a call in progress.                     *)
(***************************************************************************)
EXTENDS Naturals, Sequences

CONSTANTS
    Format,       \* formats open is called with
    Sample,       \* samples the pipeline writes
    Silence,      \* the zero sample
    MaxWrite,     \* bound: frames in one write
    MaxRender     \* bound: frames in one request of the audio unit

ASSUME FormatAssumption ==
    Format \subseteq [channels : Nat, sample_rate : Nat, bits_per_sample : Nat]
ASSUME SampleAssumption == Silence \notin Sample
ASSUME BoundAssumption == MaxWrite \in Nat /\ MaxRender \in Nat

VARIABLES
    unit,         \* the audio unit: "none", "made" or "started"
    format,       \* format
    ring,         \* ring
    readPos,      \* read_pos
    writePos,     \* write_pos
    available,    \* available
    opened,       \* opened
    cpc,          \* position of the pipeline's thread in open or close
    asked,        \* the format open was called with, NoFormat in a close
    rpc,          \* position of the render callback
    requested,    \* samples it was asked for
    heard         \* the last block the device was given

positions == <<readPos, writePos, available>>
caller == <<cpc, asked>>
device == <<rpc, requested, heard>>
vars == <<unit, format, ring, positions, opened, caller, device>>

NoFormat == [channels |-> 0, sample_rate |-> 0, bits_per_sample |-> 0]

Init == /\ unit = "none"
        /\ format = NoFormat
        /\ ring = << >>
        /\ readPos = 0 /\ writePos = 0 /\ available = 0
        /\ opened = FALSE
        /\ cpc = "idle" /\ asked = NoFormat
        /\ rpc = "idle" /\ requested = 0 /\ heard = << >>

-----------------------------------------------------------------------------
\* The pipeline's thread.  open begins with close; so does a failed one end.

CallClose == /\ cpc = "idle"
             /\ cpc' = "stop"
             /\ UNCHANGED <<unit, format, ring, positions, opened, asked, device>>

CallOpen(f) == /\ cpc = "idle"
               /\ cpc' = "stop"
               /\ asked' = f
               /\ UNCHANGED <<unit, format, ring, positions, opened, device>>

\* Stop, uninitialize and dispose of the audio unit, if there is one.
StopUnit == /\ cpc = "stop"
            /\ rpc = "idle"
            /\ unit' = "none"
            /\ cpc' = "clear"
            /\ UNCHANGED <<format, ring, positions, opened, asked, device>>

\* Faulty form: the positions of the old ring are kept.
ClearRingOnly == /\ cpc = "clear"
                 /\ ring' = << >>
                 /\ available' = 0
                 /\ opened' = FALSE
                 /\ cpc' = IF asked = NoFormat THEN "idle" ELSE "opening"
                 /\ UNCHANGED <<unit, format, readPos, writePos, asked, device>>

\* The end of close, under the mutex.
Clear == /\ cpc = "clear"
         /\ ring' = << >>
         /\ readPos' = 0 /\ writePos' = 0 /\ available' = 0
         /\ opened' = FALSE
         /\ cpc' = IF asked = NoFormat THEN "idle" ELSE "opening"
         /\ UNCHANGED <<unit, format, asked, device>>

Acceptable(f) == /\ f.channels \in 1 .. 8
                 /\ f.sample_rate # 0
                 /\ f.bits_per_sample = 16

RefuseFormat == /\ cpc = "opening"
                /\ ~Acceptable(asked)
                /\ cpc' = "idle" /\ asked' = NoFormat
                /\ UNCHANGED <<unit, format, ring, positions, opened, device>>

\* The ring holds two seconds of silence.
MakeRing == /\ cpc = "opening"
            /\ Acceptable(asked)
            /\ format' = asked
            /\ ring' = [i \in 1 .. asked.sample_rate * asked.channels * 2
                            |-> Silence]
            /\ cpc' = "make"
            /\ UNCHANGED <<unit, positions, opened, asked, device>>

\* No audio unit to be had: the sink stays closed and keeps its ring.
MakeUnitFails == /\ cpc = "make"
                 /\ cpc' = "idle" /\ asked' = NoFormat
                 /\ UNCHANGED <<unit, format, ring, positions, opened, device>>

MakeUnit == /\ cpc = "make"
            /\ unit' = "made"
            /\ cpc' = "start"
            /\ UNCHANGED <<format, ring, positions, opened, asked, device>>

\* Setting the stream format or the callback, initializing or starting fails:
\* open closes what it has made and returns.
StartUnitFails == /\ cpc = "start"
                  /\ cpc' = "stop" /\ asked' = NoFormat
                  /\ UNCHANGED <<unit, format, ring, positions, opened, device>>

\* From here on the unit calls back.
StartUnit == /\ cpc = "start"
             /\ unit' = "started"
             /\ cpc' = "publish"
             /\ UNCHANGED <<format, ring, positions, opened, asked, device>>

MarkOpened == /\ cpc = "publish"
              /\ opened' = TRUE
              /\ cpc' = "idle" /\ asked' = NoFormat
              /\ UNCHANGED <<unit, format, ring, positions, device>>

-----------------------------------------------------------------------------
\* The sample at a position, counted from 0 and round the end of the ring.
RingAt(position) == ring[1 + (position % Len(ring))]

\* Faulty form: the room is that of an empty ring.
RoomWhenEmpty(count) == count <= Len(ring)

Room(count) == count <= Len(ring) - available

\* The ring with the samples stored from write_pos on, round its end.
Stored(samples) ==
    [i \in 1 .. Len(ring) |->
        LET offset == (i - 1 + Len(ring) - writePos) % Len(ring)
        IN  IF offset < Len(samples) THEN samples[offset + 1] ELSE ring[i]]

\* A write is stored whole, under the mutex.
Write(samples) ==
    /\ cpc = "idle"
    /\ opened
    /\ Room(Len(samples))
    /\ ring' = Stored(samples)
    /\ writePos' = (writePos + Len(samples)) % Len(ring)
    /\ available' = available + Len(samples)
    /\ UNCHANGED <<unit, format, readPos, opened, caller, device>>

\* A closed sink, or no room for all of it: write returns false.
WriteRefused(frames) ==
    /\ cpc = "idle"
    /\ ~opened \/ ~Room(frames * format.channels)
    /\ UNCHANGED vars

-----------------------------------------------------------------------------
\* The render callback.  The stream format the unit was given is interleaved,
\* so that it asks with one buffer, of the size of its request.
BeginRender(frames) ==
    /\ rpc = "idle"
    /\ unit = "started"
    /\ requested' = frames * format.channels
    /\ rpc' = "take"
    /\ UNCHANGED <<unit, format, ring, positions, opened, caller, heard>>

\* Under the mutex; a request that exceeds what is there is filled up with
\* silence.
EndRender ==
    LET take == IF requested < available THEN requested ELSE available
    IN  /\ rpc = "take"
        /\ heard' = [i \in 1 .. requested |->
                        IF i <= take THEN RingAt(readPos + i - 1) ELSE Silence]
        /\ readPos' = IF take = 0 THEN readPos ELSE (readPos + take) % Len(ring)
        /\ available' = available - take
        /\ rpc' = "idle" /\ requested' = 0
        /\ UNCHANGED <<unit, format, ring, writePos, opened, caller>>

-----------------------------------------------------------------------------
OpenOrClose == \/ CallClose
               \/ \E f \in Format : CallOpen(f)
               \/ StopUnit
               \/ Clear
               \/ RefuseFormat
               \/ MakeRing
               \/ MakeUnitFails
               \/ MakeUnit
               \/ StartUnitFails
               \/ StartUnit
               \/ MarkOpened

WriteCall == \E frames \in 1 .. MaxWrite :
                \/ \E samples \in [1 .. frames * format.channels -> Sample] :
                      Write(samples)
                \/ WriteRefused(frames)

Render == \/ \E frames \in 1 .. MaxRender : BeginRender(frames)
          \/ EndRender

Next == OpenOrClose \/ WriteCall \/ Render

Spec == Init /\ [][Next]_vars

-----------------------------------------------------------------------------
\* The ring is cut at frame boundaries: after every open and close, refused
\* write, partly filled request and turn of the ring, what is read next is the
\* first channel of a frame of the current format, and the positions differ by
\* exactly what is available (apple_audio_sink.cpp:43, 73, 134, 145).
WholeFrames ==
    ring # << >> =>
        /\ available <= Len(ring)
        /\ readPos < Len(ring)
        /\ readPos % format.channels = 0
        /\ available % format.channels = 0
        /\ writePos = (readPos + available) % Len(ring)

Queued == [i \in 1 .. available |-> RingAt(readPos + i - 1)]

Queue == INSTANCE SampleQueue
    WITH queue <- Queued, capacity <- Len(ring), accepting <- opened

\* Seen through the ring's positions, the sink is a bounded queue: samples are
\* heard once, in the order of the writes, and nothing written before a close
\* is heard after it (lines 39-46, 132-148).
ImplementsSampleQueue == Queue!Spec
=============================================================================
