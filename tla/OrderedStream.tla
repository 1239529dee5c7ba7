--------------------------- MODULE OrderedStream ---------------------------
(***************************************************************************)
(* What a reordering buffer promises to the audio path that drains it:     *)
(* packets of one stream come out in stream order, none twice, and the     *)
(* stream position ("floor": the last index delivered or given up) only    *)
(* moves forward until the stream is restarted.  A packet is known here    *)
(* by its index in the sender's stream, never by a wrapped sequence        *)
(* number.                                                                 *)
(***************************************************************************)
EXTENDS Integers

CONSTANT Index

VARIABLES started, floor, pending

vars == <<started, floor, pending>>

Init == /\ started = FALSE
        /\ floor \in Int
        /\ pending = {}

\* The first packet fixes where the stream begins.
Start(i) == /\ ~started
            /\ started' = TRUE
            /\ floor' = i - 1
            /\ pending' = {i}

\* A packet that is not behind the stream position is kept once.
Accept(i) == /\ started
             /\ i > floor
             /\ i \notin pending
             /\ pending' = pending \cup {i}
             /\ UNCHANGED <<started, floor>>

\* Only the packet next in the stream is delivered.
Deliver == /\ started
           /\ floor + 1 \in pending
           /\ pending' = pending \ {floor + 1}
           /\ floor' = floor + 1
           /\ UNCHANGED started

\* For lack of room the stream gives up its gap together with the oldest
\* packet it holds, which may be the one that just arrived.
GiveUp(i) == /\ started
             /\ i > floor
             /\ i \notin pending
             /\ \E oldest \in pending \cup {i} :
                   /\ \A j \in pending \cup {i} : oldest <= j
                   /\ pending' = (pending \cup {i}) \ {oldest}
                   /\ floor' = oldest
             /\ UNCHANGED started

Restart == /\ started' = FALSE
           /\ pending' = {}
           /\ UNCHANGED floor

Next == \/ \E i \in Index : Start(i) \/ Accept(i) \/ GiveUp(i)
        \/ Deliver
        \/ Restart

Spec == Init /\ [][Next]_vars
=============================================================================
