---------------------------- MODULE SampleQueue ----------------------------
(***************************************************************************)
(* What an audio sink promises to the pipeline that writes and the device  *)
(* that plays: a bounded first-in first-out queue of samples.  A write is  *)
(* queued whole or refused; the device hears the samples in the order they *)
(* were written, each once, and silence when there are not enough; nothing *)
(* survives a close.                                                       *)
(***************************************************************************)
EXTENDS Naturals, Sequences, SequencesExt

CONSTANT Silence

VARIABLES queue, capacity, accepting, heard

vars == <<queue, capacity, accepting, heard>>

Init == /\ queue = << >>
        /\ capacity = 0
        /\ accepting = FALSE
        /\ heard = << >>

\* A write of all the samples by which the queue has grown.
Put == /\ accepting
       /\ IsStrictPrefix(queue, queue')
       /\ Len(queue') <= capacity
       /\ UNCHANGED <<capacity, accepting, heard>>

\* The device asks for a block of some length and hears it.
Take == LET taken == IF Len(heard') < Len(queue) THEN Len(heard') ELSE Len(queue)
        IN  /\ \A i \in 1 .. Len(heard') :
                  heard'[i] = IF i <= taken THEN queue[i] ELSE Silence
            /\ queue' = SubSeq(queue, taken + 1, Len(queue))
            /\ UNCHANGED <<capacity, accepting>>

Clear == /\ queue' = << >>
         /\ capacity' = 0
         /\ accepting' = FALSE
         /\ UNCHANGED heard

Resize == /\ ~accepting
          /\ queue = << >>
          /\ capacity' \in Nat
          /\ UNCHANGED <<queue, accepting, heard>>

Open == /\ ~accepting
        /\ queue = << >>
        /\ accepting' = TRUE
        /\ UNCHANGED <<queue, capacity, heard>>

Next == Put \/ Take \/ Clear \/ Resize \/ Open

Spec == Init /\ [][Next]_vars
=============================================================================
