---------------------------- MODULE MCAppleSink ----------------------------
(***************************************************************************)
(* AppleSink with rings of two and four samples, mono and stereo, and one  *)
(* format that open refuses.                                               *)
(***************************************************************************)
EXTENDS AppleSink

MCFormat == {[channels |-> 1, sample_rate |-> 1, bits_per_sample |-> 16],
             [channels |-> 2, sample_rate |-> 1, bits_per_sample |-> 16],
             [channels |-> 1, sample_rate |-> 2, bits_per_sample |-> 16],
             [channels |-> 2, sample_rate |-> 1, bits_per_sample |-> 24]}
=============================================================================
