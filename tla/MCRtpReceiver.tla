--------------------------- MODULE MCRtpReceiver ---------------------------
(***************************************************************************)
(* RtpReceiver with datagram lengths on both sides of every comparison the *)
(* header checks make for the field values of RtpReceiver.cfg: a header of *)
(* 12 or 72 bytes, an extension of 4 or 12, a padding of 4 or 255.         *)
(***************************************************************************)
EXTENDS RtpReceiver

MCSize == {0, 11, 12, 15, 16, 19, 20, 23, 24, 28, 71, 72, 75, 76, 80, 83, 84, 88}
=============================================================================
