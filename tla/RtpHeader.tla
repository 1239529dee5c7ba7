----------------------------- MODULE RtpHeader -----------------------------
(***************************************************************************)
(* RtpReceiver::receive after recvfrom (src/rtp.cpp:160-196): the checks   *)
(* that decide whether a datagram is an RTP packet and which of its bytes  *)
(* are the payload.  A datagram is what the checks read of it; offsets are *)
(* counted in bytes and subtracted as std::size_t, modulo SizeMod.  The    *)
(* module has no state: RtpReceiver runs these checks in its worker.       *)
(***************************************************************************)
EXTENDS Integers

CONSTANTS
    Size,        \* lengths recvfrom may return; 0 also stands for its failure
    Version,     \* buffer[0] >> 6
    CsrcCount,   \* buffer[0] & 0x0f
    WordCount,   \* the extension's length field
    LastByte,    \* buffer[received - 1]
    SizeMod      \* number of std::size_t values

ASSUME FieldAssumption == /\ Size \subseteq Nat
                          /\ Version \subseteq Nat
                          /\ CsrcCount \subseteq Nat
                          /\ WordCount \subseteq Nat
                          /\ LastByte \subseteq Nat
\* Header lengths and datagram lengths are far from the range of size_t.
ASSUME SizeModAssumption ==
    /\ SizeMod \in Nat
    /\ \A s \in Size : s < SizeMod
    /\ \A c \in CsrcCount, w \in WordCount : 16 + 4 * c + 4 * w < SizeMod

Datagram == [size : Size, version : Version, extension : BOOLEAN,
             csrc : CsrcCount, words : WordCount,
             padded : BOOLEAN, lastByte : LastByte]

NoDatagram == [size |-> 0]
NoPacket == [first |-> 0, last |-> 0]

Minus(a, b) == IF a >= b THEN a - b ELSE a - b + SizeMod

FixedHeader == 12
CsrcEnd(d) == FixedHeader + 4 * d.csrc
HeaderEnd(d) == CsrcEnd(d) + (IF d.extension THEN 4 + 4 * d.words ELSE 0)
Padding(d) == IF d.padded THEN d.lastByte ELSE 0

\* Faulty forms: a check that is missing.
NoExtensionHeadCheck(d) == TRUE
NoExtensionCheck(d) == TRUE

\* The checks in the order receive makes them.
HasFixedHeader(d) == d.size >= FixedHeader /\ d.version = 2
HasCsrcs(d) == CsrcEnd(d) <= d.size
HasExtensionHead(d) == d.extension => CsrcEnd(d) + 4 <= d.size
HasExtension(d) == d.extension => HeaderEnd(d) <= d.size
HasPadding(d) == Padding(d) <= Minus(d.size, HeaderEnd(d))

Accepts(d) == /\ HasFixedHeader(d)
              /\ HasCsrcs(d)
              /\ HasExtensionHead(d)
              /\ HasExtension(d)
              /\ HasPadding(d)

Payload(d) == [first |-> HeaderEnd(d), last |-> Minus(d.size, Padding(d))]

\* The bytes receive looks at before it accepts or rejects d.
BytesRead(d) ==
    (IF d.size >= FixedHeader THEN 0 .. FixedHeader - 1 ELSE {})
    \cup (IF HasFixedHeader(d) /\ HasCsrcs(d) /\ HasExtensionHead(d) /\ d.extension
          THEN {CsrcEnd(d) + 2, CsrcEnd(d) + 3} ELSE {})
    \cup (IF /\ HasFixedHeader(d) /\ HasCsrcs(d)
             /\ HasExtensionHead(d) /\ HasExtension(d) /\ d.padded
          THEN {d.size - 1} ELSE {})

\* The layout of an RTP packet: header, payload and padding, one after the
\* other, make up the datagram.
WellFormed(d) ==
    /\ d.version = 2
    /\ \E length \in 0 .. d.size : HeaderEnd(d) + length + Padding(d) = d.size
=============================================================================
