--------------------------- MODULE MCAnnouncement ---------------------------
(***************************************************************************)
(* Announcement on bodies of three groups: an audio medium with one of     *)
(* many fmtp lines; media, versions and attributes in every order that     *)
(* matters to the parser; and keys and IVs in all their encodings.         *)
(***************************************************************************)
EXTENDS Announcement

\* Fmtp lines of one token, lines that set each field but one, and lines that
\* set each field and one of them again.  258 and 272 are 2 and 16 in a byte, 65552 is 16 in
\* sixteen bits.
Numbers == [sampleRate |-> {0, 44100}, channels |-> {0, 2, 258},
            bitDepth |-> {0, 16, 272, 65552}, frameLength |-> {0, 4096}]
Tokens(key) == {[key |-> key, number |-> n] : n \in Numbers[key]}
AnyToken == UNION {Tokens(key) : key \in DOMAIN Numbers}
               \cup {[key |-> "other", number |-> 0]}

Stereo == <<[key |-> "sampleRate", number |-> 44100],
            [key |-> "channels", number |-> 2],
            [key |-> "bitDepth", number |-> 16],
            [key |-> "frameLength", number |-> 4096]>>
Mono == [Stereo EXCEPT ![2].number = 1]
Incomplete == {RemoveAt(Stereo, i) : i \in DOMAIN Stereo}
Extended == {<<t>> \o Stereo : t \in AnyToken} \cup {Stereo \o <<t>> : t \in AnyToken}
Fmtp == Incomplete \cup Extended \cup {<<t>> : t \in AnyToken}

Version0 == [kind |-> "v", zero |-> TRUE]
Version1 == [kind |-> "v", zero |-> FALSE]
Name == [kind |-> "other"]
M(type) == [kind |-> "m", type |-> type]
A(key, data) == [kind |-> "a", key |-> key, data |-> data]

Playing == {<<Version0, Name, M("audio"), A("fmtp", tokens)>> : tokens \in Fmtp}

Shapes ==
    {<<Name>>, <<Version0>>, <<M("audio")>>, <<Version0, M("other")>>,
     <<Version0, Version1, M("audio")>>, <<Version1, M("video"), Version0>>,
     <<Version0, A("fmtp", Stereo), M("video"), M("audio"), A("rtpmap", << >>)>>,
     <<Version0, M("audio"), A("fmtp", Stereo), M("video"), A("fmtp", Mono)>>,
     <<Version0, M("audio"), A("fmtp", Stereo), A("fmtp", << >>)>>,
     <<Version0, M("video"), A("fmtp", Stereo)>>}

\* Sixteen bytes in base64; the same in hex, which is also the base64 of 24
\* others; 22 hex digits, which are 11 bytes or, in base64, 16; and no text.
Texts(name) ==
    {[base64 |-> [size |-> 16, of |-> name], hex |-> NoBytes],
     [base64 |-> [size |-> 24, of |-> "digits"], hex |-> [size |-> 16, of |-> name]],
     [base64 |-> [size |-> 16, of |-> "digits"], hex |-> [size |-> 11, of |-> name]],
     NoText}
Keyed == {<<Version0, M("audio"), A("rsaaeskey", key), A("aesiv", iv)>> :
             key \in Texts("key"), iv \in Texts("iv")}
         \cup {<<Version0, M("audio"), A("rsaaeskey", key), A("fmtp", Stereo),
                 A("aesiv", one), A("aesiv", two)>> :
                  key \in {t \in Texts("other") : t.hex = NoBytes},
                  one \in {t \in Texts("old") : t.hex.size = 16},
                  two \in Texts("iv")}

MCBody == Playing \cup Shapes \cup Keyed
=============================================================================
