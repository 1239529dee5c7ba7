----------------------------- MODULE AlacConfig -----------------------------
(***************************************************************************)
(* AlacConfig, its fmtp parser and what the software decoder makes of a    *)
(* config (src/alac_config.cpp, src/alac_decoder.cpp).  A config is filled *)
(* from the tokens of an SDP fmtp line (module Announcement); the decoder  *)
(* passes a cookie that it makes of it to the ALAC library.                *)
(***************************************************************************)
EXTENDS Naturals, SequencesExt

EmptyConfig ==
    [frame_length |-> 0, compatible_version |-> 0, pb |-> 0, mb |-> 0, kb |-> 0,
     num_channels |-> 0, max_run |-> 0, max_frame_bytes |-> 0,
     avg_bit_rate |-> 0, sample_rate |-> 0, bit_depth |-> 0,
     codec_data |-> << >>]

Idle == [configured |-> FALSE, config |-> EmptyConfig, cookie |-> << >>]

Valid(c) == \A f \in {"frame_length", "num_channels", "sample_rate", "bit_depth"} :
                c[f] # 0

-----------------------------------------------------------------------------
\* Big-endian fields of a cookie, at offsets that count from 0.
Be(data, at, width) ==
    FoldLeft(LAMBDA n, byte : 256 * n + byte, 0, SubSeq(data, at + 1, at + width))
Bytes(n, width) == [i \in 1..width |-> (n \div 256^(width - i)) % 256]

\* Faulty form: the layout that parse_alac_config reads.
MakeCookieAsRead(c) ==
    IF c.codec_data # << >> THEN c.codec_data
    ELSE Bytes(c.frame_length, 4)
         \o <<c.compatible_version, c.pb, c.mb, c.kb, c.num_channels>>
         \o Bytes(c.max_run, 2) \o Bytes(c.max_frame_bytes, 4)
         \o Bytes(c.avg_bit_rate, 4) \o Bytes(c.sample_rate, 4) \o <<0>>

\* The cookie the decoder is set up with: the one that was read, if any.
MakeCookie(c) ==
    IF c.codec_data # << >> THEN c.codec_data
    ELSE Bytes(c.frame_length, 4)
         \o <<c.compatible_version, c.bit_depth % 256, c.pb, c.mb, c.kb,
              c.num_channels>>
         \o Bytes(c.max_run, 2) \o Bytes(c.max_frame_bytes, 4)
         \o Bytes(c.avg_bit_rate, 4) \o Bytes(c.sample_rate, 4)

-----------------------------------------------------------------------------
\* parse_alac_fmtp.  A token without "=", with another key or with a number
\* that does not parse is skipped: its key is "other".
FieldOf == [sampleRate |-> "sample_rate", channels |-> "num_channels",
            bitDepth |-> "bit_depth", frameLength |-> "frame_length"]

\* A token's number is a 32-bit one.
Word == {n \in Nat : n \div 2^16 < 2^16}
Token == [key : DOMAIN FieldOf \cup {"other"}, number : Word]

\* Faulty form: the number of channels is cut to a byte without a check.
TooLargeDepthOnly(token) == token.key = "bitDepth" /\ token.number > 65535

TooLarge(token) == \/ token.key = "channels" /\ token.number > 255
                   \/ token.key = "bitDepth" /\ token.number > 65535

\* Numbers are at most 32 bits wide; two fields are narrower.
Cast(key, number) == CASE key = "channels" -> number % 256
                       [] key = "bitDepth" -> number % 65536
                       [] OTHER -> number

\* The first number too large ends the parse.
TakeToken(taken, token) ==
    IF taken.rejected \/ token.key = "other" THEN taken
    ELSE IF TooLarge(token) THEN [taken EXCEPT !.rejected = TRUE]
    ELSE [taken EXCEPT !.config[FieldOf[token.key]] = Cast(token.key, token.number)]

ParseAlacFmtp(tokens, result) ==
    LET taken == FoldLeft(TakeToken, [config |-> result, rejected |-> FALSE], tokens)
    IN  IF taken.rejected \/ ~Valid(taken.config)
        THEN [ok |-> FALSE, config |-> result]
        ELSE [ok |-> TRUE, config |-> taken.config]

\* What SoftwareAlacDecoder::configure takes, before it asks the library.
Supported(c) == /\ Valid(c)
                /\ c.bit_depth = 16
                /\ c.num_channels <= 8
                /\ c.frame_length <= 2^20

-----------------------------------------------------------------------------
\* What an fmtp line says, without the order its tokens are read in: of each
\* key the last number counts, and a field without one stays.
SaidOf(tokens, key, default) ==
    LET places == {i \in DOMAIN tokens : tokens[i].key = key}
    IN  IF places = {} THEN default ELSE tokens[Max(places)].number
Described(tokens, before) ==
    [before EXCEPT
        !.sample_rate  = SaidOf(tokens, "sampleRate", before.sample_rate),
        !.num_channels = SaidOf(tokens, "channels", before.num_channels),
        !.bit_depth    = SaidOf(tokens, "bitDepth", before.bit_depth),
        !.frame_length = SaidOf(tokens, "frameLength", before.frame_length)]

\* No number of the line is beyond the field it is stored in.
Fits(tokens) ==
    \A i \in DOMAIN tokens :
        /\ tokens[i].key = "channels" => tokens[i].number <= 255
        /\ tokens[i].key = "bitDepth" => tokens[i].number <= 65535

\* The fields of a magic cookie as an encoder writes them.
CookieSays(data) == [frame_length |-> Be(data, 0, 4), bit_depth |-> Be(data, 5, 1),
                     num_channels |-> Be(data, 9, 1), sample_rate |-> Be(data, 20, 4)]

AgreesWith(c, fields) == \A f \in DOMAIN fields : c[f] = fields[f]
=============================================================================
