------------------------- MODULE AnnouncementProofs -------------------------
(***************************************************************************)
(* What ANNOUNCE does with a body, for every set of bodies.  The parsers   *)
(* read a body, and its fmtp line, as what they say, whatever the order of *)
(* lines and tokens; keys and the decoder's set-up come whole from one     *)
(* accepted body; the cookie tells the ALAC library what the config says;  *)
(* and the handlers implement those of RtspSession, where a body is "audio" *)
(* or "video".                                                             *)
(*                                                                         *)
(* The parsers are folds over sequences.  A fold is turned into a function *)
(* of the number of elements taken, and what it computes is shown for the  *)
(* first k of them by induction on k: were it wrong for some k, it would be *)
(* wrong for a smallest one, as the natural numbers are well founded.      *)
(***************************************************************************)
EXTENDS Announcement, Integers, SequenceTheorems, WellFoundedInduction, TLAPS

-----------------------------------------------------------------------------
\* Induction over places.

\* The least-number principle, from the library's theorem that the natural numbers
\* are well founded: a set of counterexamples has a first one.
Less == {pair \in Nat \X Nat : pair[1] < pair[2]}

LEMMA Smallest ==
  ASSUME NEW T \in SUBSET Nat, T # {}
  PROVE  \E x \in T : \A y \in T : x <= y
<1>1. IsWellFoundedOn(Less, Nat)
  BY NatLessThanWellFounded DEF OpToRel, Less
<1>2. PICK x \in T : \A y \in T : ~ (<<y, x>> \in Less)
  BY <1>1, WFMin
<1>3. ASSUME NEW y \in T PROVE x <= y
  <2>1. x \in Nat /\ y \in Nat
    OBVIOUS
  <2>2. y < x => <<y, x>> \in Less
    BY <2>1 DEF Less
  <2>3. QED
    BY <1>2, <2>1, <2>2
<1>4. QED
  BY <1>3

\* The greatest of the first k numbers is k.
LEMMA LastOfFirst ==
  ASSUME NEW k \in Nat, NEW s \in SUBSET (1 .. k + 1), k + 1 \in s
  PROVE  Max(s) = k + 1
<1>1. k + 1 \in s /\ \A y \in s : k + 1 >= y
  OBVIOUS
<1>2. Max(s) \in s /\ \A y \in s : Max(s) >= y
  BY <1>1 DEF Max
<1>3. Max(s) \in Int /\ Max(s) <= k + 1 /\ Max(s) >= k + 1
  <2>1. \A y \in s : y \in Int /\ y <= k + 1
    OBVIOUS
  <2>2. QED
    BY <1>1, <1>2, <2>1
<1>4. QED
  BY <1>3

\* The first k of n places.
LEMMA FirstPlaces ==
  ASSUME NEW n \in Nat, NEW k \in 1 .. n
  PROVE  /\ 1 .. k \in SUBSET (1 .. n) /\ 1 .. k # {} /\ (1 .. k) \ {k} = 1 .. (k - 1)
         /\ Max(1 .. k) = k
<1>1. k \in Nat /\ k - 1 \in Nat /\ (k - 1) + 1 = k /\ 1 <= k /\ k <= n
  OBVIOUS
<1>2. 1 .. k \in SUBSET (1 .. n) /\ k \in 1 .. k
  BY <1>1
<1>3. \A i \in 1 .. k : i = k \/ i \in 1 .. (k - 1)
  BY <1>1
<1>4. \A i \in 1 .. (k - 1) : i \in 1 .. k /\ i # k
  BY <1>1
<1>5. Max(1 .. k) = k
  BY <1>1, <1>2, LastOfFirst
<1>6. QED
  BY <1>2, <1>3, <1>4, <1>5

\* A fold over places 1 .. n, written as the library's operator writes it.
Folds(g, n, base, step) ==
    \A s \in SUBSET (1 .. n) :
        g[s] = IF s = {} THEN base ELSE step[<<g[s \ {Max(s)}], Max(s)>>]

\* Induction over places, with the places where a claim holds as a set.
LEMMA Induction ==
  ASSUME NEW n \in Nat, NEW T, 0 \in T, \A k \in 1 .. n : k - 1 \in T => k \in T
  PROVE  \A k \in 0 .. n : k \in T
<1> DEFINE U == {k \in 0 .. n : k \notin T}
<1>1. SUFFICES ASSUME U # {} PROVE FALSE
  OBVIOUS
<1>2. PICK k \in U : \A j \in U : k <= j
  <2>1. U \in SUBSET Nat
    OBVIOUS
  <2> HIDE DEF U
  <2>2. QED
    BY <1>1, <2>1, Smallest
<1>3. k \in 0 .. n /\ k \notin T /\ k # 0
  OBVIOUS
<1>4. k - 1 \in 0 .. n /\ ~(k <= k - 1) /\ k \in 1 .. n
  BY <1>3
<1>5. k - 1 \in T
  BY <1>2, <1>4
<1>6. QED
  BY <1>3, <1>4, <1>5

LEMMA MaxWithin ==
  ASSUME NEW n \in Nat, NEW s \in SUBSET (1 .. n), s # {}
  PROVE  Max(s) \in s
<1> DEFINE T == {m \in Nat : n - m \in s}
<1>1. T \in SUBSET Nat /\ T # {}
  <2>1. PICK i \in s : TRUE
    OBVIOUS
  <2>2. i \in 1 .. n
    BY <2>1
  <2>3. n - i \in Nat /\ n - (n - i) = i
    BY <2>2
  <2>4. n - i \in T
    BY <2>1, <2>3
  <2>5. QED
    BY <2>4
<1>2. PICK x \in T : \A y \in T : x <= y
  <2> HIDE DEF T
  <2>1. QED
    BY <1>1, Smallest
<1>3. n - x \in s
  BY <1>2
<1>4. ASSUME NEW j \in s PROVE n - x >= j
  <2>1. j \in 1 .. n
    OBVIOUS
  <2>2. n - j \in Nat /\ n - (n - j) = j /\ x \in Nat
    BY <2>1
  <2>3. n - j \in T
    BY <2>2
  <2>4. x <= n - j
    BY <1>2, <2>3
  <2>5. QED
    BY <2>1, <2>2, <2>4
<1>5. QED
  BY <1>3, <1>4 DEF Max

LEMMA FoldExists ==
  ASSUME NEW n \in Nat, NEW S, NEW base \in S, NEW step \in [S \X (1 .. n) -> S]
  PROVE  \E g \in [SUBSET (1 .. n) -> S] : Folds(g, n, base, step)
<1> DEFINE Folded(k) == \E g \in [SUBSET (1 .. k) -> S] : Folds(g, k, base, step)
           T == {k \in 0 .. n : Folded(k)}
<1>1. Folded(0)
  <2> DEFINE g == [s \in SUBSET (1 .. 0) |-> base]
  <2>1. g \in [SUBSET (1 .. 0) -> S]
    OBVIOUS
  <2>2. \A s \in SUBSET (1 .. 0) : s = {}
    OBVIOUS
  <2>3. Folds(g, 0, base, step)
    BY <2>2 DEF Folds
  <2>4. QED
    BY <2>1, <2>3
<1>2. ASSUME NEW k \in 1 .. n, Folded(k - 1) PROVE Folded(k)
  <2>1. PICK g \in [SUBSET (1 .. (k - 1)) -> S] : Folds(g, k - 1, base, step)
    BY <1>2
  <2> DEFINE h == [s \in SUBSET (1 .. k) |->
                     IF k \in s THEN step[<<g[s \ {k}], k>>] ELSE g[s]]
  <2>2. ASSUME NEW s \in SUBSET (1 .. k)
        PROVE  h[s] \in S /\ h[s] = IF s = {} THEN base ELSE step[<<h[s \ {Max(s)}], Max(s)>>]
    <3>1. CASE k \in s
      <4>1. Max(s) = k
        <5>1. k - 1 \in Nat /\ (k - 1) + 1 = k
          OBVIOUS
        <5>2. QED
          BY <3>1, <5>1, LastOfFirst
      <4>2. s \ {k} \in SUBSET (1 .. (k - 1)) /\ s \ {k} \in SUBSET (1 .. k) /\ k \notin s \ {k}
        OBVIOUS
      <4>3. h[s \ {k}] = g[s \ {k}] /\ g[s \ {k}] \in S
        BY <4>2
      <4>4. h[s] = step[<<g[s \ {k}], k>>] /\ s # {}
        BY <3>1
      <4>5. step[<<g[s \ {k}], k>>] \in S
        BY <1>2, <4>3
      <4>6. QED
        BY <4>1, <4>3, <4>4, <4>5
    <3>2. CASE k \notin s
      <4>1. s \in SUBSET (1 .. (k - 1))
        BY <1>2, <3>2
      <4>2. h[s] = g[s] /\ g[s] \in S
        BY <3>2, <4>1
      <4>3. g[s] = IF s = {} THEN base ELSE step[<<g[s \ {Max(s)}], Max(s)>>]
        BY <2>1, <4>1 DEF Folds
      <4>4. ASSUME s # {} PROVE h[s \ {Max(s)}] = g[s \ {Max(s)}]
        <5>1. s \ {Max(s)} \in SUBSET (1 .. (k - 1)) /\ s \ {Max(s)} \in SUBSET (1 .. k)
              /\ k \notin s \ {Max(s)}
          BY <3>2, <4>1
        <5>2. QED
          BY <5>1
      <4>5. QED
        BY <4>2, <4>3, <4>4
    <3>3. QED
      BY <3>1, <3>2
  <2>3. h \in [SUBSET (1 .. k) -> S] /\ Folds(h, k, base, step)
    <3> HIDE DEF h
    <3>1. h \in [SUBSET (1 .. k) -> S]
      <4>1. DOMAIN h = SUBSET (1 .. k) /\ h = [s \in SUBSET (1 .. k) |-> h[s]]
        BY DEF h
      <4>2. QED
        BY <2>2, <4>1
    <3>2. QED
      BY <2>2, <3>1 DEF Folds
  <2>4. QED
    BY <2>3

<1> HIDE DEF Folded
<1>3. 0 \in T /\ \A k \in 1 .. n : k - 1 \in T => k \in T
  BY <1>1, <1>2
<1>4. \A k \in 0 .. n : k \in T
  <2> HIDE DEF T
  <2>1. QED
    BY <1>3, Induction
<1>5. n \in 0 .. n
  OBVIOUS
<1>6. Folded(n)
  BY <1>4, <1>5
<1>7. QED
  BY <1>6 DEF Folded

-----------------------------------------------------------------------------
\* parse_sdp.

\* What is known of a body.
LEMMA BodyFacts ==
  ASSUME NEW body \in Body
  PROVE  /\ Len(body) \in Nat /\ DOMAIN body = 1 .. Len(body)
         /\ \A i \in 1 .. Len(body) :
               /\ body[i] \in Range(body)
               /\ body[i].kind = "v" => body[i].zero \in BOOLEAN
               /\ body[i].kind = "a" /\ body[i].key = "fmtp" => body[i].data \in Seq(Token)
<1>1. body \in Seq(Range(body))
  BY BodyAssumption
<1>2. Len(body) \in Nat /\ DOMAIN body = 1 .. Len(body)
  <2> DEFINE S == Range(body)
  <2> HIDE DEF S
  <2>1. body \in Seq(S)
    BY <1>1 DEF S
  <2>2. QED
    BY <2>1
<1>3. \A i \in 1 .. Len(body) : body[i] \in Range(body)
  BY <1>2 DEF Range
<1>4. QED
  BY <1>2, <1>3, BodyAssumption

\* What may have been parsed of a body at some line.
Data(body) == {line.data : line \in Range(body)} \cup {<< >>, NoText}
Partial(body) ==
    [version : BOOLEAN, media : Seq({line.type : line \in Range(body)}),
     fmtp : Data(body), rsaaeskey : Data(body), aesiv : Data(body)]

LEMMA TakeLineType ==
  ASSUME NEW body \in Body, NEW parsed \in Partial(body), NEW i \in 1 .. Len(body)
  PROVE  TakeLine(parsed, body[i]) \in Partial(body)
<1>1. body[i] \in Range(body) /\ (body[i].kind = "v" => body[i].zero \in BOOLEAN)
  BY BodyFacts
<1>2. CASE body[i].kind = "v"
  BY <1>1, <1>2 DEF TakeLine, Partial
<1>3. CASE body[i].kind = "m"
  <2> DEFINE T == {line.type : line \in Range(body)}
  <2>1. body[i].type \in T
    BY <1>1
  <2> HIDE DEF T
  <2>2. Append(parsed.media, body[i].type) \in Seq(T)
    BY <2>1 DEF Partial, T
  <2>3. TakeLine(parsed, body[i]) = [parsed EXCEPT !.media = Append(@, body[i].type)]
    BY <1>3 DEF TakeLine
  <2>4. QED
    BY <2>2, <2>3 DEF Partial, T
<1>4. CASE body[i].kind = "a" /\ body[i].key \in {"fmtp", "rsaaeskey", "aesiv"}
  <2>1. body[i].data \in Data(body)
    BY <1>1 DEF Data
  <2>2. TakeLine(parsed, body[i]) = [parsed EXCEPT ![body[i].key] = body[i].data]
    BY <1>4 DEF TakeLine
  <2>3. QED
    BY <1>4, <2>1, <2>2 DEF Partial
<1>5. CASE /\ body[i].kind \notin {"v", "m"}
           /\ ~(body[i].kind = "a" /\ body[i].key \in {"fmtp", "rsaaeskey", "aesiv"})
  BY <1>5 DEF TakeLine
<1>6. QED
  BY <1>2, <1>3, <1>4, <1>5

\* parse_sdp takes one line after the other.
LEMMA SdpRun ==
  ASSUME NEW body \in Body
  PROVE  \E f \in [0 .. Len(body) -> Partial(body)] :
            /\ f[0] = NoSdp
            /\ \A k \in 1 .. Len(body) : f[k] = TakeLine(f[k - 1], body[k])
            /\ ParseSdp(body) = f[Len(body)]
<1> DEFINE n == Len(body)
           S == Partial(body)
           step == [p \in S \X (1 .. n) |-> TakeLine(p[1], body[p[2]])]
           Iterates(g) == g = [s \in SUBSET (1 .. n) |->
                                 IF s = {} THEN NoSdp
                                 ELSE TakeLine(g[s \ {Max(s)}], body[Max(s)])]
           it == CHOOSE g : Iterates(g)
           f == [k \in 0 .. n |-> it[1 .. k]]
<1>1. n \in Nat /\ DOMAIN body = 1 .. n
  BY BodyFacts
<1>2. NoSdp \in S
  BY DEF NoSdp, Partial, Data
<1>3. step \in [S \X (1 .. n) -> S]
  BY TakeLineType
<1>4. ParseSdp(body) = it[1 .. n]
  BY <1>1, Zenon DEF ParseSdp, FoldLeft, MapThenFoldSet
<1> HIDE DEF n, S
<1>5. \E g : Iterates(g)
  <2> HIDE DEF step
  <2>1. PICK g \in [SUBSET (1 .. n) -> S] : Folds(g, n, NoSdp, step)
    BY <1>1, <1>2, <1>3, FoldExists
  <2>2. ASSUME NEW s \in SUBSET (1 .. n)
        PROVE  g[s] = IF s = {} THEN NoSdp ELSE TakeLine(g[s \ {Max(s)}], body[Max(s)])
    <3>1. g[s] = IF s = {} THEN NoSdp ELSE step[<<g[s \ {Max(s)}], Max(s)>>]
      BY <2>1 DEF Folds
    <3>2. ASSUME s # {}
          PROVE  step[<<g[s \ {Max(s)}], Max(s)>>] = TakeLine(g[s \ {Max(s)}], body[Max(s)])
      <4>1. Max(s) \in 1 .. n
        BY <1>1, <3>2, MaxWithin
      <4>2. s \ {Max(s)} \in SUBSET (1 .. n)
        OBVIOUS
      <4>3. g[s \ {Max(s)}] \in S
        BY <4>2
      <4>4. QED
        BY <4>1, <4>3 DEF step
    <3>3. QED
      BY <3>1, <3>2
  <2>3. Iterates(g)
    BY <2>2
  <2>4. QED
    BY <2>3
<1>6. Iterates(it)
  <2> HIDE DEF Iterates
  <2>1. QED
    BY <1>5
<1> HIDE DEF it
<1>7. f[0] = NoSdp
  <2>1. 1 .. 0 = {} /\ 1 .. 0 \in SUBSET (1 .. n) /\ 0 \in 0 .. n
    BY <1>1
  <2>2. QED
    BY <1>6, <2>1
<1>8. ASSUME NEW k \in 1 .. n PROVE f[k] = TakeLine(f[k - 1], body[k])
  <2>1. /\ 1 .. k \in SUBSET (1 .. n) /\ 1 .. k # {} /\ (1 .. k) \ {k} = 1 .. (k - 1)
        /\ Max(1 .. k) = k
    BY <1>1, FirstPlaces
  <2>2. k \in 0 .. n /\ k - 1 \in 0 .. n
    BY <1>1
  <2>3. it[1 .. k] = TakeLine(it[1 .. (k - 1)], body[k])
    BY <1>6, <2>1
  <2>4. QED
    BY <2>2, <2>3
<1>9. f \in [0 .. n -> S]
  <2> DEFINE T == {k \in 0 .. n : f[k] \in S}
  <2> HIDE DEF f
  <2>1. 0 \in T /\ \A k \in 1 .. n : k - 1 \in T => k \in T
    BY <1>1, <1>2, <1>7, <1>8, TakeLineType DEF S, n
  <2>2. \A k \in 0 .. n : k \in T
    <3> HIDE DEF T
    <3>1. QED
      BY <1>1, <2>1, Induction
  <2>3. QED
    BY <2>2 DEF f
<1>10. ParseSdp(body) = f[n]
  BY <1>1, <1>4
<1>11. QED
  BY <1>7, <1>8, <1>9, <1>10 DEF n, S

\* The last of some places among the first k: k, or the last of those before.
LEMMA LastPlace ==
  ASSUME NEW k \in Nat \ {0}, NEW s \in SUBSET (1 .. k)
  PROVE  /\ k \in s => Max(s) = k
         /\ k \notin s => s \in SUBSET (1 .. (k - 1))
<1>1. k - 1 \in Nat /\ (k - 1) + 1 = k
  OBVIOUS
<1>2. k \in s => Max(s) = k
  BY <1>1, LastOfFirst
<1>3. k \notin s => s \in SUBSET (1 .. (k - 1))
  OBVIOUS
<1>4. QED
  BY <1>2, <1>3

\* What the first k lines of a body say.
Among(body, k, kind) == {i \in 1 .. k : body[i].kind = kind}
AttributesAmong(body, k, key) == {i \in Among(body, k, "a") : body[i].key = key}
SaysSoFar(parsed, body, k) ==
    /\ parsed.version <=> /\ Among(body, k, "v") # {}
                          /\ body[Max(Among(body, k, "v"))].zero
    /\ Range(parsed.media) = {body[i].type : i \in Among(body, k, "m")}
    /\ parsed.media = << >> <=> Among(body, k, "m") = {}
    /\ \A key \in {"fmtp", "rsaaeskey", "aesiv"} :
          parsed[key] = IF AttributesAmong(body, k, key) = {} THEN NoSdp[key]
                        ELSE body[Max(AttributesAmong(body, k, key))].data

LEMMA Appended ==
  ASSUME NEW S, NEW s \in Seq(S), NEW x \in S
  PROVE  Append(s, x) # << >> /\ Range(Append(s, x)) = Range(s) \cup {x}
<1>1. /\ Len(s) \in Nat /\ DOMAIN s = 1 .. Len(s) /\ DOMAIN Append(s, x) = 1 .. Len(s) + 1
      /\ \A i \in 1 .. Len(s) : Append(s, x)[i] = s[i]
      /\ Append(s, x)[Len(s) + 1] = x
  OBVIOUS
<1>2. Append(s, x) # << >>
  <2>1. 1 \in DOMAIN Append(s, x)
    BY <1>1
  <2>2. DOMAIN << >> = {}
    OBVIOUS
  <2>3. QED
    BY <2>1, <2>2
<1>3. Range(Append(s, x)) = Range(s) \cup {x}
  <2>1. 1 .. Len(s) + 1 = (1 .. Len(s)) \cup {Len(s) + 1}
    BY <1>1
  <2>2. QED
    BY <1>1, <2>1 DEF Range
<1>4. QED
  BY <1>2, <1>3

\* One more line.
LEMMA SaysOneMore ==
  ASSUME NEW body \in Body, NEW k \in 1 .. Len(body), NEW parsed \in Partial(body),
         SaysSoFar(parsed, body, k - 1)
  PROVE  SaysSoFar(TakeLine(parsed, body[k]), body, k)
<1> DEFINE line == body[k]
           new == TakeLine(parsed, line)
           At(kind) == Among(body, k, kind)
           Of(key) == AttributesAmong(body, k, key)
<1>1. /\ k \in Nat \ {0} /\ line \in Range(body) /\ k \in 1 .. k
      /\ line.kind = "v" => line.zero \in BOOLEAN
  BY BodyFacts
<1>2. ASSUME NEW kind
      PROVE  /\ line.kind = kind => At(kind) # {} /\ Max(At(kind)) = k
             /\ line.kind = kind => At(kind) = Among(body, k - 1, kind) \cup {k}
             /\ line.kind # kind => At(kind) = Among(body, k - 1, kind)
  <2>1. At(kind) \in SUBSET (1 .. k) /\ (k \in At(kind) <=> line.kind = kind)
    BY <1>1 DEF Among
  <2>2. \A i \in 1 .. k : i = k \/ i \in 1 .. (k - 1)
    BY <1>1
  <2>3. \A i \in 1 .. (k - 1) : i \in 1 .. k /\ i # k
    BY <1>1
  <2>4. line.kind = kind => At(kind) = Among(body, k - 1, kind) \cup {k}
    BY <1>1, <2>2, <2>3 DEF Among
  <2>5. line.kind # kind => At(kind) = Among(body, k - 1, kind)
    BY <2>2, <2>3 DEF Among
  <2>6. QED
    BY <1>1, <2>1, <2>4, <2>5, LastPlace
<1>3. ASSUME NEW key
      PROVE  /\ line.kind = "a" /\ line.key = key => Of(key) # {} /\ Max(Of(key)) = k
             /\ ~(line.kind = "a" /\ line.key = key) => Of(key) = AttributesAmong(body, k - 1, key)
  <2>1. Of(key) \in SUBSET (1 .. k) /\ (k \in Of(key) <=> line.kind = "a" /\ line.key = key)
    BY <1>1 DEF Among, AttributesAmong
  <2>2. \A i \in 1 .. k : i = k \/ i \in 1 .. (k - 1)
    BY <1>1
  <2>3. \A i \in 1 .. (k - 1) : i \in 1 .. k /\ i # k
    BY <1>1
  <2>4. ~(line.kind = "a" /\ line.key = key) => Of(key) = AttributesAmong(body, k - 1, key)
    BY <2>2, <2>3 DEF Among, AttributesAmong
  <2>5. QED
    BY <1>1, <2>1, <2>4, LastPlace
<1> HIDE DEF At, Of
<1>4. CASE line.kind = "v"
  <2>1. new = [parsed EXCEPT !.version = line.zero]
    BY <1>4 DEF TakeLine
  <2>2. /\ new.version = line.zero /\ new.media = parsed.media
        /\ \A key \in {"fmtp", "rsaaeskey", "aesiv"} : new[key] = parsed[key]
    BY <2>1 DEF Partial
  <2> HIDE DEF new
  <2>3. /\ At("v") # {} /\ body[Max(At("v"))] = line
        /\ At("m") = Among(body, k - 1, "m")
        /\ \A key : Of(key) = AttributesAmong(body, k - 1, key)
    BY <1>2, <1>3, <1>4
  <2>4. new.version <=> At("v") # {} /\ body[Max(At("v"))].zero
    BY <1>1, <1>4, <2>2, <2>3
  <2>5. /\ Range(new.media) = {body[i].type : i \in At("m")}
        /\ new.media = << >> <=> At("m") = {}
    BY <2>2, <2>3 DEF SaysSoFar
  <2>6. \A key \in {"fmtp", "rsaaeskey", "aesiv"} :
           new[key] = IF Of(key) = {} THEN NoSdp[key] ELSE body[Max(Of(key))].data
    BY <2>2, <2>3 DEF SaysSoFar
  <2>7. QED
    BY <2>4, <2>5, <2>6 DEF SaysSoFar, At, Of, new
<1>5. CASE line.kind = "m"
  <2> DEFINE T == {l.type : l \in Range(body)}
  <2>1. parsed.media \in Seq(T) /\ line.type \in T
    BY <1>1 DEF Partial
  <2> HIDE DEF T
  <2>2. new = [parsed EXCEPT !.media = Append(@, line.type)]
    BY <1>5 DEF TakeLine
  <2>3. /\ new.version = parsed.version /\ new.media = Append(parsed.media, line.type)
        /\ \A key \in {"fmtp", "rsaaeskey", "aesiv"} : new[key] = parsed[key]
    BY <2>2 DEF Partial
  <2> HIDE DEF new
  <2>4. new.media # << >> /\ Range(new.media) = Range(parsed.media) \cup {line.type}
    BY <2>1, <2>3, Appended
  <2>5. /\ At("v") = Among(body, k - 1, "v")
        /\ At("m") = Among(body, k - 1, "m") \cup {k}
        /\ \A key : Of(key) = AttributesAmong(body, k - 1, key)
    BY <1>2, <1>3, <1>5
  <2>6. {body[i].type : i \in At("m")}
          = {body[i].type : i \in Among(body, k - 1, "m")} \cup {line.type}
    BY <2>5
  <2>7. new.version <=> At("v") # {} /\ body[Max(At("v"))].zero
    BY <2>3, <2>5 DEF SaysSoFar
  <2>8. /\ Range(new.media) = {body[i].type : i \in At("m")}
        /\ new.media = << >> <=> At("m") = {}
    BY <2>4, <2>5, <2>6 DEF SaysSoFar
  <2>9. \A key \in {"fmtp", "rsaaeskey", "aesiv"} :
           new[key] = IF Of(key) = {} THEN NoSdp[key] ELSE body[Max(Of(key))].data
    BY <2>3, <2>5 DEF SaysSoFar
  <2>10. QED
    BY <2>7, <2>8, <2>9 DEF SaysSoFar, At, Of, new
<1>6. CASE line.kind = "a" /\ line.key \in {"fmtp", "rsaaeskey", "aesiv"}
  <2>1. new = [parsed EXCEPT ![line.key] = line.data]
    BY <1>6 DEF TakeLine
  <2>2. /\ new.version = parsed.version /\ new.media = parsed.media
        /\ \A key \in {"fmtp", "rsaaeskey", "aesiv"} :
              new[key] = IF key = line.key THEN line.data ELSE parsed[key]
    BY <1>6, <2>1 DEF Partial
  <2> HIDE DEF new
  <2>3. /\ At("v") = Among(body, k - 1, "v") /\ At("m") = Among(body, k - 1, "m")
        /\ Of(line.key) # {} /\ Max(Of(line.key)) = k
        /\ \A key : key # line.key => Of(key) = AttributesAmong(body, k - 1, key)
    BY <1>2, <1>3, <1>6
  <2>4. new.version <=> At("v") # {} /\ body[Max(At("v"))].zero
    BY <2>2, <2>3 DEF SaysSoFar
  <2>5. /\ Range(new.media) = {body[i].type : i \in At("m")}
        /\ new.media = << >> <=> At("m") = {}
    BY <2>2, <2>3 DEF SaysSoFar
  <2>6. \A key \in {"fmtp", "rsaaeskey", "aesiv"} :
           new[key] = IF Of(key) = {} THEN NoSdp[key] ELSE body[Max(Of(key))].data
    BY <2>2, <2>3 DEF SaysSoFar
  <2>7. QED
    BY <2>4, <2>5, <2>6 DEF SaysSoFar, At, Of, new
<1>7. CASE /\ line.kind \notin {"v", "m"}
           /\ ~(line.kind = "a" /\ line.key \in {"fmtp", "rsaaeskey", "aesiv"})
  <2>1. new = parsed
    BY <1>7 DEF TakeLine
  <2> HIDE DEF new
  <2>2. /\ At("v") = Among(body, k - 1, "v") /\ At("m") = Among(body, k - 1, "m")
        /\ \A key \in {"fmtp", "rsaaeskey", "aesiv"} :
              Of(key) = AttributesAmong(body, k - 1, key)
    BY <1>2, <1>3, <1>7
  <2>3. new.version <=> At("v") # {} /\ body[Max(At("v"))].zero
    BY <2>1, <2>2 DEF SaysSoFar
  <2>4. /\ Range(new.media) = {body[i].type : i \in At("m")}
        /\ new.media = << >> <=> At("m") = {}
    BY <2>1, <2>2 DEF SaysSoFar
  <2>5. \A key \in {"fmtp", "rsaaeskey", "aesiv"} :
           new[key] = IF Of(key) = {} THEN NoSdp[key] ELSE body[Max(Of(key))].data
    BY <2>1, <2>2 DEF SaysSoFar
  <2>6. QED
    BY <2>3, <2>4, <2>5 DEF SaysSoFar, At, Of, new
<1>8. QED
  BY <1>4, <1>5, <1>6, <1>7

\* parse_sdp reads a body as what it says, whatever the order of its lines.
THEOREM SdpIsRead ==
  ASSUME NEW body \in Body
  PROVE  /\ Parses(ParseSdp(body)) <=> Readable(body)
         /\ Range(ParseSdp(body).media) = Media(body)
         /\ \A key \in {"fmtp", "rsaaeskey", "aesiv"} : ParseSdp(body)[key] = SaidIn(body, key)
<1> DEFINE n == Len(body)
<1>1. n \in Nat /\ DOMAIN body = 1 .. n
  BY BodyFacts
<1>2. PICK f \in [0 .. n -> Partial(body)] :
            /\ f[0] = NoSdp
            /\ \A k \in 1 .. n : f[k] = TakeLine(f[k - 1], body[k])
            /\ ParseSdp(body) = f[n]
  BY SdpRun
<1> DEFINE T == {k \in 0 .. n : SaysSoFar(f[k], body, k)}
<1>3. 0 \in T
  <2>1. \A kind : Among(body, 0, kind) = {}
    BY DEF Among
  <2>2. \A key : AttributesAmong(body, 0, key) = {}
    BY <2>1 DEF AttributesAmong
  <2>3. NoSdp.version = FALSE /\ NoSdp.media = << >> /\ Range(<< >>) = {}
    BY DEF NoSdp, Range
  <2>4. SaysSoFar(NoSdp, body, 0)
    BY <2>1, <2>2, <2>3 DEF SaysSoFar
  <2>5. QED
    BY <1>1, <1>2, <2>4
<1>4. ASSUME NEW k \in 1 .. n, k - 1 \in T PROVE k \in T
  <2>1. k \in 0 .. n /\ f[k - 1] \in Partial(body)
    BY <1>1
  <2>2. QED
    BY <1>2, <1>4, <2>1, SaysOneMore
<1>5. SaysSoFar(ParseSdp(body), body, n)
  <2>1. n \in 0 .. n
    BY <1>1
  <2>2. n \in T
    <3> HIDE DEF T, n
    <3>1. QED
      BY <1>1, <1>3, <1>4, <2>1, Induction
  <2>3. QED
    BY <1>2, <2>2
<1>6. /\ \A kind : Among(body, n, kind) = Lines(body, kind)
      /\ \A key : AttributesAmong(body, n, key) = Attributes(body, key)
  BY <1>1 DEF Among, AttributesAmong, Lines, Attributes
<1> HIDE DEF n
<1>7. QED
  BY <1>5, <1>6 DEF SaysSoFar, Parses, Readable, Media, SaidIn

-----------------------------------------------------------------------------
\* parse_alac_fmtp.
Fields == {"frame_length", "compatible_version", "pb", "mb", "kb", "num_channels",
           "max_run", "max_frame_bytes", "avg_bit_rate", "sample_rate", "bit_depth",
           "codec_data"}
Taken == [config : [Fields -> Nat \cup {<< >>}], rejected : BOOLEAN]
Nothing == [config |-> EmptyConfig, rejected |-> FALSE]

LEMMA NothingTaken == Nothing \in Taken
<1>1. DOMAIN EmptyConfig = Fields /\ \A f \in Fields : EmptyConfig[f] \in Nat \cup {<< >>}
  BY DEF EmptyConfig, Fields
<1>2. EmptyConfig = [f \in Fields |-> EmptyConfig[f]]
  BY <1>1 DEF EmptyConfig
<1>3. EmptyConfig \in [Fields -> Nat \cup {<< >>}]
  BY <1>1, <1>2
<1>4. QED
  BY <1>3 DEF Nothing, Taken

\* The four keys and their fields.
LEMMA KeysAndFields ==
  /\ DOMAIN FieldOf = {"sampleRate", "channels", "bitDepth", "frameLength"}
  /\ FieldOf["sampleRate"] = "sample_rate" /\ FieldOf["channels"] = "num_channels"
  /\ FieldOf["bitDepth"] = "bit_depth" /\ FieldOf["frameLength"] = "frame_length"
  /\ \A key \in DOMAIN FieldOf : FieldOf[key] \in Fields
  /\ \A one, other \in DOMAIN FieldOf : FieldOf[one] = FieldOf[other] => one = other
BY DEF FieldOf, Fields

\* A number that is taken is stored whole.
LEMMA CastKeeps ==
  ASSUME NEW token \in Token, ~TooLarge(token)
  PROVE  Cast(token.key, token.number) = token.number /\ token.number \in Nat
<1>1. token.number \in Nat
  BY DEF Token, Word
<1>2. token.key = "channels" => token.number <= 255
  BY <1>1 DEF TooLarge
<1>3. token.key = "bitDepth" => token.number <= 65535
  BY <1>1 DEF TooLarge
<1>4. \A n \in Nat : n <= 255 => n % 256 = n
  OBVIOUS
<1>5. \A n \in Nat : n <= 65535 => n % 65536 = n
  OBVIOUS
<1>6. CASE token.key = "channels"
  BY <1>1, <1>2, <1>4, <1>6 DEF Cast
<1>7. CASE token.key = "bitDepth"
  BY <1>1, <1>3, <1>5, <1>7 DEF Cast
<1>8. CASE token.key # "channels" /\ token.key # "bitDepth"
  BY <1>1, <1>8 DEF Cast
<1>9. QED
  BY <1>6, <1>7, <1>8

\* What one token does.
LEMMA TokenTaken ==
  ASSUME NEW taken \in Taken, NEW token \in Token
  PROVE  LET new == TakeToken(taken, token)
         IN  /\ new \in Taken
             /\ new.rejected <=> taken.rejected \/ TooLarge(token)
             /\ token.key = "other" => new = taken
             /\ ~new.rejected /\ token.key # "other" =>
                   /\ token.key \in DOMAIN FieldOf
                   /\ \A f \in Fields :
                         new.config[f] = IF f = FieldOf[token.key] THEN token.number
                                         ELSE taken.config[f]
<1> DEFINE new == TakeToken(taken, token)
<1>1. /\ taken.config \in [Fields -> Nat \cup {<< >>}] /\ taken.rejected \in BOOLEAN
      /\ token.key \in DOMAIN FieldOf \cup {"other"} /\ token.number \in Nat
      /\ taken = [config |-> taken.config, rejected |-> taken.rejected]
  BY DEF Taken, Token, Word
<1>2. CASE taken.rejected
  BY <1>2, <1>1 DEF TakeToken
<1>3. CASE ~taken.rejected /\ token.key = "other"
  <2>1. ~TooLarge(token)
    BY <1>3 DEF TooLarge
  <2>2. QED
    BY <1>3, <2>1, <1>1 DEF TakeToken
<1>4. CASE ~taken.rejected /\ token.key # "other" /\ TooLarge(token)
  <2>1. new = [taken EXCEPT !.rejected = TRUE]
    BY <1>4 DEF TakeToken
  <2>2. QED
    BY <1>1, <1>4, <2>1 DEF Taken
<1>5. CASE ~taken.rejected /\ token.key # "other" /\ ~TooLarge(token)
  <2>1. new = [taken EXCEPT !.config[FieldOf[token.key]] = Cast(token.key, token.number)]
    BY <1>5 DEF TakeToken
  <2>2. Cast(token.key, token.number) = token.number
    BY <1>5, CastKeeps
  <2>3. token.key \in DOMAIN FieldOf /\ FieldOf[token.key] \in Fields
    BY <1>1, <1>5, KeysAndFields
  <2>4. /\ new.config = [taken.config EXCEPT ![FieldOf[token.key]] = token.number]
        /\ new.rejected = taken.rejected
        /\ new = [config |-> new.config, rejected |-> new.rejected]
    BY <1>1, <2>1, <2>2
  <2> HIDE DEF new
  <2>5. /\ new.config \in [Fields -> Nat \cup {<< >>}]
        /\ \A f \in Fields : new.config[f] = IF f = FieldOf[token.key] THEN token.number
                                             ELSE taken.config[f]
    BY <1>1, <2>3, <2>4
  <2>6. new \in Taken
    BY <1>1, <2>4, <2>5 DEF Taken
  <2>7. QED
    BY <1>5, <2>3, <2>4, <2>5, <2>6 DEF new
<1>6. QED
  BY <1>1, <1>2, <1>3, <1>4, <1>5

\* parse_alac_fmtp takes one token after the other.
LEMMA FmtpRun ==
  ASSUME NEW tokens \in Seq(Token)
  PROVE  \E f \in [0 .. Len(tokens) -> Taken] :
            /\ f[0] = Nothing
            /\ \A k \in 1 .. Len(tokens) : f[k] = TakeToken(f[k - 1], tokens[k])
            /\ ParseAlacFmtp(tokens, EmptyConfig) =
                  IF f[Len(tokens)].rejected \/ ~Valid(f[Len(tokens)].config)
                  THEN [ok |-> FALSE, config |-> EmptyConfig]
                  ELSE [ok |-> TRUE, config |-> f[Len(tokens)].config]
<1> DEFINE n == Len(tokens)
           step == [p \in Taken \X (1 .. n) |-> TakeToken(p[1], tokens[p[2]])]
           Iterates(g) == g = [s \in SUBSET (1 .. n) |->
                                 IF s = {} THEN Nothing
                                 ELSE TakeToken(g[s \ {Max(s)}], tokens[Max(s)])]
           it == CHOOSE g : Iterates(g)
           f == [k \in 0 .. n |-> it[1 .. k]]
           result(taken) == IF taken.rejected \/ ~Valid(taken.config)
                            THEN [ok |-> FALSE, config |-> EmptyConfig]
                            ELSE [ok |-> TRUE, config |-> taken.config]
<1>1. n \in Nat /\ DOMAIN tokens = 1 .. n /\ \A i \in 1 .. n : tokens[i] \in Token
  OBVIOUS
<1>2. Nothing \in Taken
  BY NothingTaken
<1>3. step \in [Taken \X (1 .. n) -> Taken]
  <2>1. \A taken \in Taken, i \in 1 .. n : TakeToken(taken, tokens[i]) \in Taken
    BY <1>1, TokenTaken
  <2>2. QED
    BY <2>1
<1>4. ParseAlacFmtp(tokens, EmptyConfig) = result(it[1 .. n])
  BY <1>1, Zenon DEF ParseAlacFmtp, FoldLeft, MapThenFoldSet, Nothing
<1> HIDE DEF n, result
<1>5. \E g : Iterates(g)
  <2> HIDE DEF step
  <2>1. PICK g \in [SUBSET (1 .. n) -> Taken] : Folds(g, n, Nothing, step)
    BY <1>1, <1>2, <1>3, FoldExists
  <2>2. ASSUME NEW s \in SUBSET (1 .. n)
        PROVE  g[s] = IF s = {} THEN Nothing ELSE TakeToken(g[s \ {Max(s)}], tokens[Max(s)])
    <3>1. g[s] = IF s = {} THEN Nothing ELSE step[<<g[s \ {Max(s)}], Max(s)>>]
      BY <2>1 DEF Folds
    <3>2. ASSUME s # {}
          PROVE  step[<<g[s \ {Max(s)}], Max(s)>>] = TakeToken(g[s \ {Max(s)}], tokens[Max(s)])
      <4>1. Max(s) \in 1 .. n
        BY <1>1, <3>2, MaxWithin
      <4>2. s \ {Max(s)} \in SUBSET (1 .. n)
        OBVIOUS
      <4>3. g[s \ {Max(s)}] \in Taken
        BY <4>2
      <4>4. QED
        BY <4>1, <4>3 DEF step
    <3>3. QED
      BY <3>1, <3>2
  <2>3. Iterates(g)
    BY <2>2
  <2>4. QED
    BY <2>3
<1>6. Iterates(it)
  <2> HIDE DEF Iterates
  <2>1. QED
    BY <1>5
<1> HIDE DEF it
<1>7. f[0] = Nothing
  <2>1. 1 .. 0 = {} /\ 1 .. 0 \in SUBSET (1 .. n) /\ 0 \in 0 .. n
    BY <1>1
  <2>2. QED
    BY <1>6, <2>1
<1>8. ASSUME NEW k \in 1 .. n PROVE f[k] = TakeToken(f[k - 1], tokens[k])
  <2>1. /\ 1 .. k \in SUBSET (1 .. n) /\ 1 .. k # {} /\ (1 .. k) \ {k} = 1 .. (k - 1)
        /\ Max(1 .. k) = k
    BY <1>1, FirstPlaces
  <2>2. k \in 0 .. n /\ k - 1 \in 0 .. n
    BY <1>1
  <2>3. it[1 .. k] = TakeToken(it[1 .. (k - 1)], tokens[k])
    BY <1>6, <2>1
  <2>4. QED
    BY <2>2, <2>3
<1>9. f \in [0 .. n -> Taken]
  <2> DEFINE T == {k \in 0 .. n : f[k] \in Taken}
  <2> HIDE DEF f
  <2>1. 0 \in T /\ \A k \in 1 .. n : k - 1 \in T => k \in T
    BY <1>1, <1>2, <1>7, <1>8, TokenTaken
  <2>2. \A k \in 0 .. n : k \in T
    <3> HIDE DEF T
    <3>1. QED
      BY <1>1, <2>1, Induction
  <2>3. QED
    BY <2>2 DEF f
<1>10. ParseAlacFmtp(tokens, EmptyConfig) = result(f[n])
  BY <1>1, <1>4
<1>11. QED
  BY <1>7, <1>8, <1>9, <1>10 DEF n, result

\* What the first k tokens say.
TokensAmong(tokens, k, key) == {i \in 1 .. k : tokens[i].key = key}
ReadSoFar(taken, tokens, k) ==
    /\ taken.rejected <=> \E i \in 1 .. k : TooLarge(tokens[i])
    /\ ~taken.rejected =>
          \A f \in Fields :
             /\ \A key \in DOMAIN FieldOf :
                   f = FieldOf[key] =>
                      taken.config[f] = IF TokensAmong(tokens, k, key) = {} THEN EmptyConfig[f]
                                        ELSE tokens[Max(TokensAmong(tokens, k, key))].number
             /\ (\A key \in DOMAIN FieldOf : f # FieldOf[key]) =>
                      taken.config[f] = EmptyConfig[f]

\* One more token.
LEMMA ReadOneMore ==
  ASSUME NEW tokens \in Seq(Token), NEW k \in 1 .. Len(tokens), NEW taken \in Taken,
         ReadSoFar(taken, tokens, k - 1)
  PROVE  ReadSoFar(TakeToken(taken, tokens[k]), tokens, k)
<1> DEFINE token == tokens[k]
           new == TakeToken(taken, token)
<1>1. /\ k \in Nat \ {0} /\ token \in Token /\ k \in 1 .. k
      /\ \A i \in 1 .. k : i = k \/ i \in 1 .. (k - 1)
      /\ \A i \in 1 .. (k - 1) : i \in 1 .. k /\ i # k
  OBVIOUS
<1>2. /\ new.rejected <=> taken.rejected \/ TooLarge(token)
      /\ token.key = "other" => new = taken
      /\ ~new.rejected /\ token.key # "other" =>
            /\ token.key \in DOMAIN FieldOf
            /\ \A f \in Fields :
                  new.config[f] = IF f = FieldOf[token.key] THEN token.number
                                  ELSE taken.config[f]
  BY <1>1, TokenTaken
<1> HIDE DEF new
<1>3. new.rejected <=> \E i \in 1 .. k : TooLarge(tokens[i])
  BY <1>1, <1>2 DEF ReadSoFar
<1>4. ASSUME NEW key
      PROVE  /\ token.key = key => /\ TokensAmong(tokens, k, key) # {}
                                   /\ Max(TokensAmong(tokens, k, key)) = k
             /\ token.key # key => TokensAmong(tokens, k, key) = TokensAmong(tokens, k - 1, key)
  <2>1. /\ TokensAmong(tokens, k, key) \in SUBSET (1 .. k)
        /\ k \in TokensAmong(tokens, k, key) <=> token.key = key
    BY <1>1 DEF TokensAmong
  <2>2. token.key # key => TokensAmong(tokens, k, key) = TokensAmong(tokens, k - 1, key)
    BY <1>1 DEF TokensAmong
  <2>3. QED
    BY <1>1, <2>1, <2>2, LastPlace
<1>5. ASSUME ~new.rejected, NEW f \in Fields, NEW key \in DOMAIN FieldOf, f = FieldOf[key]
      PROVE  new.config[f] = IF TokensAmong(tokens, k, key) = {} THEN EmptyConfig[f]
                             ELSE tokens[Max(TokensAmong(tokens, k, key))].number
  <2>1. ~taken.rejected
    BY <1>2, <1>5
  <2>2. taken.config[f] = IF TokensAmong(tokens, k - 1, key) = {} THEN EmptyConfig[f]
                          ELSE tokens[Max(TokensAmong(tokens, k - 1, key))].number
    BY <1>5, <2>1 DEF ReadSoFar
  <2>3. CASE token.key = key
    <3>1. token.key # "other"
      BY <1>5, <2>3, KeysAndFields
    <3>2. new.config[f] = token.number
      BY <1>2, <1>5, <2>3, <3>1
    <3>3. QED
      BY <1>4, <2>3, <3>2
  <2>4. CASE token.key # key
    <3>1. new.config[f] = taken.config[f]
      BY <1>2, <1>5, <2>4, KeysAndFields
    <3>2. QED
      BY <1>4, <2>2, <2>4, <3>1
  <2>5. QED
    BY <2>3, <2>4
<1>6. ASSUME ~new.rejected, NEW f \in Fields, \A key \in DOMAIN FieldOf : f # FieldOf[key]
      PROVE  new.config[f] = EmptyConfig[f]
  <2>1. ~taken.rejected
    BY <1>2, <1>6
  <2>2. taken.config[f] = EmptyConfig[f]
    BY <1>6, <2>1 DEF ReadSoFar
  <2>3. new.config[f] = taken.config[f]
    BY <1>2, <1>6
  <2>4. QED
    BY <2>2, <2>3
<1>7. QED
  BY <1>3, <1>5, <1>6 DEF ReadSoFar, new

\* parse_alac_fmtp takes a line exactly if its numbers fit and say enough, and
\* then as what it says, whatever the order of its tokens.
THEOREM FmtpIsRead ==
  ASSUME NEW tokens \in Seq(Token)
  PROVE  LET read == ParseAlacFmtp(tokens, EmptyConfig)
         IN  /\ read.ok <=> Fits(tokens) /\ Valid(Described(tokens, EmptyConfig))
             /\ read.ok => read.config = Described(tokens, EmptyConfig)
<1> DEFINE n == Len(tokens)
           said == Described(tokens, EmptyConfig)
<1>1. n \in Nat /\ DOMAIN tokens = 1 .. n /\ \A i \in 1 .. n : tokens[i] \in Token
  OBVIOUS
<1>2. PICK f \in [0 .. n -> Taken] :
            /\ f[0] = Nothing
            /\ \A k \in 1 .. n : f[k] = TakeToken(f[k - 1], tokens[k])
            /\ ParseAlacFmtp(tokens, EmptyConfig) =
                  IF f[n].rejected \/ ~Valid(f[n].config)
                  THEN [ok |-> FALSE, config |-> EmptyConfig]
                  ELSE [ok |-> TRUE, config |-> f[n].config]
  BY FmtpRun
<1> DEFINE T == {k \in 0 .. n : ReadSoFar(f[k], tokens, k)}
<1>3. 0 \in T
  <2>1. 1 .. 0 = {} /\ \A key : TokensAmong(tokens, 0, key) = {}
    BY DEF TokensAmong
  <2>2. Nothing.rejected = FALSE /\ Nothing.config = EmptyConfig
    BY DEF Nothing
  <2>3. ReadSoFar(Nothing, tokens, 0)
    BY <2>1, <2>2 DEF ReadSoFar
  <2>4. QED
    BY <1>1, <1>2, <2>3
<1>4. ASSUME NEW k \in 1 .. n, k - 1 \in T PROVE k \in T
  <2>1. k \in 0 .. n /\ f[k - 1] \in Taken
    BY <1>1
  <2>2. QED
    BY <1>2, <1>4, <2>1, ReadOneMore
<1>5. ReadSoFar(f[n], tokens, n) /\ f[n] \in Taken
  <2>1. n \in 0 .. n
    BY <1>1
  <2>2. n \in T
    <3> HIDE DEF T, n
    <3>1. QED
      BY <1>1, <1>3, <1>4, <2>1, Induction
  <2>3. QED
    BY <2>1, <2>2
<1> DEFINE taken == f[n]
<1>6. \A key : TokensAmong(tokens, n, key) = {i \in DOMAIN tokens : tokens[i].key = key}
  BY <1>1 DEF TokensAmong
<1> HIDE DEF n, T
<1>7. taken.rejected <=> ~Fits(tokens)
  <2>1. \A i \in 1 .. n : tokens[i].number \in Nat
    BY <1>1 DEF Token, Word
  <2>2. QED
    BY <1>1, <1>5, <2>1 DEF ReadSoFar, Fits, TooLarge
<1>8. ASSUME ~taken.rejected PROVE taken.config = said
  <2>1. \A key \in DOMAIN FieldOf :
           taken.config[FieldOf[key]] = SaidOf(tokens, key, EmptyConfig[FieldOf[key]])
    <3>1. SUFFICES ASSUME NEW key \in DOMAIN FieldOf
                   PROVE  taken.config[FieldOf[key]] =
                             SaidOf(tokens, key, EmptyConfig[FieldOf[key]])
      OBVIOUS
    <3>2. FieldOf[key] \in Fields
      BY KeysAndFields
    <3>3. taken.config[FieldOf[key]] =
             IF TokensAmong(tokens, n, key) = {} THEN EmptyConfig[FieldOf[key]]
             ELSE tokens[Max(TokensAmong(tokens, n, key))].number
      BY <1>5, <1>8, <3>2 DEF ReadSoFar
    <3>4. QED
      BY <1>6, <3>3 DEF SaidOf
  <2>2. \A g \in Fields \ {"sample_rate", "num_channels", "bit_depth", "frame_length"} :
           taken.config[g] = EmptyConfig[g]
    BY <1>5, <1>8, KeysAndFields DEF ReadSoFar
  <2>3. /\ taken.config.sample_rate = SaidOf(tokens, "sampleRate", EmptyConfig.sample_rate)
        /\ taken.config.num_channels = SaidOf(tokens, "channels", EmptyConfig.num_channels)
        /\ taken.config.bit_depth = SaidOf(tokens, "bitDepth", EmptyConfig.bit_depth)
        /\ taken.config.frame_length = SaidOf(tokens, "frameLength", EmptyConfig.frame_length)
    BY <2>1, KeysAndFields
  <2>4. EmptyConfig \in [Fields -> Nat \cup {<< >>}]
    BY NothingTaken DEF Nothing, Taken
  <2>5. /\ DOMAIN said = Fields
        /\ said = [g \in Fields |-> said[g]]
        /\ said.sample_rate = SaidOf(tokens, "sampleRate", EmptyConfig.sample_rate)
        /\ said.num_channels = SaidOf(tokens, "channels", EmptyConfig.num_channels)
        /\ said.bit_depth = SaidOf(tokens, "bitDepth", EmptyConfig.bit_depth)
        /\ said.frame_length = SaidOf(tokens, "frameLength", EmptyConfig.frame_length)
        /\ \A g \in Fields \ {"sample_rate", "num_channels", "bit_depth", "frame_length"} :
              said[g] = EmptyConfig[g]
    BY <2>4 DEF Described, Fields
  <2>6. taken.config = [g \in Fields |-> taken.config[g]]
    BY <1>5 DEF Taken
  <2> HIDE DEF said, taken
  <2>7. \A g \in Fields : taken.config[g] = said[g]
    BY <2>2, <2>3, <2>5
  <2>8. QED
    BY <2>5, <2>6, <2>7
<1>9. QED
  BY <1>2, <1>7, <1>8

-----------------------------------------------------------------------------
\* The session.

\* The decoder's set-up by a config that it and the pipeline take.
SetUpBy(config) == [configured |-> TRUE, config |-> config,
                    cookie |-> MakeCookie(config)]

\* Bodies whose fmtp line the session would play, and bodies with keys.
Playable == {body \in Body : Parsed[body] \in PlayableSdp}
Keyed == {body \in Body : ValidKeys(Extract(Parsed[body]))}

\* The decoder is set up whole from one accepted body, with a config that was
\* validated, exactly while the pipeline is open; a pipeline that refused or was
\* reset leaves no part of an earlier set-up (audio_pipeline.cpp:17-60).
DecoderOfOneBody ==
    \/ pipeline # "open" /\ decoder = Idle
    \/ /\ pipeline = "open"
       /\ \E body \in Playable :
             /\ Supported(ConfigIn[body].config)
             /\ decoder = SetUpBy(ConfigIn[body].config)

\* Key and IV come from one accepted body, never one from each of two, and the
\* key is there and the IV has sixteen bytes (crypto.cpp:54-76).
KeysOfOneBody ==
    \/ crypto = NoKeys
    \/ \E body \in Keyed : crypto = Extract(Parsed[body])

\* A session that describes no stream has neither keys nor a decoder set up: they
\* come with a description and go with it (rtsp.cpp:44, 50).
NothingUndescribed ==
    sdp.media = << >> => crypto = NoKeys /\ decoder = Idle

IInv == DecoderOfOneBody /\ KeysOfOneBody /\ NothingUndescribed

\* The keys change to those of the body that is just accepted, as a pair, or go
\* with a TEARDOWN; no refused request, PAUSE or pipeline failure touches them.
KeysFromAnnounced ==
    [][\/ crypto' = NoKeys /\ cpc = "release"
       \/ /\ status' = 200 /\ announced' \in Keyed
          /\ crypto' = Extract(Parsed[announced'])]_crypto

\* The decoder is set up only by the body that is just accepted, with its config.
DecoderFromAnnounced ==
    [][decoder'.configured =>
          /\ status' = 200 /\ announced' \in Playable
          /\ decoder' = SetUpBy(ConfigIn[announced'].config)]_decoder

-----------------------------------------------------------------------------
\* Each way the pipeline can take a config leaves it whole.
LEMMA PipelineWhole ==
  ASSUME NEW config, ConfigurePipeline(config)
  PROVE  \/ pipeline' = pipeline /\ decoder' = decoder /\ status' = 415
         \/ pipeline' = "closed" /\ decoder' = Idle /\ status' = 415
         \/ /\ Supported(config)
            /\ pipeline' = "open" /\ decoder' = SetUpBy(config) /\ status' = 200
BY DEF ConfigurePipeline, SetUpBy

\* What an accepted ANNOUNCE leaves of pipeline, decoder and keys.
LEMMA AnnounceWhole ==
  ASSUME NEW body \in Body, Announce(body)
  PROVE  /\ sdp' = Parsed[body] /\ sdp'.media # << >> /\ announced' = body
         /\ \/ UNCHANGED <<pipeline, decoder>>
            \/ pipeline' = "closed" /\ decoder' = Idle
            \/ /\ body \in Playable /\ Supported(ConfigIn[body].config)
               /\ pipeline' = "open" /\ status' = 200
               /\ decoder' = SetUpBy(ConfigIn[body].config)
         /\ \/ UNCHANGED crypto
            \/ /\ body \in Keyed /\ status' = 200
               /\ crypto' = Extract(Parsed[body])
<1>1. /\ sdp' = Parsed[body] /\ Parses(Parsed[body]) /\ announced' = body
      /\ IF pipeline # "none" /\ Parsed[body] \in PlayableSdp
           THEN ConfigurePipeline(ConfigIn[body].config)
           ELSE status' = 200 /\ UNCHANGED <<pipeline, decoder>>
      /\ IF status' = 200 THEN ConfigureCrypto(Parsed[body]) ELSE UNCHANGED crypto
  BY DEF Announce
<1>2. sdp'.media # << >>
  BY <1>1 DEF Parses
<1>3. \/ UNCHANGED <<pipeline, decoder>>
      \/ pipeline' = "closed" /\ decoder' = Idle
      \/ /\ body \in Playable /\ Supported(ConfigIn[body].config)
         /\ pipeline' = "open" /\ status' = 200
         /\ decoder' = SetUpBy(ConfigIn[body].config)
  <2>1. CASE pipeline # "none" /\ Parsed[body] \in PlayableSdp
    <3>1. ConfigurePipeline(ConfigIn[body].config) /\ body \in Playable
      BY <1>1, <2>1 DEF Playable
    <3>2. QED
      BY <3>1, PipelineWhole
  <2>2. CASE ~(pipeline # "none" /\ Parsed[body] \in PlayableSdp)
    BY <1>1, <2>2
  <2>3. QED
    BY <2>1, <2>2
<1>4. \/ UNCHANGED crypto
      \/ body \in Keyed /\ status' = 200 /\ crypto' = Extract(Parsed[body])
  BY <1>1 DEF ConfigureCrypto, Keyed
<1>5. QED
  BY <1>1, <1>2, <1>3, <1>4

\* A session begins with nothing described.
THEOREM InitIInv == Init => IInv
BY DEF Init, IInv, DecoderOfOneBody, KeysOfOneBody, NothingUndescribed, Idle

\* A reset leaves the pipeline closed and the decoder idle.
LEMMA ResetWhole == ResetPipeline => pipeline' # "open" /\ decoder' = Idle
BY DEF ResetPipeline

\* Every request keeps keys and decoder those of one body.
THEOREM NextIInv == IInv /\ [Next]_vars => IInv'
<1> SUFFICES ASSUME IInv, [Next]_vars PROVE IInv'
  OBVIOUS
<1> USE DEF IInv, DecoderOfOneBody, KeysOfOneBody, NothingUndescribed
<1>1. CASE \/ (\E body \in Body : AnnounceRefused(body)) \/ BeginTeardown
           \/ JoinWorker \/ UNCHANGED vars
  <2>1. UNCHANGED <<sdp, crypto, pipeline, decoder>>
    BY <1>1 DEF AnnounceRefused, BeginTeardown, JoinWorker, vars
  <2>2. QED
    BY <2>1
<1>2. ASSUME NEW body \in Body, Announce(body) PROVE IInv'
  <2>1. /\ sdp' = Parsed[body] /\ sdp'.media # << >>
        /\ \/ UNCHANGED <<pipeline, decoder>>
           \/ pipeline' = "closed" /\ decoder' = Idle
           \/ /\ body \in Playable /\ Supported(ConfigIn[body].config)
              /\ pipeline' = "open"
              /\ decoder' = SetUpBy(ConfigIn[body].config)
        /\ \/ UNCHANGED crypto
           \/ body \in Keyed /\ crypto' = Extract(Parsed[body])
    BY <1>2, AnnounceWhole
  <2>2. DecoderOfOneBody'
    BY <2>1
  <2>3. KeysOfOneBody'
    BY <2>1
  <2>4. QED
    BY <2>1, <2>2, <2>3
<1>3. CASE Pause
  <2>1. pipeline' # "open" /\ decoder' = Idle /\ UNCHANGED <<sdp, crypto>>
    BY <1>3, ResetWhole DEF Pause
  <2>2. QED
    BY <2>1
<1>4. CASE Release
  <2>1. pipeline' # "open" /\ decoder' = Idle /\ crypto' = NoKeys
    BY <1>4, ResetWhole DEF Release
  <2>2. QED
    BY <2>1
<1>5. QED
  BY <1>1, <1>2, <1>3, <1>4 DEF Next

THEOREM Invariance == Spec => []IInv
BY InitIInv, NextIInv, PTL DEF Spec

\* The decoder is set up whole from one accepted body, for any bodies in any order.
THEOREM DecoderWhole == Spec => []DecoderOfOneBody
<1>1. IInv => DecoderOfOneBody
  BY DEF IInv
<1>2. QED
  BY <1>1, Invariance, PTL

\* Key and IV are never of two bodies, for any bodies in any order.
THEOREM KeysWhole == Spec => []KeysOfOneBody
<1>1. IInv => KeysOfOneBody
  BY DEF IInv
<1>2. QED
  BY <1>1, Invariance, PTL

\* Only an accepted ANNOUNCE brings keys, and only a TEARDOWN takes them.
THEOREM KeysAreAnnounced == Spec => KeysFromAnnounced
<1>1. [Next]_vars =>
        [\/ crypto' = NoKeys /\ cpc = "release"
         \/ /\ status' = 200 /\ announced' \in Keyed
            /\ crypto' = Extract(Parsed[announced'])]_crypto
  <2> SUFFICES ASSUME [Next]_vars, crypto' # crypto
               PROVE  \/ crypto' = NoKeys /\ cpc = "release"
                      \/ /\ status' = 200 /\ announced' \in Keyed
                         /\ crypto' = Extract(Parsed[announced'])
    OBVIOUS
  <2>1. ASSUME NEW body \in Body, Announce(body)
        PROVE  /\ status' = 200 /\ announced' \in Keyed
               /\ crypto' = Extract(Parsed[announced'])
    BY <2>1, AnnounceWhole
  <2>2. CASE Release
    BY <2>2 DEF Release
  <2>3. QED
    BY <2>1, <2>2 DEF Next, AnnounceRefused, Pause, BeginTeardown, JoinWorker, vars
<1>2. QED
  BY <1>1, PTL DEF Spec, KeysFromAnnounced

\* Only an accepted ANNOUNCE sets the decoder up, with the config of its body.
THEOREM DecoderIsAnnounced == Spec => DecoderFromAnnounced
<1>1. [Next]_vars =>
        [decoder'.configured =>
            /\ status' = 200 /\ announced' \in Playable
            /\ decoder' = SetUpBy(ConfigIn[announced'].config)]_decoder
  <2> SUFFICES ASSUME [Next]_vars, decoder' # decoder, decoder'.configured
               PROVE  /\ status' = 200 /\ announced' \in Playable
                      /\ decoder' = SetUpBy(ConfigIn[announced'].config)
    OBVIOUS
  <2>1. decoder' # Idle
    BY DEF Idle
  <2>2. ASSUME NEW body \in Body, Announce(body)
        PROVE  /\ status' = 200 /\ announced' \in Playable
               /\ decoder' = SetUpBy(ConfigIn[announced'].config)
    BY <2>1, <2>2, AnnounceWhole
  <2>3. ~Pause /\ ~Release
    BY <2>1, ResetWhole DEF Pause, Release
  <2>4. QED
    BY <2>2, <2>3 DEF Next, AnnounceRefused, BeginTeardown, JoinWorker, vars
<1>2. QED
  BY <1>1, PTL DEF Spec, DecoderFromAnnounced

-----------------------------------------------------------------------------
\* What a body says, and what the session does with it.

\* The last answer, if it was to an ANNOUNCE, is that of the parsers and of the
\* pipeline to its body; a TEARDOWN under way has answered nothing yet.
LastAnnounced ==
    /\ cpc # "idle" => announced = << >>
    /\ announced # << >> =>
          /\ announced \in Body
          /\ LET parsed == Parsed[announced]
                 playable == Has(parsed, "audio") \/ Has(parsed, "video")
             IN  \/ ~Parses(parsed) /\ status = 400
                 \/ Parses(parsed) /\ ~playable /\ status = 415
                 \/ /\ Parses(parsed) /\ playable
                    /\ sdp = parsed
                    /\ status \in {200, 415}
                    /\ status = 415 => pipeline # "none" /\ parsed \in PlayableSdp

\* Each request leaves the answer that its body calls for.
THEOREM LastAnswer == Spec => []LastAnnounced
<1>1. Init => LastAnnounced
  BY DEF Init, LastAnnounced
<1>2. LastAnnounced /\ [Next]_vars => LastAnnounced'
  <2> SUFFICES ASSUME LastAnnounced, [Next]_vars PROVE LastAnnounced'
    OBVIOUS
  <2>1. ASSUME NEW body \in Body, AnnounceRefused(body) PROVE LastAnnounced'
    <3>1. /\ announced' = body /\ cpc' = "idle"
          /\ \/ ~Parses(Parsed[body]) /\ status' = 400
             \/ /\ Parses(Parsed[body]) /\ status' = 415
                /\ ~(Has(Parsed[body], "audio") \/ Has(Parsed[body], "video"))
      BY <2>1 DEF AnnounceRefused
    <3>2. QED
      BY <3>1 DEF LastAnnounced
  <2>2. ASSUME NEW body \in Body, Announce(body) PROVE LastAnnounced'
    <3>1. /\ announced' = body /\ cpc' = "idle" /\ sdp' = Parsed[body]
          /\ Parses(Parsed[body])
          /\ Has(Parsed[body], "audio") \/ Has(Parsed[body], "video")
          /\ IF pipeline # "none" /\ Parsed[body] \in PlayableSdp
               THEN ConfigurePipeline(ConfigIn[body].config)
               ELSE status' = 200 /\ UNCHANGED <<pipeline, decoder>>
      BY <2>2 DEF Announce
    <3>2. /\ status' \in {200, 415}
          /\ status' = 415 => pipeline' # "none" /\ Parsed[body] \in PlayableSdp
      <4>1. CASE pipeline # "none" /\ Parsed[body] \in PlayableSdp
        BY <3>1, <4>1, PipelineWhole
      <4>2. CASE ~(pipeline # "none" /\ Parsed[body] \in PlayableSdp)
        BY <3>1, <4>2
      <4>3. QED
        BY <4>1, <4>2
    <3>3. QED
      BY <3>1, <3>2 DEF LastAnnounced
  <2>3. CASE Pause \/ BeginTeardown
    BY <2>3 DEF Pause, BeginTeardown, LastAnnounced
  <2>4. CASE JoinWorker \/ Release
    BY <2>4 DEF JoinWorker, Release, LastAnnounced
  <2>5. CASE UNCHANGED vars
    BY <2>5 DEF vars, LastAnnounced
  <2>6. QED
    BY <2>1, <2>2, <2>3, <2>4, <2>5 DEF Next
<1>3. QED
  BY <1>1, <1>2, PTL DEF Spec

\* What a body says in its fmtp lines is a sequence of tokens.
LEMMA FmtpTokens ==
  ASSUME NEW body \in Body
  PROVE  SaidIn(body, "fmtp") \in Seq(Token)
<1> DEFINE places == Attributes(body, "fmtp")
<1>1. CASE places = {}
  BY <1>1 DEF SaidIn, NoSdp
<1>2. CASE places # {}
  <2>1. Len(body) \in Nat /\ places \in SUBSET (1 .. Len(body))
    BY BodyFacts DEF Attributes, Lines
  <2>2. Max(places) \in places
    <3> HIDE DEF places
    <3>1. QED
      BY <1>2, <2>1, MaxWithin
  <2>3. /\ Max(places) \in 1 .. Len(body)
        /\ body[Max(places)].kind = "a" /\ body[Max(places)].key = "fmtp"
    BY <2>1, <2>2 DEF Attributes, Lines
  <2>4. body[Max(places)].data \in Seq(Token)
    <3> HIDE DEF places
    <3>1. QED
      BY <2>3, BodyFacts
  <2>5. QED
    BY <1>2, <2>4 DEF SaidIn
<1>3. QED
  BY <1>1, <1>2

\* A description that the session plays has a config in its fmtp line.
LEMMA PlayableSays ==
  ASSUME NEW body \in Body, Parsed[body] \in PlayableSdp
  PROVE  /\ "audio" \in Media(body)
         /\ ConfigIn[body].ok
         /\ Fits(SaidIn(body, "fmtp"))
         /\ Valid(Described(SaidIn(body, "fmtp"), EmptyConfig))
         /\ ConfigIn[body].config = Described(SaidIn(body, "fmtp"), EmptyConfig)
<1> DEFINE tokens == SaidIn(body, "fmtp")
<1>1. /\ Parsed[body].fmtp = tokens /\ tokens \in Seq(Token)
      /\ Range(Parsed[body].media) = Media(body)
  BY SdpIsRead, FmtpTokens DEF Parsed
<1>2. PICK other \in Body : /\ Has(Parsed[other], "audio") /\ ConfigIn[other].ok
                            /\ Parsed[other] = Parsed[body]
  BY DEF PlayableSdp
<1>3. /\ ConfigIn[other] = ParseAlacFmtp(tokens, EmptyConfig)
      /\ ConfigIn[body] = ParseAlacFmtp(tokens, EmptyConfig)
  BY <1>1, <1>2 DEF ConfigIn
<1>4. "audio" \in Media(body)
  BY <1>1, <1>2 DEF Has
<1> HIDE DEF tokens
<1>5. ConfigIn[body].ok
  BY <1>2, <1>3
<1>6. /\ Fits(tokens) /\ Valid(Described(tokens, EmptyConfig))
      /\ ConfigIn[body].config = Described(tokens, EmptyConfig)
  BY <1>1, <1>3, <1>5, FmtpIsRead
<1>7. QED
  BY <1>4, <1>5, <1>6 DEF tokens

\* Whatever the bodies, an ANNOUNCE is answered and its description kept by what
\* its body says, in whatever order the lines come (sdp.cpp:61-94, rtsp.cpp:50).
THEOREM SdpMeant == Spec => []SdpMeansWhatItSays
<1>1. LastAnnounced => SdpMeansWhatItSays
  <2> SUFFICES ASSUME LastAnnounced, announced # << >>
               PROVE  SdpMeansWhatItSays
    BY DEF SdpMeansWhatItSays
  <2> DEFINE parsed == Parsed[announced]
             readable == Readable(announced)
             playable == Media(announced) \cap {"audio", "video"} # {}
  <2>1. announced \in Body
    BY DEF LastAnnounced
  <2>2. /\ Parses(parsed) <=> readable
        /\ Range(parsed.media) = Media(announced)
        /\ \A key \in {"fmtp", "rsaaeskey", "aesiv"} : parsed[key] = SaidIn(announced, key)
    BY <2>1, SdpIsRead DEF Parsed
  <2>3. Has(parsed, "audio") \/ Has(parsed, "video") <=> playable
    BY <2>2 DEF Has
  <2> HIDE DEF parsed, readable, playable
  <2>4. \/ ~readable /\ status = 400
        \/ readable /\ ~playable /\ status = 415
        \/ /\ readable /\ playable /\ sdp = parsed /\ status \in {200, 415}
           /\ status = 415 => pipeline # "none" /\ parsed \in PlayableSdp
    BY <2>2, <2>3 DEF LastAnnounced, parsed
  <2>5. status = 415 /\ playable =>
           /\ "audio" \in Media(announced) /\ pipeline # "none"
           /\ Valid(Described(sdp.fmtp, EmptyConfig))
    <3>1. SUFFICES ASSUME status = 415, playable
                   PROVE  /\ "audio" \in Media(announced) /\ pipeline # "none"
                          /\ Valid(Described(sdp.fmtp, EmptyConfig))
      OBVIOUS
    <3>2. sdp = parsed /\ pipeline # "none" /\ parsed \in PlayableSdp
      BY <2>4, <3>1
    <3>3. sdp.fmtp = SaidIn(announced, "fmtp")
      BY <2>2, <3>2
    <3>4. /\ "audio" \in Media(announced)
          /\ Valid(Described(SaidIn(announced, "fmtp"), EmptyConfig))
      BY <2>1, <3>2, PlayableSays DEF parsed
    <3>5. QED
      BY <3>2, <3>3, <3>4
  <2>6. /\ status = 400 <=> ~readable
        /\ readable /\ ~playable => status = 415
        /\ readable /\ playable => sdp = parsed
    BY <2>4
  <2>7. QED
    BY <2>2, <2>5, <2>6 DEF SdpMeansWhatItSays, readable, playable
<1>2. QED
  BY <1>1, LastAnswer, PTL

\* Whatever the bodies, the decoder is set up with exactly what the last fmtp line
\* of the body says, and only when all of it fits (alac_config.cpp:68-96).
THEOREM FmtpMeant == Spec => FmtpMeansWhatItSays
<1>1. [Next]_vars =>
        [decoder'.configured /\ decoder' # decoder =>
            /\ Fits(SaidIn(announced', "fmtp"))
            /\ Valid(decoder'.config)
            /\ decoder'.config = Described(SaidIn(announced', "fmtp"), EmptyConfig)
            /\ pipeline' = "open" /\ status' = 200]_decoder
  <2> SUFFICES ASSUME [Next]_vars, decoder' # decoder, decoder'.configured
               PROVE  /\ Fits(SaidIn(announced', "fmtp"))
                      /\ Valid(decoder'.config)
                      /\ decoder'.config = Described(SaidIn(announced', "fmtp"), EmptyConfig)
                      /\ pipeline' = "open" /\ status' = 200
    OBVIOUS
  <2>1. decoder' # Idle
    BY DEF Idle
  <2>2. PICK body \in Body : Announce(body)
    <3>1. ~Pause /\ ~Release
      BY <2>1, ResetWhole DEF Pause, Release
    <3>2. QED
      BY <3>1 DEF Next, AnnounceRefused, BeginTeardown, JoinWorker, vars
  <2>3. /\ announced' = body /\ body \in Playable
        /\ pipeline' = "open" /\ status' = 200
        /\ decoder' = SetUpBy(ConfigIn[body].config)
    BY <2>1, <2>2, AnnounceWhole
  <2>4. /\ Fits(SaidIn(body, "fmtp"))
        /\ Valid(Described(SaidIn(body, "fmtp"), EmptyConfig))
        /\ ConfigIn[body].config = Described(SaidIn(body, "fmtp"), EmptyConfig)
    BY <2>3, PlayableSays DEF Playable
  <2>5. decoder'.config = ConfigIn[body].config
    BY <2>3 DEF SetUpBy
  <2>6. QED
    BY <2>3, <2>4, <2>5
<1>2. QED
  BY <1>1, PTL DEF Spec, FmtpMeansWhatItSays

\* Whatever the bodies, key and IV change together, to a reading of the last text
\* the accepted body has for each, or go with a TEARDOWN (crypto.cpp:54-76).
THEOREM KeysMeant == Spec => KeysOfOneAnnouncement
<1>1. [Next]_vars =>
        [\/ crypto' = NoKeys /\ cpc = "release"
         \/ /\ status' = 200
            /\ crypto'.key \in Readings(SaidIn(announced', "rsaaeskey"))
            /\ crypto'.iv \in Readings(SaidIn(announced', "aesiv"))
            /\ crypto'.iv.size = 16]_crypto
  <2> SUFFICES ASSUME [Next]_vars, crypto' # crypto
               PROVE  \/ crypto' = NoKeys /\ cpc = "release"
                      \/ /\ status' = 200
                         /\ crypto'.key \in Readings(SaidIn(announced', "rsaaeskey"))
                         /\ crypto'.iv \in Readings(SaidIn(announced', "aesiv"))
                         /\ crypto'.iv.size = 16
    OBVIOUS
  <2>1. ASSUME NEW body \in Body, Announce(body)
        PROVE  /\ status' = 200
               /\ crypto'.key \in Readings(SaidIn(announced', "rsaaeskey"))
               /\ crypto'.iv \in Readings(SaidIn(announced', "aesiv"))
               /\ crypto'.iv.size = 16
    <3> DEFINE parsed == Parsed[body]
    <3>1. /\ announced' = body /\ status' = 200
          /\ crypto' = Extract(parsed) /\ ValidKeys(Extract(parsed))
      BY <2>1, AnnounceWhole DEF Keyed
    <3>2. /\ parsed.rsaaeskey = SaidIn(body, "rsaaeskey")
          /\ parsed.aesiv = SaidIn(body, "aesiv")
      BY SdpIsRead DEF Parsed
    <3> HIDE DEF parsed
    <3>3. /\ crypto'.key = FirstDecoded(parsed.rsaaeskey.base64, parsed.rsaaeskey.hex)
          /\ crypto'.iv = FirstDecoded(parsed.aesiv.hex, parsed.aesiv.base64)
          /\ crypto'.key # NoBytes /\ crypto'.iv.size = 16
      BY <3>1 DEF Extract, ValidKeys
    <3>4. crypto'.iv # NoBytes
      BY <3>3 DEF NoBytes
    <3>5. QED
      BY <3>1, <3>2, <3>3, <3>4 DEF FirstDecoded, Readings
  <2>2. CASE Release
    BY <2>2 DEF Release
  <2>3. QED
    BY <2>1, <2>2 DEF Next, AnnounceRefused, Pause, BeginTeardown, JoinWorker, vars
<1>2. QED
  BY <1>1, PTL DEF Spec, KeysOfOneAnnouncement

-----------------------------------------------------------------------------
\* The cookie.

\* A big-endian field is read byte after byte.
Shift(n, byte) == 256 * n + byte
ReadsBytes(f, data, at, n) ==
    /\ f \in [0 .. n -> Nat]
    /\ f[0] = 0
    /\ \A k \in 1 .. n : f[k] = Shift(f[k - 1], data[at + k])
    /\ Be(data, at, n) = f[n]

LEMMA BeRun ==
  ASSUME NEW data \in Seq(Nat), NEW at \in Nat, NEW n \in Nat, at + n <= Len(data)
  PROVE  \E f : ReadsBytes(f, data, at, n)
<1> DEFINE s == SubSeq(data, at + 1, at + n)
           step == [p \in Nat \X (1 .. n) |-> Shift(p[1], s[p[2]])]
           Iterates(g) == g = [t \in SUBSET (1 .. n) |->
                                 IF t = {} THEN 0 ELSE Shift(g[t \ {Max(t)}], s[Max(t)])]
           it == CHOOSE g : Iterates(g)
           f == [k \in 0 .. n |-> it[1 .. k]]
<1>1. DOMAIN s = 1 .. n /\ \A k \in 1 .. n : s[k] = data[at + k] /\ s[k] \in Nat
  OBVIOUS
<1>2. \A m, b \in Nat : Shift(m, b) \in Nat
  BY DEF Shift
<1>3. Be(data, at, n) = it[1 .. n]
  BY <1>1, Zenon DEF Be, FoldLeft, MapThenFoldSet, Shift
<1> HIDE DEF s
<1>4. step \in [Nat \X (1 .. n) -> Nat]
  BY <1>1, <1>2
<1>5. \E g : Iterates(g)
  <2> HIDE DEF step
  <2>1. PICK g \in [SUBSET (1 .. n) -> Nat] : Folds(g, n, 0, step)
    BY <1>4, FoldExists
  <2>2. ASSUME NEW t \in SUBSET (1 .. n)
        PROVE  g[t] = IF t = {} THEN 0 ELSE Shift(g[t \ {Max(t)}], s[Max(t)])
    <3>1. g[t] = IF t = {} THEN 0 ELSE step[<<g[t \ {Max(t)}], Max(t)>>]
      BY <2>1 DEF Folds
    <3>2. ASSUME t # {}
          PROVE  step[<<g[t \ {Max(t)}], Max(t)>>] = Shift(g[t \ {Max(t)}], s[Max(t)])
      <4>1. Max(t) \in 1 .. n
        BY <3>2, MaxWithin
      <4>2. t \ {Max(t)} \in SUBSET (1 .. n)
        OBVIOUS
      <4>3. g[t \ {Max(t)}] \in Nat
        BY <4>2
      <4>4. QED
        BY <4>1, <4>3 DEF step
    <3>3. QED
      BY <3>1, <3>2
  <2>3. Iterates(g)
    BY <2>2
  <2>4. QED
    BY <2>3
<1>6. Iterates(it)
  <2> HIDE DEF Iterates
  <2>1. QED
    BY <1>5
<1> HIDE DEF it
<1>7. f[0] = 0
  <2>1. 1 .. 0 = {} /\ 1 .. 0 \in SUBSET (1 .. n) /\ 0 \in 0 .. n
    OBVIOUS
  <2>2. QED
    BY <1>6, <2>1
<1>8. ASSUME NEW k \in 1 .. n PROVE f[k] = Shift(f[k - 1], s[k])
  <2>1. /\ 1 .. k \in SUBSET (1 .. n) /\ 1 .. k # {} /\ (1 .. k) \ {k} = 1 .. (k - 1)
        /\ Max(1 .. k) = k
    BY FirstPlaces
  <2>2. k \in 0 .. n /\ k - 1 \in 0 .. n
    OBVIOUS
  <2>3. it[1 .. k] = Shift(it[1 .. (k - 1)], s[k])
    BY <1>6, <2>1
  <2>4. QED
    BY <2>2, <2>3
<1>9. f \in [0 .. n -> Nat]
  <2> DEFINE T == {k \in 0 .. n : f[k] \in Nat}
  <2> HIDE DEF f
  <2>1. ASSUME NEW k \in 1 .. n, k - 1 \in T PROVE k \in T
    <3>1. f[k] \in Nat
      BY <1>1, <1>2, <1>8, <2>1
    <3>2. QED
      BY <3>1
  <2>2. 0 \in T
    BY <1>7
  <2>3. \A k \in 0 .. n : k \in T
    <3> HIDE DEF T
    <3>1. QED
      BY <2>1, <2>2, Induction
  <2>4. QED
    BY <2>3 DEF f
<1>10. \A k \in 1 .. n : f[k] = Shift(f[k - 1], data[at + k])
  <2> HIDE DEF f
  <2>1. QED
    BY <1>1, <1>8
<1>11. Be(data, at, n) = f[n]
  BY <1>3
<1> HIDE DEF f
<1>12. ReadsBytes(f, data, at, n)
  BY <1>7, <1>9, <1>10, <1>11 DEF ReadsBytes
<1>13. QED
  BY <1>12

\* One byte, and four.
LEMMA BeOfOne ==
  ASSUME NEW data \in Seq(Nat), NEW at \in Nat, at + 1 <= Len(data)
  PROVE  Be(data, at, 1) = data[at + 1]
<1>1. PICK f : ReadsBytes(f, data, at, 1)
  BY BeRun
<1>2. 1 \in 1 .. 1 /\ 1 - 1 = 0
  OBVIOUS
<1>3. Be(data, at, 1) = Shift(0, data[at + 1])
  BY <1>1, <1>2 DEF ReadsBytes
<1>4. data[at + 1] \in Nat
  OBVIOUS
<1>5. QED
  BY <1>3, <1>4 DEF Shift

FourAt(data, at) ==
    Shift(Shift(Shift(Shift(0, data[at + 1]), data[at + 2]), data[at + 3]), data[at + 4])

LEMMA BeOfFour ==
  ASSUME NEW data \in Seq(Nat), NEW at \in Nat, at + 4 <= Len(data)
  PROVE  Be(data, at, 4) = FourAt(data, at)
<1>1. PICK f : ReadsBytes(f, data, at, 4)
  BY BeRun
<1>2. /\ 1 \in 1 .. 4 /\ 2 \in 1 .. 4 /\ 3 \in 1 .. 4 /\ 4 \in 1 .. 4
      /\ 1 - 1 = 0 /\ 2 - 1 = 1 /\ 3 - 1 = 2 /\ 4 - 1 = 3
  OBVIOUS
<1>3. /\ f[0] = 0 /\ \A k \in 1 .. 4 : f[k] = Shift(f[k - 1], data[at + k])
      /\ Be(data, at, 4) = f[4]
  BY <1>1 DEF ReadsBytes
<1>4. f[1] = Shift(0, data[at + 1])
  BY <1>2, <1>3
<1>5. f[2] = Shift(f[1], data[at + 2])
  BY <1>2, <1>3
<1>6. f[3] = Shift(f[2], data[at + 3])
  BY <1>2, <1>3
<1>7. f[4] = Shift(f[3], data[at + 4])
  BY <1>2, <1>3
<1>8. QED
  BY <1>3, <1>4, <1>5, <1>6, <1>7 DEF FourAt

\* The four bytes of a 32-bit number, read again.
LEMMA FourBytes ==
  ASSUME NEW n \in Nat, n < 4294967296
  PROVE  256 * (256 * (256 * (256 * 0 + ((n \div 16777216) % 256)) + ((n \div 65536) % 256))
                + ((n \div 256) % 256)) + ((n \div 1) % 256) = n
BY SMT

LEMMA BytesAddUp ==
  ASSUME NEW n \in Word
  PROVE  LET b == Bytes(n, 4)
         IN  Shift(Shift(Shift(Shift(0, b[1]), b[2]), b[3]), b[4]) = n
<1> DEFINE b == Bytes(n, 4)
<1>1. n \in Nat /\ n < 4294967296
  <2>1. n \in Nat /\ n \div 65536 < 65536
    BY SMT DEF Word
  <2>2. QED
    BY SMT, <2>1
<1>2. /\ b[1] = (n \div 16777216) % 256 /\ b[2] = (n \div 65536) % 256
      /\ b[3] = (n \div 256) % 256 /\ b[4] = (n \div 1) % 256
  <2>1. /\ 256^(4 - 1) = 16777216 /\ 256^(4 - 2) = 65536 /\ 256^(4 - 3) = 256
        /\ 256^(4 - 4) = 1
    BY SMT
  <2>2. QED
    BY SMT, <2>1 DEF Bytes
<1> HIDE DEF b
<1>3. QED
  BY SMT, <1>1, <1>2, FourBytes DEF Shift, b

\* A number gives as many bytes as its field has.
LEMMA BytesTyped ==
  ASSUME NEW n \in Nat, NEW w \in {2, 4}
  PROVE  Bytes(n, w) \in Seq(Nat) /\ Len(Bytes(n, w)) = w
<1>1. \A d \in Nat : d > 0 => (n \div d) % 256 \in Nat
  OBVIOUS
<1>2. ASSUME NEW i \in 1 .. w PROVE (n \div 256^(w - i)) % 256 \in Nat
  <2>1. w - i = 0 \/ w - i = 1 \/ w - i = 2 \/ w - i = 3
    OBVIOUS
  <2>2. /\ 256^0 \in Nat /\ 256^1 \in Nat /\ 256^2 \in Nat /\ 256^3 \in Nat
        /\ 256^0 > 0 /\ 256^1 > 0 /\ 256^2 > 0 /\ 256^3 > 0
    BY SMT
  <2>3. \E e \in {0, 1, 2, 3} : w - i = e
    BY <2>1
  <2>4. 256^(w - i) \in Nat /\ 256^(w - i) > 0
    BY <2>2, <2>3, Zenon
  <2>5. QED
    BY SMT, <1>1, <2>4
<1>3. DOMAIN Bytes(n, w) = 1 .. w /\ \A i \in 1 .. w : Bytes(n, w)[i] \in Nat
  BY <1>2 DEF Bytes
<1>4. Bytes(n, w) = [i \in 1 .. w |-> Bytes(n, w)[i]]
  BY DEF Bytes
<1>5. QED
  BY <1>3, <1>4

\* Two sequences of bytes in a row.
IsJoined(all, m, n, s, t) ==
    /\ all \in Seq(Nat) /\ Len(all) = m + n
    /\ \A i \in 1 .. m : all[i] = s[i]
    /\ \A i \in 1 .. n : all[m + i] = t[i]

LEMMA JoinedSequences ==
  ASSUME NEW s \in Seq(Nat), NEW t \in Seq(Nat)
  PROVE  IsJoined(s \o t, Len(s), Len(t), s, t)
<1>1. /\ s \o t \in Seq(Nat) /\ Len(s \o t) = Len(s) + Len(t)
      /\ \A i \in 1 .. Len(s) : (s \o t)[i] = s[i]
      /\ \A i \in 1 .. Len(t) : (s \o t)[Len(s) + i] = t[i]
  BY ConcatProperties
<1>2. QED
  BY <1>1 DEF IsJoined

LEMMA Joined ==
  ASSUME NEW m, NEW n, NEW s \in Seq(Nat), Len(s) = m, NEW t \in Seq(Nat), Len(t) = n
  PROVE  IsJoined(s \o t, m, n, s, t)
BY JoinedSequences

\* The cookie made of a config without one has its fields where the library
\* looks for them.
LEMMA CookieHolds ==
  ASSUME NEW c, c.codec_data = << >>,
         c.frame_length \in Word, c.sample_rate \in Word,
         c.bit_depth = 16, c.num_channels \in Nat,
         c.compatible_version \in Nat, c.pb \in Nat, c.mb \in Nat, c.kb \in Nat,
         c.max_run \in Nat, c.max_frame_bytes \in Nat, c.avg_bit_rate \in Nat
  PROVE  AgreesWith(c, CookieSays(MakeCookie(c)))
<1> DEFINE length == Bytes(c.frame_length, 4)
           bytes == <<c.compatible_version, c.bit_depth % 256, c.pb, c.mb, c.kb,
                      c.num_channels>>
           run == Bytes(c.max_run, 2)
           largest == Bytes(c.max_frame_bytes, 4)
           average == Bytes(c.avg_bit_rate, 4)
           rate == Bytes(c.sample_rate, 4)
           upTo10 == length \o bytes
           upTo12 == upTo10 \o run
           upTo16 == upTo12 \o largest
           upTo20 == upTo16 \o average
           cookie == upTo20 \o rate
<1>1. MakeCookie(c) = cookie
  BY DEF MakeCookie
<1>2. /\ bytes \in Seq(Nat) /\ Len(bytes) = 6
      /\ bytes[2] = 16 /\ bytes[6] = c.num_channels
  <2>1. c.bit_depth % 256 = 16
    OBVIOUS
  <2>2. QED
    BY <2>1
<1>3. /\ length \in Seq(Nat) /\ Len(length) = 4 /\ rate \in Seq(Nat) /\ Len(rate) = 4
      /\ Shift(Shift(Shift(Shift(0, length[1]), length[2]), length[3]), length[4])
            = c.frame_length
      /\ Shift(Shift(Shift(Shift(0, rate[1]), rate[2]), rate[3]), rate[4])
            = c.sample_rate
  <2>1. c.frame_length \in Nat /\ c.sample_rate \in Nat
    BY SMT DEF Word
  <2>2. QED
    BY <2>1, BytesAddUp, BytesTyped
<1>4. /\ run \in Seq(Nat) /\ Len(run) = 2
      /\ largest \in Seq(Nat) /\ Len(largest) = 4
      /\ average \in Seq(Nat) /\ Len(average) = 4
  BY BytesTyped
<1> HIDE DEF length, bytes, run, largest, average, rate
<1>5. /\ upTo10 \in Seq(Nat) /\ Len(upTo10) = 10
      /\ \A i \in 1 .. 4 : upTo10[i] = length[i]
      /\ \A i \in 1 .. 6 : upTo10[4 + i] = bytes[i]
  <2>1. IsJoined(upTo10, 4, 6, length, bytes)
    BY <1>2, <1>3, Joined
  <2> HIDE DEF upTo10
  <2>2. QED
    BY <2>1 DEF IsJoined
<1>6. /\ upTo12 \in Seq(Nat) /\ Len(upTo12) = 12
      /\ \A i \in 1 .. 10 : upTo12[i] = upTo10[i]
  <2> HIDE DEF upTo10
  <2>1. IsJoined(upTo12, 10, 2, upTo10, run)
    BY <1>4, <1>5, Joined
  <2> HIDE DEF upTo12
  <2>2. QED
    BY <2>1 DEF IsJoined
<1>7. /\ upTo16 \in Seq(Nat) /\ Len(upTo16) = 16
      /\ \A i \in 1 .. 12 : upTo16[i] = upTo12[i]
  <2> HIDE DEF upTo12
  <2>1. IsJoined(upTo16, 12, 4, upTo12, largest)
    BY <1>4, <1>6, Joined
  <2> HIDE DEF upTo16
  <2>2. QED
    BY <2>1 DEF IsJoined
<1>8. /\ upTo20 \in Seq(Nat) /\ Len(upTo20) = 20
      /\ \A i \in 1 .. 16 : upTo20[i] = upTo16[i]
  <2> HIDE DEF upTo16
  <2>1. IsJoined(upTo20, 16, 4, upTo16, average)
    BY <1>4, <1>7, Joined
  <2> HIDE DEF upTo20
  <2>2. QED
    BY <2>1 DEF IsJoined
<1>9. /\ cookie \in Seq(Nat) /\ Len(cookie) = 24
      /\ \A i \in 1 .. 20 : cookie[i] = upTo20[i]
      /\ \A i \in 1 .. 4 : cookie[20 + i] = rate[i]
  <2> HIDE DEF upTo20
  <2>1. IsJoined(cookie, 20, 4, upTo20, rate)
    BY <1>3, <1>8, Joined
  <2> HIDE DEF cookie
  <2>2. QED
    BY <2>1 DEF IsJoined
<1> HIDE DEF upTo10, upTo12, upTo16, upTo20, cookie
<1>10. /\ cookie[1] = length[1] /\ cookie[2] = length[2]
       /\ cookie[3] = length[3] /\ cookie[4] = length[4]
       /\ cookie[6] = 16 /\ cookie[10] = c.num_channels
       /\ cookie[21] = rate[1] /\ cookie[22] = rate[2]
       /\ cookie[23] = rate[3] /\ cookie[24] = rate[4]
  <2>1. \A i \in 1 .. 10 : cookie[i] = upTo10[i]
    <3>1. SUFFICES ASSUME NEW i \in 1 .. 10 PROVE cookie[i] = upTo10[i]
      OBVIOUS
    <3>2. i \in 1 .. 12 /\ i \in 1 .. 16 /\ i \in 1 .. 20
      OBVIOUS
    <3>3. /\ cookie[i] = upTo20[i] /\ upTo20[i] = upTo16[i]
          /\ upTo16[i] = upTo12[i] /\ upTo12[i] = upTo10[i]
      BY <1>6, <1>7, <1>8, <1>9, <3>1, <3>2, Zenon
    <3>4. QED
      BY <3>3
  <2>2. /\ cookie[1] = upTo10[1] /\ cookie[2] = upTo10[2] /\ cookie[3] = upTo10[3]
        /\ cookie[4] = upTo10[4] /\ cookie[6] = upTo10[6] /\ cookie[10] = upTo10[10]
    BY <2>1
  <2>3. /\ upTo10[1] = length[1] /\ upTo10[2] = length[2]
        /\ upTo10[3] = length[3] /\ upTo10[4] = length[4]
    BY <1>5
  <2>4. upTo10[4 + 2] = bytes[2] /\ upTo10[4 + 6] = bytes[6]
    BY <1>5
  <2>5. /\ cookie[20 + 1] = rate[1] /\ cookie[20 + 2] = rate[2]
        /\ cookie[20 + 3] = rate[3] /\ cookie[20 + 4] = rate[4]
    BY <1>9
  <2>6. /\ 4 + 2 = 6 /\ 4 + 6 = 10 /\ 20 + 1 = 21 /\ 20 + 2 = 22 /\ 20 + 3 = 23
        /\ 20 + 4 = 24
    OBVIOUS
  <2>7. QED
    BY <1>2, <2>2, <2>3, <2>4, <2>5, <2>6
<1>11. Be(cookie, 0, 4) = c.frame_length
  <2>1. Be(cookie, 0, 4) = FourAt(cookie, 0)
    <3>1. cookie \in Seq(Nat) /\ 0 \in Nat /\ 0 + 4 <= Len(cookie)
      BY <1>9
    <3>2. QED
      BY <3>1, BeOfFour
  <2>2. 0 + 1 = 1 /\ 0 + 2 = 2 /\ 0 + 3 = 3 /\ 0 + 4 = 4
    OBVIOUS
  <2>3. QED
    BY <1>3, <1>10, <2>1, <2>2 DEF FourAt
<1>12. Be(cookie, 20, 4) = c.sample_rate
  <2>1. Be(cookie, 20, 4) = FourAt(cookie, 20)
    <3>1. cookie \in Seq(Nat) /\ 20 \in Nat /\ 20 + 4 <= Len(cookie)
      BY <1>9
    <3>2. QED
      BY <3>1, BeOfFour
  <2>2. 20 + 1 = 21 /\ 20 + 2 = 22 /\ 20 + 3 = 23 /\ 20 + 4 = 24
    OBVIOUS
  <2>3. QED
    BY <1>3, <1>10, <2>1, <2>2 DEF FourAt
<1>13. Be(cookie, 5, 1) = 16 /\ Be(cookie, 9, 1) = c.num_channels
  <2>1. Be(cookie, 5, 1) = cookie[5 + 1] /\ Be(cookie, 9, 1) = cookie[9 + 1]
    <3>1. /\ cookie \in Seq(Nat) /\ 5 \in Nat /\ 9 \in Nat
          /\ 5 + 1 <= Len(cookie) /\ 9 + 1 <= Len(cookie)
      BY <1>9
    <3>2. QED
      BY <3>1, BeOfOne
  <2>2. 5 + 1 = 6 /\ 9 + 1 = 10
    OBVIOUS
  <2>3. QED
    BY <1>10, <2>1, <2>2
<1>14. QED
  BY <1>1, <1>11, <1>12, <1>13 DEF AgreesWith, CookieSays

\* A config that an fmtp line describes has 32-bit numbers and no cookie.
LEMMA DescribedConfig ==
  ASSUME NEW tokens \in Seq(Token)
  PROVE  LET c == Described(tokens, EmptyConfig)
         IN  /\ c.codec_data = << >>
             /\ c.frame_length \in Word /\ c.sample_rate \in Word
             /\ c.num_channels \in Word
             /\ c.compatible_version = 0 /\ c.pb = 0 /\ c.mb = 0 /\ c.kb = 0
             /\ c.max_run = 0 /\ c.max_frame_bytes = 0 /\ c.avg_bit_rate = 0
<1>1. 0 \in Word
  BY DEF Word
<1>2. ASSUME NEW key PROVE SaidOf(tokens, key, 0) \in Word
  <2> DEFINE places == {i \in DOMAIN tokens : tokens[i].key = key}
  <2>1. CASE places = {}
    BY <1>1, <2>1 DEF SaidOf
  <2>2. CASE places # {}
    <3>1. Len(tokens) \in Nat /\ places \in SUBSET (1 .. Len(tokens))
      OBVIOUS
    <3>2. Max(places) \in 1 .. Len(tokens)
      <4> HIDE DEF places
      <4>1. QED
        BY <2>2, <3>1, MaxWithin
    <3> HIDE DEF places
    <3>3. tokens[Max(places)].number \in Word
      <4>1. tokens[Max(places)] \in Token
        BY <3>2
      <4>2. QED
        BY <4>1 DEF Token
    <3>4. QED
      BY <2>2, <3>3 DEF SaidOf, places
  <2>3. QED
    BY <2>1, <2>2
<1>3. QED
  BY <1>2 DEF Described, EmptyConfig

\* Whatever the bodies, an open pipeline has a decoder, and the ALAC library is
\* told the stream that the decoder's config names (alac_decoder.cpp:52-96).
THEOREM DecoderMatches == Spec => []DecoderMatchesConfig
<1>1. IInv => DecoderMatchesConfig
  <2> SUFFICES ASSUME IInv PROVE DecoderMatchesConfig
    OBVIOUS
  <2>1. CASE pipeline # "open" /\ decoder = Idle
    BY <2>1 DEF DecoderMatchesConfig, Idle
  <2>2. ASSUME pipeline = "open", NEW body \in Playable,
               Supported(ConfigIn[body].config), decoder = SetUpBy(ConfigIn[body].config)
        PROVE  DecoderMatchesConfig
    <3> DEFINE c == ConfigIn[body].config
    <3>1. body \in Body /\ c = Described(SaidIn(body, "fmtp"), EmptyConfig)
      BY PlayableSays DEF Playable
    <3>2. /\ c.codec_data = << >>
          /\ c.frame_length \in Word /\ c.sample_rate \in Word /\ c.num_channels \in Word
          /\ c.compatible_version = 0 /\ c.pb = 0 /\ c.mb = 0 /\ c.kb = 0
          /\ c.max_run = 0 /\ c.max_frame_bytes = 0 /\ c.avg_bit_rate = 0
      BY <3>1, FmtpTokens, DescribedConfig
    <3>3. c.bit_depth = 16 /\ c.num_channels \in Nat
      BY <2>2, <3>2 DEF Supported, Word
    <3>4. /\ decoder.configured = TRUE /\ decoder.config = c
          /\ decoder.cookie = MakeCookie(c)
      BY <2>2 DEF SetUpBy
    <3> HIDE DEF c
    <3>5. AgreesWith(c, CookieSays(MakeCookie(c)))
      BY <3>2, <3>3, CookieHolds
    <3>6. QED
      BY <2>2, <3>4, <3>5 DEF DecoderMatchesConfig
  <2>3. QED
    BY <2>1, <2>2 DEF IInv, DecoderOfOneBody
<1>2. QED
  BY <1>1, Invariance, PTL

-----------------------------------------------------------------------------
\* The session as RtspSession sees it: the description reduced to one of three.
SdpKind == IF sdp.media = << >> THEN "none"
           ELSE IF sdp \in PlayableSdp THEN "audio" ELSE "video"

\* The ports of a session that has opened no socket.
LEMMA Sockets ==
  Session!NoPorts = [s \in {"data", "control", "timing", "event"} |-> "none"]
BY DEF Session!NoPorts, Session!Socket, Session!Receiver

\* The answer, reduced to whether the request was accepted.
LEMMA RefusalSeen ==
  ASSUME NEW st, st # 200
  PROVE  [accepted |-> st = 200, ports |-> << >>] = [accepted |-> FALSE, ports |-> << >>]
<1>1. (st = 200) = FALSE
  OBVIOUS
<1>2. QED
  BY <1>1, Zenon

LEMMA AcceptanceSeen ==
  ASSUME NEW st, st = 200
  PROVE  [accepted |-> st = 200, ports |-> << >>] = [accepted |-> TRUE, ports |-> << >>]
<1>1. (st = 200) = TRUE
  OBVIOUS
<1>2. QED
  BY <1>1, Zenon

\* A session as its connection makes it.
LEMMA InitImplements == Init => Session!Init
<1> SUFFICES ASSUME Init PROVE Session!Init
  OBVIOUS
<1>1. Session!NoPorts = [s \in {"data", "control", "timing", "event"} |-> "none"]
  BY Sockets
<1>2. sdp.media = << >> /\ crypto.configured = FALSE
  BY DEF Init, NoSdp, NoKeys
<1>3. [accepted |-> status = 200, ports |-> << >>] = [accepted |-> FALSE, ports |-> << >>]
  <2>1. status # 200
    BY DEF Init
  <2>2. QED
    BY <2>1, RefusalSeen
<1>4. QED
  BY <1>1, <1>2, <1>3 DEF Init, Session!Init, Session!NoReply

\* A refused body changes the answer only.
LEMMA RefusedImplements ==
  ASSUME NEW body \in Body, AnnounceRefused(body)
  PROVE  Session!AnnounceRefused
<1>1. status' # 200
  BY DEF AnnounceRefused
<1>2. [accepted |-> status' = 200, ports |-> << >>] = [accepted |-> FALSE, ports |-> << >>]
  BY <1>1, RefusalSeen
<1>3. QED
  BY <1>2 DEF AnnounceRefused, Session!AnnounceRefused, Session!Refused,
              Session!flags, Session!sockets, Session!media, Session!control,
              Session!history

\* An accepted body is audio or video, and its keys are taken or not.
LEMMA AnnounceImplements ==
  ASSUME NEW body \in Body, Announce(body)
  PROVE  \E described \in {"audio", "video"} : Session!Announce(described)
<1>1. /\ cpc = "idle" /\ cpc' = cpc /\ configured' = TRUE /\ tornDown' = FALSE
      /\ sdp' = Parsed[body] /\ sdp'.media # << >>
      /\ IF pipeline # "none" /\ sdp' \in PlayableSdp
           THEN ConfigurePipeline(ConfigIn[body].config)
           ELSE status' = 200 /\ UNCHANGED <<pipeline, decoder>>
      /\ IF status' = 200 THEN ConfigureCrypto(sdp') ELSE UNCHANGED crypto
  BY AnnounceWhole DEF Announce
<1>2. PICK described \in {"audio", "video"} :
         /\ described = SdpKind'
         /\ described = "audio" <=> sdp' \in PlayableSdp
  BY <1>1 DEF SdpKind, PlayableSdp, Parsed
<1>3. status' = 200 => Session!ConfigureCrypto
  <2>1. ASSUME ValidKeys(Extract(sdp')), crypto' = Extract(sdp')
        PROVE  crypto'.configured = TRUE
    BY <2>1 DEF Extract
  <2>2. status' = 200 => crypto' = crypto \/ crypto'.configured = TRUE
    BY <1>1, <2>1 DEF ConfigureCrypto
  <2>3. crypto' = crypto => crypto'.configured = crypto.configured
    OBVIOUS
  <2>4. QED
    BY <2>2, <2>3, Zenon DEF Session!ConfigureCrypto
<1>4. \/ /\ status' = 200
         /\ Session!ConfigurePipeline(described, TRUE)
      \/ /\ status' = 415 /\ UNCHANGED crypto
         /\ Session!ConfigurePipeline(described, FALSE)
  <2>1. CASE pipeline # "none" /\ sdp' \in PlayableSdp
    BY <1>1, <1>2, <2>1, PipelineWhole DEF Session!ConfigurePipeline
  <2>2. CASE ~(pipeline # "none" /\ sdp' \in PlayableSdp)
    BY <1>1, <1>2, <2>2 DEF Session!ConfigurePipeline
  <2>3. QED
    BY <2>1, <2>2
<1>5. /\ status' = 200 =>
           [accepted |-> status' = 200, ports |-> << >>] = [accepted |-> TRUE, ports |-> << >>]
      /\ status' = 415 =>
           [accepted |-> status' = 200, ports |-> << >>] = [accepted |-> FALSE, ports |-> << >>]
  BY AcceptanceSeen, RefusalSeen
<1>6. Session!Announce(described)
  BY <1>1, <1>2, <1>3, <1>4, <1>5
     DEF SdpKind, Session!Announce, Session!Accepted,
         Session!Refused, Session!Answer, Session!sockets, Session!control
<1>7. QED
  BY <1>6

\* PAUSE, and the three parts of TEARDOWN.
LEMMA PauseImplements == Pause => Session!Pause
BY DEF Pause, ResetPipeline, Session!Pause, Session!ClosedPipeline, Session!Accepted,
       Session!Answer, Session!sockets, Session!control, Session!history

LEMMA TeardownImplements ==
  /\ BeginTeardown => Session!BeginTeardown
  /\ JoinWorker => Session!JoinWorker
<1>1. BeginTeardown => Session!BeginTeardown
  BY DEF BeginTeardown, Session!BeginTeardown, Session!sockets, Session!media,
         Session!history
<1>2. JoinWorker => Session!JoinWorker
  BY DEF JoinWorker, Session!JoinWorker, Session!flags, Session!media, Session!history
<1>3. QED
  BY <1>1, <1>2

LEMMA ReleaseImplements == Release => Session!Release
<1> SUFFICES ASSUME Release PROVE Session!Release
  OBVIOUS
<1>1. Session!ResetSockets
  BY Sockets DEF Session!ResetSockets
<1>2. Session!ResetMedia
  BY DEF Release, ResetPipeline, NoSdp, NoKeys, Session!ResetMedia, Session!ClosedPipeline
<1>3. QED
  BY <1>1, <1>2 DEF Release, Session!Release, Session!Accepted, Session!Answer,
                    Session!flags

\* Every step of a session with bodies is one of the session without.
LEMMA NextImplements == [Next]_vars => [Session!Next]_(Session!vars)
<1> SUFFICES ASSUME [Next]_vars PROVE [Session!Next]_(Session!vars)
  OBVIOUS
<1>1. CASE UNCHANGED vars
  BY <1>1 DEF vars, Session!vars, Session!flags, Session!sockets, Session!media,
              Session!history, Session!control
<1>2. ASSUME NEW body \in Body, AnnounceRefused(body) \/ Announce(body)
      PROVE  Session!Next
  BY <1>2, RefusedImplements, AnnounceImplements, Zenon
     DEF Session!Next, Session!Request
<1>3. CASE Pause \/ BeginTeardown
  BY <1>3, PauseImplements, TeardownImplements DEF Session!Next, Session!Request
<1>4. CASE JoinWorker \/ Release
  BY <1>4, TeardownImplements, ReleaseImplements DEF Session!Next, Session!Continue
<1>5. QED
  BY <1>1, <1>2, <1>3, <1>4 DEF Next

\* With any bodies, in any order, a session that announces, pauses and tears down
\* does only what RtspSession allows: what is proved there holds here.
THEOREM Implementation == Spec => ImplementsSession
BY InitImplements, NextImplements, PTL DEF Spec, ImplementsSession, Session!Spec

=============================================================================
