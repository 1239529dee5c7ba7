-------------------------- MODULE AppleSinkProofs --------------------------
(***************************************************************************)
(* What AppleAudioSink promises for every format, every write and every    *)
(* request of the device: its ring is cut at frames of the format, and,    *)
(* seen through the ring's positions, it is a bounded queue of samples.    *)
(* The invariant says which thread may have which part of the ring, and    *)
(* the arithmetic lemmas follow the positions round its end.               *)
(***************************************************************************)
EXTENDS AppleSink, Integers, SequenceTheorems, TLAPS

TypeOK ==
    /\ unit \in {"none", "made", "started"}
    /\ format \in [channels : Nat, sample_rate : Nat, bits_per_sample : Nat]
    /\ asked \in [channels : Nat, sample_rate : Nat, bits_per_sample : Nat]
    /\ ring \in Seq(Sample \cup {Silence})
    /\ readPos \in Nat /\ writePos \in Nat /\ available \in Nat
    /\ opened \in BOOLEAN
    /\ cpc \in {"idle", "stop", "clear", "opening", "make", "start", "publish"}
    /\ rpc \in {"idle", "take"}
    /\ requested \in Nat

\* The device calls back only for a ring that is there, and asks for whole
\* frames of its format; a ring is made only where the device cannot call.
DeviceHasRing ==
    /\ cpc \in {"clear", "opening", "make"} => unit = "none"
    /\ cpc = "start" => unit = "made"
    /\ unit = "started" => ring # << >>
    /\ rpc = "take" => unit = "started" /\ requested % format.channels = 0

\* A ring that is there is cut for its format; only an open sink has samples.
RingForFormat ==
    /\ cpc = "opening" => ring = << >>
    /\ cpc \in {"make", "start", "publish"} => ring # << >>
    /\ opened => ring # << >> /\ cpc \in {"idle", "stop", "clear"}
    /\ ~opened => available = 0
    /\ ring = << >> => readPos = 0 /\ writePos = 0 /\ available = 0
    /\ ring # << >> => format.channels # 0 /\ Len(ring) % format.channels = 0

IInv == TypeOK /\ DeviceHasRing /\ RingForFormat /\ WholeFrames

-----------------------------------------------------------------------------
\* Arithmetic of the positions in a ring of some length.

\* No multiple of the length but zero is smaller than it.
LEMMA SmallMultiple ==
  ASSUME NEW length \in Nat \ {0}, NEW m \in Int,
         length * m < length, length * m > -length
  PROVE  m = 0
<1>1. CASE m >= 1
  <2>1. length * m >= length * 1
    BY <1>1
  <2>2. QED
    BY <2>1
<1>2. CASE m <= -1
  <2>1. length * m <= length * (-1)
    BY <1>2
  <2>2. QED
    BY <2>1
<1>3. QED
  BY <1>1, <1>2

\* A position is a number of turns and a place in the ring ...
LEMMA Turns ==
  ASSUME NEW x \in Nat, NEW length \in Nat \ {0}
  PROVE  /\ x \div length \in Nat
         /\ x % length \in 0 .. length - 1
         /\ x = length * (x \div length) + (x % length)
<1>1. length \in Int /\ length > 0 /\ x \in Int /\ x >= 0
  OBVIOUS
<1>2. x % length \in 0 .. length - 1
  <2>1. length \in Nat /\ length >= 1
    OBVIOUS
  <2>2. QED
    BY <2>1
<1>3. x = length * (x \div length) + (x % length)
  BY <1>1
<1>4. x \div length \in Nat
  <2> DEFINE q == x \div length
  <2>1. q \in Int
    BY <1>1
  <2> HIDE DEF q
  <2>2. ASSUME q <= -1 PROVE FALSE
    <3>1. length * q <= length * (-1)
      BY <1>1, <2>1, <2>2
    <3>2. QED
      BY <1>1, <1>2, <1>3, <3>1 DEF q
  <2>3. q \in Nat
    BY <2>1, <2>2
  <2>4. QED
    BY <2>3 DEF q
<1>5. QED
  BY <1>2, <1>3, <1>4

\* ... and has only one place.
LEMMA OnePlace ==
  ASSUME NEW length \in Nat \ {0}, NEW x \in Nat, NEW q \in Int,
         NEW r \in 0 .. length - 1, x = length * q + r
  PROVE  x % length = r
<1> DEFINE p == x \div length
           t == x % length
<1>1. p \in Int /\ t \in 0 .. length - 1 /\ x = length * p + t
  BY Turns
<1> HIDE DEF p, t
<1>2. length * (q - p) = length * q - length * p
  BY <1>1
<1>3. length * q \in Int /\ length * p \in Int /\ t \in Int /\ r \in Int
  BY <1>1
<1>4. length * (q - p) = t - r
  BY <1>1, <1>2, <1>3
<1>5. q - p = 0
  <2>1. length * (q - p) < length /\ length * (q - p) > -length
    BY <1>1, <1>4
  <2>2. QED
    BY <1>1, <2>1, SmallMultiple
<1>6. t = r
  <2>1. length * (q - p) = 0
    BY <1>5
  <2>2. QED
    BY <1>3, <1>4, <2>1
<1>7. QED
  BY <1>6 DEF t

\* Going round first makes no difference to where further steps lead.
LEMMA RoundFirst ==
  ASSUME NEW length \in Nat \ {0}, NEW a \in Nat, NEW n \in Nat
  PROVE  ((a % length) + n) % length = (a + n) % length
<1> DEFINE t == a % length
           p == a \div length
           q == (t + n) \div length
           r == (t + n) % length
<1>1. p \in Nat /\ t \in Nat /\ a = length * p + t
  BY Turns
<1>2. t + n \in Nat
  BY <1>1
<1>3. q \in Nat /\ r \in 0 .. length - 1 /\ t + n = length * q + r
  BY <1>2, Turns
<1> HIDE DEF p, q
<1>4. length * (p + q) = length * p + length * q
  BY <1>1, <1>3
<1>5. length * p \in Int /\ length * q \in Int /\ r \in Int
  BY <1>1, <1>3
<1>6. a + n = length * (p + q) + r
  <2> HIDE DEF t, r
  <2>1. QED
    BY <1>1, <1>3, <1>4, <1>5
<1>7. p + q \in Int /\ a + n \in Nat
  BY <1>1, <1>3
<1>8. (a + n) % length = r
  BY <1>3, <1>6, <1>7, OnePlace
<1>9. QED
  BY <1>8

\* A place in the ring is its own.
LEMMA InRing ==
  ASSUME NEW length \in Nat \ {0}, NEW x \in Nat, x < length
  PROVE  x % length = x
<1>1. x \in 0 .. length - 1 /\ x = length * 0 + x /\ 0 \in Int
  OBVIOUS
<1>2. QED
  BY <1>1, OnePlace

\* Whole frames: sums, differences, products and turns of them are whole.
LEMMA WholeSum ==
  ASSUME NEW c \in Nat \ {0}, NEW x \in Nat, NEW y \in Nat, x % c = 0, y % c = 0
  PROVE  (x + y) % c = 0
<1>1. ((x % c) + y) % c = (x + y) % c
  BY RoundFirst
<1>2. QED
  BY <1>1

LEMMA WholeDifference ==
  ASSUME NEW c \in Nat \ {0}, NEW x \in Nat, NEW y \in Nat, y <= x,
         x % c = 0, y % c = 0
  PROVE  (x - y) % c = 0
<1> DEFINE z == x - y
<1>1. z \in Nat /\ y + z = x
  OBVIOUS
<1> HIDE DEF z
<1>2. ((y % c) + z) % c = (y + z) % c
  BY <1>1, RoundFirst
<1>3. z % c = 0
  BY <1>1, <1>2
<1>4. QED
  BY <1>3 DEF z

LEMMA WholeProduct ==
  ASSUME NEW c \in Nat \ {0}, NEW k \in Nat
  PROVE  k * c \in Nat /\ (k * c) % c = 0
<1>1. k * c \in Nat /\ 0 \in 0 .. c - 1 /\ k \in Int
  OBVIOUS
<1>2. k * c = c * k + 0
  BY <1>1
<1>3. QED
  BY <1>1, <1>2, OnePlace

LEMMA WholeTurn ==
  ASSUME NEW c \in Nat \ {0}, NEW x \in Nat, NEW length \in Nat \ {0},
         x % c = 0, length % c = 0
  PROVE  (x % length) % c = 0
<1> DEFINE p == length \div c
           q == x \div length
           t == x % length
<1>1. p \in Nat /\ length = c * p
  <2>1. p \in Nat /\ length = c * p + (length % c)
    BY Turns
  <2>2. c * p \in Nat
    BY <2>1
  <2>3. QED
    BY <2>1, <2>2
<1>2. q \in Nat /\ t \in Nat /\ x = length * q + t
  BY Turns
<1> HIDE DEF p, q, t
<1>3. length * q = (p * q) * c /\ p * q \in Nat
  BY <1>1, <1>2
<1>4. length * q \in Nat /\ (length * q) % c = 0
  BY <1>3, WholeProduct
<1>5. length * q <= x /\ x - length * q = t
  BY <1>2, <1>4
<1>6. t % c = 0
  BY <1>4, <1>5, WholeDifference
<1>7. QED
  BY <1>6 DEF t

-----------------------------------------------------------------------------
\* A block of samples, as a function of their places, is a sequence.
LEMMA Block ==
  ASSUME NEW S, NEW n \in Nat, NEW f \in [1 .. n -> S]
  PROVE  f \in Seq(S) /\ Len(f) = n
OBVIOUS

\* A sink begins closed, with no ring.
THEOREM InitIInv == Init => IInv
<1> SUFFICES ASSUME Init PROVE IInv
  OBVIOUS
<1> USE DEF Init
<1>1. TypeOK
  <2>1. << >> \in Seq(Sample \cup {Silence})
    OBVIOUS
  <2>2. NoFormat \in [channels : Nat, sample_rate : Nat, bits_per_sample : Nat]
    BY DEF NoFormat
  <2>3. QED
    BY <2>1, <2>2 DEF TypeOK
<1>2. DeviceHasRing /\ RingForFormat /\ WholeFrames
  BY DEF DeviceHasRing, RingForFormat, WholeFrames
<1>3. QED
  BY <1>1, <1>2 DEF IInv

\* The steps of open and close that leave the ring alone.
LEMMA UnitStep ==
  IInv /\ \/ CallClose \/ (\E f \in Format : CallOpen(f)) \/ StopUnit \/ RefuseFormat
          \/ MakeUnitFails \/ MakeUnit \/ StartUnitFails \/ StartUnit \/ MarkOpened
    => IInv'
<1> SUFFICES ASSUME IInv,
                    \/ CallClose \/ (\E f \in Format : CallOpen(f)) \/ StopUnit
                    \/ RefuseFormat \/ MakeUnitFails \/ MakeUnit \/ StartUnitFails
                    \/ StartUnit \/ MarkOpened
             PROVE  IInv'
  OBVIOUS
<1> USE DEF IInv, positions, device, caller
<1>1. UNCHANGED <<format, ring, readPos, writePos, available, rpc, requested>>
  BY DEF CallClose, CallOpen, StopUnit, RefuseFormat, MakeUnitFails, MakeUnit,
         StartUnitFails, StartUnit, MarkOpened
<1>2. WholeFrames'
  BY <1>1 DEF WholeFrames
<1>3. CASE CallClose \/ (\E f \in Format : CallOpen(f))
  <2>1. /\ cpc = "idle" /\ cpc' = "stop" /\ unit' = unit /\ opened' = opened
        /\ asked' \in [channels : Nat, sample_rate : Nat, bits_per_sample : Nat]
    BY <1>3, FormatAssumption DEF CallClose, CallOpen, TypeOK
  <2>2. QED
    BY <1>1, <1>2, <2>1 DEF TypeOK, DeviceHasRing, RingForFormat
<1>4. CASE StopUnit
  BY <1>1, <1>2, <1>4 DEF StopUnit, TypeOK, DeviceHasRing, RingForFormat
<1>5. CASE RefuseFormat \/ MakeUnitFails \/ MarkOpened
  <2>1. NoFormat \in [channels : Nat, sample_rate : Nat, bits_per_sample : Nat]
    BY DEF NoFormat
  <2>2. CASE RefuseFormat \/ MakeUnitFails
    <3>1. /\ cpc' = "idle" /\ asked' = NoFormat /\ unit' = unit /\ opened' = opened
          /\ cpc \in {"opening", "make"}
      BY <2>2 DEF RefuseFormat, MakeUnitFails
    <3>2. QED
      BY <1>1, <1>2, <2>1, <3>1 DEF TypeOK, DeviceHasRing, RingForFormat
  <2>3. CASE MarkOpened
    <3>1. /\ cpc' = "idle" /\ asked' = NoFormat /\ unit' = unit /\ opened' = TRUE
          /\ cpc = "publish"
      BY <2>3 DEF MarkOpened
    <3>2. TypeOK'
      BY <1>1, <2>1, <3>1 DEF TypeOK
    <3>3. DeviceHasRing' /\ RingForFormat'
      BY <1>1, <3>1 DEF DeviceHasRing, RingForFormat
    <3>4. QED
      BY <1>2, <3>2, <3>3
  <2>4. QED
    BY <1>5, <2>2, <2>3
<1>6. CASE MakeUnit
  BY <1>1, <1>2, <1>6 DEF MakeUnit, TypeOK, DeviceHasRing, RingForFormat
<1>7. CASE StartUnitFails
  BY <1>1, <1>2, <1>7 DEF StartUnitFails, TypeOK, DeviceHasRing, RingForFormat, NoFormat
<1>8. CASE StartUnit
  BY <1>1, <1>2, <1>8 DEF StartUnit, TypeOK, DeviceHasRing, RingForFormat
<1>9. QED
  BY <1>3, <1>4, <1>5, <1>6, <1>7, <1>8

\* close empties the ring and puts the positions back.
LEMMA ClearStep == IInv /\ Clear => IInv'
<1> SUFFICES ASSUME IInv, Clear PROVE IInv'
  OBVIOUS
<1> USE DEF IInv, device
<1>1. /\ ring' = << >> /\ readPos' = 0 /\ writePos' = 0 /\ available' = 0
      /\ opened' = FALSE /\ cpc = "clear" /\ cpc' \in {"idle", "opening"}
      /\ UNCHANGED <<unit, format, asked, rpc, requested>>
  BY DEF Clear
<1>2. << >> \in Seq(Sample \cup {Silence})
  OBVIOUS
<1>3. QED
  BY <1>1, <1>2 DEF TypeOK, DeviceHasRing, RingForFormat, WholeFrames

\* open cuts a ring for an acceptable format.
LEMMA MakeRingStep == IInv /\ MakeRing => IInv'
<1> SUFFICES ASSUME IInv, MakeRing PROVE IInv'
  OBVIOUS
<1> USE DEF IInv, positions, device
<1> DEFINE n == asked.sample_rate * asked.channels * 2
<1>1. /\ cpc = "opening" /\ cpc' = "make" /\ Acceptable(asked)
      /\ format' = asked /\ ring' = [i \in 1 .. n |-> Silence]
      /\ UNCHANGED <<unit, readPos, writePos, available, opened, asked, rpc, requested>>
  BY DEF MakeRing
<1>2. /\ asked.channels \in Nat \ {0} /\ asked.sample_rate \in Nat \ {0}
  <2>0. Acceptable(asked)
    BY DEF MakeRing
  <2>1. asked.channels \in Nat /\ asked.sample_rate \in Nat
    BY DEF TypeOK
  <2>2. asked.channels # 0 /\ asked.sample_rate # 0
    BY <2>0, <2>1 DEF Acceptable
  <2>3. QED
    BY <2>1, <2>2
<1>3. n \in Nat /\ n # 0 /\ n % asked.channels = 0
  <2> DEFINE c == asked.channels
             r == asked.sample_rate
  <2>1. c \in Nat \ {0} /\ r \in Nat \ {0}
    BY <1>2
  <2> HIDE DEF c, r
  <2>2. r * c * 2 = (r * 2) * c /\ r * 2 \in Nat
    BY <2>1
  <2>3. r * c * 2 \in Nat /\ (r * c * 2) % c = 0
    BY <2>1, <2>2, WholeProduct
  <2>4. r * c # 0 /\ r * c \in Nat
    BY <2>1
  <2>5. r * c * 2 # 0
    BY <2>4
  <2>6. QED
    BY <2>3, <2>5 DEF c, r
<1> HIDE DEF n
<1>4. ring' \in Seq(Sample \cup {Silence}) /\ Len(ring') = n
  <2>1. ring' \in [1 .. n -> Sample \cup {Silence}]
    BY <1>1
  <2>2. QED
    BY <1>3, <2>1, Block
<1>5. readPos = 0 /\ writePos = 0 /\ available = 0 /\ unit = "none" /\ rpc = "idle" /\ ~opened
  BY <1>1 DEF RingForFormat, DeviceHasRing, TypeOK
<1>6. ring' # << >>
  BY <1>3, <1>4
<1>7. 0 % asked.channels = 0 /\ 0 % n = 0
  BY <1>2, <1>3, InRing
<1>8. TypeOK' /\ DeviceHasRing' /\ RingForFormat'
  BY <1>1, <1>2, <1>3, <1>4, <1>5, <1>6 DEF TypeOK, DeviceHasRing, RingForFormat
<1>9. WholeFrames'
  BY <1>1, <1>3, <1>4, <1>5, <1>7 DEF WholeFrames
<1>10. QED
  BY <1>8, <1>9

\* What holds of a ring that is there.
LEMMA RingFacts ==
  ASSUME IInv, ring # << >>
  PROVE  /\ Len(ring) \in Nat \ {0} /\ format.channels \in Nat \ {0}
         /\ Len(ring) % format.channels = 0
         /\ available \in Nat /\ available <= Len(ring) /\ available % format.channels = 0
         /\ readPos \in Nat /\ readPos < Len(ring) /\ readPos % format.channels = 0
         /\ writePos = (readPos + available) % Len(ring)
BY DEF IInv, TypeOK, RingForFormat, WholeFrames

\* A write of whole frames, for which there is room, keeps the ring whole.
LEMMA WriteStep ==
  ASSUME IInv, NEW frames \in 1 .. MaxWrite,
         NEW samples \in [1 .. frames * format.channels -> Sample], Write(samples)
  PROVE  IInv'
<1> USE DEF IInv, caller, device
<1> DEFINE n == Len(samples)
           length == Len(ring)
           c == format.channels
<1>1. /\ opened /\ ring # << >> /\ n <= length - available
      /\ ring' = Stored(samples)
      /\ writePos' = (writePos + n) % length
      /\ available' = available + n
      /\ UNCHANGED <<unit, format, readPos, opened, cpc, asked, rpc, requested>>
  BY DEF Write, Room, RingForFormat
<1>2. /\ length \in Nat \ {0} /\ c \in Nat \ {0} /\ length % c = 0
      /\ available \in Nat /\ available <= length /\ available % c = 0
      /\ readPos \in Nat /\ readPos < length /\ readPos % c = 0
      /\ writePos = (readPos + available) % length
  BY <1>1, RingFacts
<1>3. frames \in Nat
  BY BoundAssumption
<1>4. n = frames * c /\ n \in Nat /\ n % c = 0 /\ samples \in Seq(Sample)
  <2>1. frames * c \in Nat /\ (frames * c) % c = 0
    BY <1>2, <1>3, WholeProduct
  <2>2. n = frames * c /\ samples \in Seq(Sample)
    BY <2>1, Block
  <2>3. QED
    BY <2>1, <2>2
<1> HIDE DEF n
<1>5. ring' \in Seq(Sample \cup {Silence}) /\ Len(ring') = length
  <2> DEFINE offset(i) == (i - 1 + length - writePos) % length
  <2>1. writePos \in 0 .. length - 1
    <3>1. readPos + available \in Nat
      BY <1>2
    <3>2. QED
      BY <1>2, <3>1, Turns
  <2>2. ASSUME NEW i \in 1 .. length
        PROVE  /\ offset(i) \in Nat
               /\ (IF offset(i) < n THEN samples[offset(i) + 1] ELSE ring[i])
                     \in Sample \cup {Silence}
    <3>1. i - 1 + length - writePos \in Nat
      BY <1>2, <2>1
    <3>2. offset(i) \in Nat
      BY <1>2, <3>1, Turns
    <3> HIDE DEF offset
    <3>3. offset(i) < n => samples[offset(i) + 1] \in Sample
      BY <1>4, <3>2 DEF n
    <3>4. ring[i] \in Sample \cup {Silence}
      BY DEF TypeOK
    <3>5. QED
      BY <3>2, <3>3, <3>4
  <2>3. ring' = [i \in 1 .. length |->
                   IF offset(i) < n THEN samples[offset(i) + 1] ELSE ring[i]]
    BY <1>1 DEF Stored, n
  <2> HIDE DEF offset
  <2>4. ring' \in [1 .. length -> Sample \cup {Silence}]
    BY <2>2, <2>3
  <2>5. QED
    BY <1>2, <2>4, Block
<1>6. available' \in Nat /\ available' <= length /\ available' % c = 0
  <2>1. (available + n) % c = 0
    BY <1>2, <1>4, WholeSum
  <2>2. available' = available + n /\ n <= length - available
    BY <1>1
  <2>3. available' \in Nat /\ available' <= length
    <3>1. available \in Nat /\ length \in Nat /\ n \in Nat
      BY <1>2, <1>4
    <3> HIDE DEF length
    <3>2. QED
      BY <2>2, <3>1
  <2>4. QED
    BY <2>1, <2>2, <2>3
<1>7. writePos' \in Nat /\ writePos' = (readPos + available') % length
  <2>1. readPos + available \in Nat /\ readPos + available + n \in Nat
    <3>1. readPos \in Nat /\ available \in Nat /\ n \in Nat
      BY <1>2, <1>4
    <3>2. QED
      BY <3>1
  <2>2. (((readPos + available) % length) + n) % length = (readPos + available + n) % length
    BY <1>2, <1>4, <2>1, RoundFirst
  <2>3. readPos + available + n = readPos + available'
    <3>1. available' = available + n /\ n \in Nat /\ available \in Nat /\ readPos \in Nat
      BY <1>1, <1>2, <1>4
    <3>2. QED
      BY <3>1
  <2>4. (readPos + available + n) % length \in 0 .. length - 1
    BY <1>2, <2>1, Turns
  <2>5. writePos' = (readPos + available + n) % length
    BY <1>1, <1>2, <2>2
  <2>6. QED
    BY <2>3, <2>4, <2>5
<1>8. ring' # << >>
  BY <1>2, <1>5
<1>9. TypeOK' /\ DeviceHasRing' /\ RingForFormat'
  BY <1>1, <1>2, <1>5, <1>6, <1>7, <1>8 DEF TypeOK, DeviceHasRing, RingForFormat
<1>10. WholeFrames'
  BY <1>1, <1>2, <1>5, <1>6, <1>7 DEF WholeFrames
<1>11. QED
  BY <1>9, <1>10

-----------------------------------------------------------------------------
\* The device asks for whole frames, of a ring that is there.
LEMMA BeginRenderStep ==
  ASSUME IInv, NEW frames \in 1 .. MaxRender, BeginRender(frames) PROVE IInv'
<1> USE DEF IInv, positions, caller
<1>1. /\ unit = "started" /\ rpc' = "take" /\ requested' = frames * format.channels
      /\ UNCHANGED <<unit, format, ring, readPos, writePos, available, opened, cpc, asked>>
  BY DEF BeginRender
<1>2. frames \in Nat /\ format.channels \in Nat \ {0}
  BY <1>1, BoundAssumption, RingFacts DEF DeviceHasRing
<1>3. requested' \in Nat /\ requested' % format.channels = 0
  <2>1. /\ frames * format.channels \in Nat
        /\ (frames * format.channels) % format.channels = 0
    BY <1>2, WholeProduct
  <2>2. requested' = frames * format.channels
    BY DEF BeginRender
  <2>3. QED
    BY <2>1, <2>2
<1>4. TypeOK'
  BY <1>1, <1>3 DEF TypeOK
<1>5. DeviceHasRing'
  BY <1>1, <1>3 DEF DeviceHasRing
<1>6. RingForFormat' /\ WholeFrames'
  BY <1>1 DEF RingForFormat, WholeFrames
<1>7. QED
  BY <1>4, <1>5, <1>6

\* What the device takes of the ring.
Taken == IF requested < available THEN requested ELSE available

\* The device moves the read position by what it takes, also if that is nothing.
LEMMA RenderMoves ==
  ASSUME IInv, EndRender
  PROVE  /\ ring # << >> /\ Taken \in Nat /\ Taken <= available /\ Taken <= requested
         /\ Taken % format.channels = 0
         /\ readPos' = (readPos + Taken) % Len(ring)
         /\ available' = available - Taken
<1>1. ring # << >> /\ rpc = "take" /\ requested % format.channels = 0 /\ requested \in Nat
  BY DEF EndRender, IInv, DeviceHasRing, TypeOK
<1>2. /\ Len(ring) \in Nat \ {0} /\ available \in Nat /\ available % format.channels = 0
      /\ readPos \in Nat /\ readPos < Len(ring)
  BY <1>1, RingFacts
<1>3. Taken \in Nat /\ Taken <= available /\ Taken <= requested
  <2>1. requested \in Nat /\ available \in Nat
    BY <1>1, <1>2
  <2>2. QED
    BY <2>1 DEF Taken
<1>4. Taken % format.channels = 0
  BY <1>1, <1>2 DEF Taken
<1>5. /\ readPos' = IF Taken = 0 THEN readPos ELSE (readPos + Taken) % Len(ring)
      /\ available' = available - Taken
  BY Zenon DEF EndRender, Taken
<1>6. Taken = 0 => (readPos + Taken) % Len(ring) = readPos
  BY <1>2, InRing
<1>7. QED
  BY <1>1, <1>3, <1>4, <1>5, <1>6

\* A block of silence and of what the ring holds leaves the ring whole.
LEMMA EndRenderStep == IInv /\ EndRender => IInv'
<1> SUFFICES ASSUME IInv, EndRender PROVE IInv'
  OBVIOUS
<1> USE DEF IInv, caller
<1> DEFINE length == Len(ring)
           c == format.channels
<1>1. /\ rpc' = "idle" /\ requested' = 0
      /\ UNCHANGED <<unit, format, ring, writePos, opened, cpc, asked>>
  BY DEF EndRender
<1>2. /\ ring # << >> /\ Taken \in Nat /\ Taken <= available
      /\ Taken % c = 0
      /\ readPos' = (readPos + Taken) % length
      /\ available' = available - Taken
  BY RenderMoves
<1>3. /\ length \in Nat \ {0} /\ c \in Nat \ {0} /\ length % c = 0
      /\ available \in Nat /\ available <= length /\ available % c = 0
      /\ readPos \in Nat /\ readPos % c = 0
      /\ writePos = (readPos + available) % length
  BY <1>2, RingFacts
<1> HIDE DEF length, c
<1>4. readPos + Taken \in Nat
  <2>1. readPos \in Nat /\ Taken \in Nat
    BY <1>2, <1>3
  <2>2. QED
    BY <2>1
<1>5. available' \in Nat /\ available' <= length /\ available' % c = 0
  <2>1. (available - Taken) % c = 0
    BY <1>2, <1>3, WholeDifference
  <2>2. available - Taken \in Nat /\ available - Taken <= length
    <3>1. /\ available \in Nat /\ Taken \in Nat /\ Taken <= available
          /\ length \in Nat /\ available <= length
      BY <1>2, <1>3
    <3>2. QED
      BY <3>1
  <2>3. QED
    BY <1>2, <2>1, <2>2
<1>6. readPos' \in Nat /\ readPos' < length /\ readPos' % c = 0
  <2>1. (readPos + Taken) % c = 0
    BY <1>2, <1>3, WholeSum
  <2>2. ((readPos + Taken) % length) % c = 0
    BY <1>3, <1>4, <2>1, WholeTurn
  <2>3. (readPos + Taken) % length \in 0 .. length - 1
    BY <1>3, <1>4, Turns
  <2>4. (readPos + Taken) % length \in Nat /\ (readPos + Taken) % length < length
    BY <1>3, <2>3
  <2>5. QED
    BY <1>2, <2>2, <2>4
<1>7. writePos = (readPos' + available') % length
  <2>1. (((readPos + Taken) % length) + (available - Taken)) % length
           = ((readPos + Taken) + (available - Taken)) % length
    <3>1. available - Taken \in Nat
      BY <1>2, <1>5
    <3>2. QED
      BY <1>3, <1>4, <3>1, RoundFirst
  <2>2. (readPos + Taken) + (available - Taken) = readPos + available
    <3>1. readPos \in Nat /\ Taken \in Nat /\ available \in Nat
      BY <1>2, <1>3
    <3>2. QED
      BY <3>1
  <2>3. QED
    BY <1>2, <1>3, <2>1, <2>2
<1>8. TypeOK' /\ DeviceHasRing'
  BY <1>1, <1>5, <1>6 DEF TypeOK, DeviceHasRing
<1>9. RingForFormat'
  <2>1. ~opened => available' = 0
    <3>1. ~opened => available = 0
      BY DEF RingForFormat
    <3>2. available \in Nat /\ Taken \in Nat /\ Taken <= available /\ available' = available - Taken
      BY <1>2, <1>3
    <3>3. QED
      BY <3>1, <3>2
  <2>2. QED
    BY <1>1, <1>2, <2>1 DEF RingForFormat
<1>10. WholeFrames'
  <2>1. format' = format /\ ring' = ring /\ writePos' = writePos
    BY <1>1
  <2>2. QED
    BY <1>5, <1>6, <1>7, <2>1 DEF WholeFrames, length, c
<1>11. QED
  BY <1>8, <1>9, <1>10

\* Every step of the pipeline or of the device keeps the invariant.
THEOREM NextIInv == IInv /\ [Next]_vars => IInv'
<1> SUFFICES ASSUME IInv, [Next]_vars PROVE IInv'
  OBVIOUS
<1>1. ASSUME UNCHANGED vars PROVE IInv'
  BY <1>1 DEF vars, positions, caller, device, IInv, TypeOK, DeviceHasRing,
              RingForFormat, WholeFrames
<1>2. CASE OpenOrClose
  BY <1>2, UnitStep, ClearStep, MakeRingStep DEF OpenOrClose
<1>3. CASE WriteCall
  BY <1>1, <1>3, WriteStep DEF WriteCall, WriteRefused
<1>4. CASE Render
  BY <1>4, BeginRenderStep, EndRenderStep DEF Render
<1>5. QED
  BY <1>1, <1>2, <1>3, <1>4 DEF Next

\* The invariant holds however the sink is opened, written, heard and closed.
THEOREM Invariance == Spec => []IInv
BY InitIInv, NextIInv, PTL DEF Spec

\* The ring is cut at frame boundaries, and the positions differ by exactly what
\* is available, for every format that open accepts.
THEOREM FramesWhole == Spec => []WholeFrames
<1>1. IInv => WholeFrames
  BY DEF IInv
<1>2. QED
  BY <1>1, Invariance, PTL

-----------------------------------------------------------------------------
\* The sink as a queue: what is in it, and how writes and requests change it.

Sound == Sample \cup {Silence}

\* Place of the i-th sample to be heard, counted from 0.
Place(i) == (readPos + i - 1) % Len(ring)

\* The queue has as many samples as are available, in the order of the places.
InPlaces == /\ Queued \in Seq(Sound) /\ Len(Queued) = available
            /\ \A i \in 1 .. available : Queued[i] = ring[1 + Place(i)]

LEMMA QueuedSamples == IInv => InPlaces
<1> SUFFICES ASSUME IInv PROVE InPlaces
  OBVIOUS
<1> USE DEF InPlaces
<1>1. available \in Nat /\ readPos \in Nat /\ ring \in Seq(Sound)
  BY DEF IInv, TypeOK, Sound
<1>2. ASSUME NEW i \in 1 .. available PROVE ring[1 + Place(i)] \in Sound
  <2>1. ring # << >>
    BY <1>1, <1>2 DEF IInv, RingForFormat
  <2>2. Len(ring) \in Nat \ {0} /\ readPos + i - 1 \in Nat
    BY <1>1, <2>1
  <2>3. Place(i) \in 0 .. Len(ring) - 1
    BY <2>2, Turns DEF Place
  <2>4. 1 + Place(i) \in 1 .. Len(ring)
    BY <2>2, <2>3
  <2>5. QED
    BY <1>1, <2>4
<1>3. Queued = [i \in 1 .. available |-> ring[1 + Place(i)]]
  BY DEF Queued, RingAt, Place
<1>4. Queued \in [1 .. available -> Sound]
  BY <1>2, <1>3
<1>5. Queued \in Seq(Sound) /\ Len(Queued) = available
  BY <1>1, <1>4, Block
<1>6. QED
  BY <1>3, <1>5

\* A sequence that goes on where another ends.
LEMMA Longer ==
  ASSUME NEW S, NEW s \in Seq(S), NEW t \in Seq(S), Len(s) < Len(t),
         \A i \in 1 .. Len(s) : s[i] = t[i]
  PROVE  Queue!IsStrictPrefix(s, t)
<1>1. Len(s) \in Nat /\ Len(t) \in Nat /\ Len(s) <= Len(t)
  OBVIOUS
<1>2. /\ SubSeq(s, 1, Len(s)) \in Seq(S) /\ Len(SubSeq(s, 1, Len(s))) = Len(s)
      /\ \A i \in 1 .. Len(s) : SubSeq(s, 1, Len(s))[i] = s[i]
  <2>1. \A i \in 1 .. Len(s) : s[i] \in S
    OBVIOUS
  <2>2. QED
    BY <1>1, <2>1, SubSeqProperties
<1>3. /\ SubSeq(t, 1, Len(s)) \in Seq(S) /\ Len(SubSeq(t, 1, Len(s))) = Len(s)
      /\ \A i \in 1 .. Len(s) : SubSeq(t, 1, Len(s))[i] = t[i]
  <2>1. \A i \in 1 .. Len(s) : t[i] \in S
    BY <1>1
  <2>2. QED
    BY <1>1, <2>1, SubSeqProperties
<1>4. SubSeq(s, 1, Len(s)) = SubSeq(t, 1, Len(s))
  BY <1>2, <1>3, SeqEqual
<1>5. QED
  BY <1>1, <1>4 DEF Queue!IsStrictPrefix, Queue!IsPrefix

\* How far behind the write position a place is, round the end: a sample still to
\* be heard lies at the far end of what a write may store, free places follow on.
LEMMA BehindWrite ==
  ASSUME NEW length \in Nat \ {0}, NEW read \in Nat, NEW held \in Nat, held <= length,
         NEW i \in 1 .. length
  PROVE  (((read + i - 1) % length) + (length - ((read + held) % length))) % length
             = IF i <= held THEN i - 1 - held + length ELSE i - 1 - held
<1> DEFINE a == read + i - 1
           b == read + held
           p == a \div length
           q == b \div length
           place == a % length
           write == b % length
           r == IF i <= held THEN i - 1 - held + length ELSE i - 1 - held
           t == IF i <= held THEN 0 ELSE 1
<1>1. a \in Nat /\ b \in Nat /\ a = b + (i - 1 - held)
  OBVIOUS
<1>2. p \in Nat /\ place \in 0 .. length - 1 /\ a = length * p + place
  BY <1>1, Turns
<1>3. q \in Nat /\ write \in 0 .. length - 1 /\ b = length * q + write
  BY <1>1, Turns
<1>4. r \in 0 .. length - 1 /\ t \in Int
  OBVIOUS
<1>5. length * t + r = i - 1 - held + length
  <2>1. length * 0 = 0 /\ length * 1 = length
    OBVIOUS
  <2>2. QED
    BY <2>1
<1> HIDE DEF a, b, p, q, place, write, r, t
<1>6. length * (q - p + t) = length * q - length * p + length * t
  BY <1>2, <1>3, <1>4
<1>7. length * q \in Int /\ length * p \in Int /\ length * t \in Int /\ q - p + t \in Int
  BY <1>2, <1>3, <1>4
<1>8. place + (length - write) = length * (q - p + t) + r
  BY <1>1, <1>2, <1>3, <1>4, <1>5, <1>6, <1>7
<1>9. place + (length - write) \in Nat
  BY <1>2, <1>3
<1>10. (place + (length - write)) % length = r
  BY <1>4, <1>7, <1>8, <1>9, OnePlace
<1>11. QED
  BY <1>10 DEF a, b, place, write, r

\* A write that the ring has room for is queued whole and in order, behind what is
\* there, also where it goes round the end of the ring.
LEMMA WriteAppends ==
  ASSUME IInv, NEW frames \in 1 .. MaxWrite,
         NEW samples \in [1 .. frames * format.channels -> Sample], Write(samples)
  PROVE  /\ samples \in Seq(Sound) /\ Len(samples) >= 1
         /\ Queued \in Seq(Sound) /\ Queued' = Queued \o samples
         /\ Len(Queued') <= Len(ring) /\ Len(ring') = Len(ring)
<1> DEFINE n == Len(samples)
           length == Len(ring)
<1>1. /\ opened /\ ring # << >> /\ n <= length - available
      /\ ring' = Stored(samples) /\ available' = available + n
      /\ readPos' = readPos
  BY DEF Write, Room, IInv, RingForFormat
<1>2. /\ length \in Nat \ {0} /\ format.channels \in Nat \ {0}
      /\ available \in Nat /\ available <= length /\ readPos \in Nat
      /\ writePos = (readPos + available) % length
  BY <1>1, RingFacts
<1>3. n \in Nat /\ n >= 1 /\ samples \in Seq(Sound)
  <2>1. frames \in Nat /\ frames >= 1
    BY BoundAssumption
  <2>2. frames * format.channels \in Nat /\ frames * format.channels >= 1
    <3>1. frames * format.channels >= frames * 1
      BY <1>2, <2>1
    <3>2. QED
      BY <1>2, <2>1, <3>1
  <2>3. samples \in [1 .. frames * format.channels -> Sound]
    BY DEF Sound
  <2>4. n = frames * format.channels /\ samples \in Seq(Sound)
    BY <2>2, <2>3, Block
  <2>5. QED
    BY <2>2, <2>4
<1>4. Len(ring') = length
  <2>1. ring' = [i \in 1 .. length |-> ring'[i]]
    BY <1>1 DEF Stored
  <2>2. QED
    BY <1>2, <2>1, Block
<1> HIDE DEF n, length
<1>5. InPlaces /\ InPlaces'
  BY WriteStep, QueuedSamples, PTL
<1>6. available' \in 1 .. length /\ available < available'
  BY <1>1, <1>2, <1>3
<1>7. ASSUME NEW i \in 1 .. available'
      PROVE  Queued'[i] = IF i <= available THEN Queued[i] ELSE samples[i - available]
  <2> DEFINE k == 1 + Place(i)
             offset == (k - 1 + length - writePos) % length
  <2>1. Place(i)' = Place(i)
    BY <1>1, <1>4 DEF Place, length
  <2>2. readPos + i - 1 \in Nat /\ i \in 1 .. length
    BY <1>2, <1>6
  <2>3. Place(i) \in 0 .. length - 1
    BY <1>2, <2>2, Turns DEF Place, length
  <2>4. k \in 1 .. length /\ k - 1 = Place(i)
    BY <1>2, <2>3
  <2>5. offset = IF i <= available THEN i - 1 - available + length ELSE i - 1 - available
    <3> HIDE DEF k, offset
    <3>1. (((readPos + i - 1) % length) + (length - ((readPos + available) % length))) % length
             = IF i <= available THEN i - 1 - available + length ELSE i - 1 - available
      <4>1. /\ length \in Nat \ {0} /\ readPos \in Nat /\ available \in Nat
            /\ available <= length /\ i \in 1 .. length
        BY <1>2, <2>2
      <4>2. QED
        BY <4>1, BehindWrite
    <3>2. Place(i) = (readPos + i - 1) % length
      BY DEF Place, length
    <3>3. QED
      BY <1>2, <2>4, <3>1, <3>2 DEF offset
  <2> HIDE DEF offset
  <2>6. (offset < n) = (i > available)
    BY <1>1, <1>2, <1>3, <1>6, <2>2, <2>5
  <2>7. i > available => offset + 1 = i - available
    BY <1>2, <2>2, <2>5
  <2>8. ring'[k] = IF offset < n THEN samples[offset + 1] ELSE ring[k]
    <3> HIDE DEF k
    <3>1. ring' = [j \in 1 .. length |->
                     IF (j - 1 + length - writePos) % length < n
                       THEN samples[((j - 1 + length - writePos) % length) + 1]
                       ELSE ring[j]]
      BY <1>1 DEF Stored, n, length
    <3>2. QED
      BY <2>4, <3>1 DEF offset
  <2>9. Queued'[i] = ring'[k]
    BY <1>5, <2>1 DEF InPlaces
  <2>10. i <= available => Queued[i] = ring[k]
    BY <1>2, <1>5, <2>2 DEF InPlaces
  <2> HIDE DEF k
  <2>11. CASE i <= available
    BY <1>2, <2>2, <2>6, <2>8, <2>9, <2>10, <2>11
  <2>12. CASE i > available
    BY <1>2, <2>2, <2>6, <2>7, <2>8, <2>9, <2>12
  <2>13. QED
    BY <1>2, <2>2, <2>11, <2>12
<1>8. Queued' = Queued \o samples
  <2>1. /\ Queued \in Seq(Sound) /\ Len(Queued) = available
        /\ Queued' \in Seq(Sound) /\ Len(Queued') = available'
    BY <1>5 DEF InPlaces
  <2>2. /\ Queued \o samples \in Seq(Sound)
        /\ Len(Queued \o samples) = available + n
        /\ \A i \in 1 .. available + n :
              (Queued \o samples)[i] = IF i <= available THEN Queued[i]
                                       ELSE samples[i - available]
    BY <1>3, <2>1, ConcatProperties DEF n
  <2>3. QED
    BY <1>1, <1>7, <2>1, <2>2, SeqEqual
<1>9. QED
  BY <1>3, <1>4, <1>5, <1>6, <1>8 DEF InPlaces, n, length

LEMMA WriteIsPut ==
  ASSUME IInv, NEW frames \in 1 .. MaxWrite,
         NEW samples \in [1 .. frames * format.channels -> Sample], Write(samples)
  PROVE  Queue!Put
<1>1. opened /\ UNCHANGED <<opened, heard>>
  BY DEF Write, device
<1>2. /\ samples \in Seq(Sound) /\ Len(samples) >= 1
      /\ Queued \in Seq(Sound) /\ Queued' = Queued \o samples
      /\ Len(Queued') <= Len(ring) /\ Len(ring') = Len(ring)
  BY WriteAppends
<1>3. /\ Queued' \in Seq(Sound) /\ Len(Queued) < Len(Queued')
      /\ \A i \in 1 .. Len(Queued) : Queued[i] = Queued'[i]
  BY <1>2, ConcatProperties
<1>4. Queue!IsStrictPrefix(Queued, Queued')
  BY <1>2, <1>3, Longer
<1>5. QED
  BY <1>1, <1>2, <1>4 DEF Queue!Put

\* The device hears the samples that are there in their order, then silence, and
\* what it has heard has left the queue.
LEMMA EndRenderIsTake == IInv /\ EndRender => Queue!Take
<1> SUFFICES ASSUME IInv, EndRender PROVE Queue!Take
  OBVIOUS
<1> DEFINE length == Len(ring)
           left == available - Taken
           rest == SubSeq(Queued, Taken + 1, Len(Queued))
<1>1. /\ ring # << >> /\ Taken \in Nat /\ Taken <= available /\ Taken <= requested
      /\ readPos' = (readPos + Taken) % length
      /\ available' = left
      /\ requested \in Nat
      /\ UNCHANGED <<ring, opened>>
  BY RenderMoves DEF IInv, TypeOK, EndRender
<1>2. /\ length \in Nat \ {0} /\ available \in Nat /\ readPos \in Nat
  BY <1>1, RingFacts
<1>3. IInv'
  BY EndRenderStep
<1>4. InPlaces /\ InPlaces'
  BY <1>3, QueuedSamples, PTL
<1>5. /\ heard' = [i \in 1 .. requested |->
                      IF i <= Taken THEN RingAt(readPos + i - 1) ELSE Silence]
  BY Zenon DEF EndRender, Taken
<1>6. Len(heard') = requested
  <2>1. heard' = [i \in 1 .. requested |-> heard'[i]]
    BY <1>5
  <2>2. QED
    BY <1>1, <2>1, Block
<1>7. Taken = IF Len(heard') < Len(Queued) THEN Len(heard') ELSE Len(Queued)
  BY <1>4, <1>6 DEF Taken, InPlaces
<1>8. ASSUME NEW i \in 1 .. Len(heard')
      PROVE  heard'[i] = IF i <= Taken THEN Queued[i] ELSE Silence
  <2>1. heard'[i] = IF i <= Taken THEN RingAt(readPos + i - 1) ELSE Silence
    BY <1>5, <1>6
  <2>2. ASSUME i <= Taken PROVE Queued[i] = RingAt(readPos + i - 1)
    <3>1. i \in 1 .. available
      BY <1>1, <1>2, <1>6, <2>2
    <3>2. QED
      BY <1>4, <3>1 DEF InPlaces, Place, RingAt
  <2>3. QED
    BY <2>1, <2>2
<1>9. left \in Nat /\ Taken + left = available
  BY <1>1, <1>2
<1>10. /\ rest \in Seq(Sound) /\ Len(rest) = left
       /\ \A i \in 1 .. left : rest[i] = Queued[Taken + i]
  <2>1. Queued \in Seq(Sound) /\ Len(Queued) = available
    BY <1>4 DEF InPlaces
  <2>2. \A i \in Taken + 1 .. available : Queued[i] \in Sound
    BY <1>1, <1>2, <2>1
  <2> HIDE DEF left
  <2>3. QED
    BY <1>1, <1>2, <1>9, <2>1, <2>2, SubSeqProperties
<1>11. ASSUME NEW i \in 1 .. left PROVE Queued'[i] = rest[i]
  <2>1. Taken + i \in 1 .. available
    BY <1>1, <1>2, <1>9
  <2>2. Place(i)' = Place(Taken + i)
    <3>1. readPos + Taken \in Nat /\ i - 1 \in Nat
      BY <1>1, <1>2, <1>9
    <3>2. (((readPos + Taken) % length) + (i - 1)) % length
             = ((readPos + Taken) + (i - 1)) % length
      BY <1>2, <3>1, RoundFirst
    <3>3. (readPos + Taken) + (i - 1) = readPos + (Taken + i) - 1
      BY <1>1, <1>2, <1>9
    <3>4. readPos' + i - 1 = readPos' + (i - 1)
      OBVIOUS
    <3>5. QED
      BY <1>1, <3>2, <3>3, <3>4 DEF Place
  <2>3. Queued'[i] = ring[1 + Place(Taken + i)]
    BY <1>1, <1>4, <2>2 DEF InPlaces
  <2>4. QED
    BY <1>4, <1>10, <2>1, <2>3 DEF InPlaces
<1>12. Queued' = rest
  <2>1. Queued' \in Seq(Sound) /\ Len(Queued') = left
    BY <1>1, <1>4 DEF InPlaces
  <2> HIDE DEF rest, left
  <2>2. QED
    BY <1>10, <1>11, <2>1, SeqEqual
<1>13. QED
  BY <1>1, <1>7, <1>8, <1>12 DEF Queue!Take

\* Closing empties the queue.
LEMMA ClearIsClear == IInv /\ Clear => Queue!Clear
<1> SUFFICES ASSUME IInv, Clear PROVE Queue!Clear
  OBVIOUS
<1>1. ring' = << >> /\ available' = 0 /\ opened' = FALSE /\ heard' = heard
  BY DEF Clear, device
<1>2. Queued' = << >>
  BY <1>1 DEF Queued
<1>3. QED
  BY <1>1, <1>2 DEF Queue!Clear

\* A closed sink has nothing queued.
LEMMA ClosedIsEmpty == IInv /\ ~opened => Queued = << >>
BY DEF IInv, RingForFormat, Queued

\* A ring is made for a closed sink: the empty queue gets its capacity.
LEMMA MakeRingIsResize == IInv /\ MakeRing => Queue!Resize
<1> SUFFICES ASSUME IInv, MakeRing PROVE Queue!Resize
  OBVIOUS
<1>1. /\ ~opened /\ available = 0
      /\ UNCHANGED <<available, opened, heard>>
  BY DEF MakeRing, IInv, RingForFormat, positions, device
<1>2. Queued = << >> /\ Queued' = << >>
  BY <1>1 DEF Queued
<1>3. Len(ring') \in Nat
  BY MakeRingStep DEF IInv, TypeOK
<1>4. QED
  BY <1>1, <1>2, <1>3 DEF Queue!Resize

\* The sink accepts samples once its device runs.
LEMMA MarkOpenedIsOpen == IInv /\ MarkOpened => Queue!Open
<1> SUFFICES ASSUME IInv, MarkOpened PROVE Queue!Open
  OBVIOUS
<1>1. /\ ~opened /\ opened' = TRUE
      /\ UNCHANGED <<ring, readPos, available, heard>>
  BY DEF MarkOpened, IInv, RingForFormat, positions, device
<1>2. Queued = << >> /\ Queued' = Queued
  BY <1>1, ClosedIsEmpty DEF Queued, RingAt
<1>3. QED
  BY <1>1, <1>2 DEF Queue!Open

\* The other steps neither queue nor hear anything.
LEMMA OthersStutter ==
  (\/ CallClose \/ (\E f \in Format : CallOpen(f)) \/ StopUnit \/ RefuseFormat
   \/ MakeUnitFails \/ MakeUnit \/ StartUnitFails \/ StartUnit
   \/ (\E frames \in 1 .. MaxRender : BeginRender(frames)) \/ UNCHANGED vars)
    => UNCHANGED Queue!vars
<1> SUFFICES ASSUME \/ CallClose \/ (\E f \in Format : CallOpen(f)) \/ StopUnit
                    \/ RefuseFormat \/ MakeUnitFails \/ MakeUnit \/ StartUnitFails
                    \/ StartUnit \/ (\E frames \in 1 .. MaxRender : BeginRender(frames))
                    \/ UNCHANGED vars
             PROVE  UNCHANGED Queue!vars
  OBVIOUS
<1>1. UNCHANGED <<ring, readPos, available, opened, heard>>
  BY DEF CallClose, CallOpen, StopUnit, RefuseFormat, MakeUnitFails, MakeUnit,
         StartUnitFails, StartUnit, BeginRender, vars, positions, device
<1>2. Queued' = Queued
  BY <1>1 DEF Queued, RingAt
<1>3. QED
  BY <1>1, <1>2 DEF Queue!vars

\* Every step of the sink is one of the queue, or nothing to it.
LEMMA NextImplements == IInv /\ [Next]_vars => [Queue!Next]_(Queue!vars)
<1> SUFFICES ASSUME IInv, [Next]_vars PROVE [Queue!Next]_(Queue!vars)
  OBVIOUS
<1>1. CASE OpenOrClose
  <2>1. \/ (\/ CallClose \/ (\E f \in Format : CallOpen(f)) \/ StopUnit \/ RefuseFormat
            \/ MakeUnitFails \/ MakeUnit \/ StartUnitFails \/ StartUnit)
        \/ Clear \/ MakeRing \/ MarkOpened
    BY <1>1, Zenon DEF OpenOrClose
  <2>2. CASE \/ CallClose \/ (\E f \in Format : CallOpen(f)) \/ StopUnit
             \/ RefuseFormat \/ MakeUnitFails \/ MakeUnit \/ StartUnitFails \/ StartUnit
    BY <2>2, OthersStutter
  <2>3. CASE Clear
    BY <2>3, ClearIsClear DEF Queue!Next
  <2>4. CASE MakeRing
    BY <2>4, MakeRingIsResize DEF Queue!Next
  <2>5. CASE MarkOpened
    BY <2>5, MarkOpenedIsOpen DEF Queue!Next
  <2>6. QED
    BY <2>1, <2>2, <2>3, <2>4, <2>5
<1>2. CASE WriteCall
  BY <1>2, WriteIsPut, OthersStutter DEF WriteCall, WriteRefused, Queue!Next
<1>3. CASE Render
  BY <1>3, EndRenderIsTake, OthersStutter DEF Render, Queue!Next
<1>4. CASE UNCHANGED vars
  BY <1>4, OthersStutter
<1>5. QED
  BY <1>1, <1>2, <1>3, <1>4 DEF Next

\* A sink that was never opened is an empty queue that accepts nothing.
LEMMA InitImplements == Init => Queue!Init
<1> SUFFICES ASSUME Init PROVE Queue!Init
  OBVIOUS
<1>1. ring = << >> /\ available = 0 /\ opened = FALSE /\ heard = << >>
  BY DEF Init
<1>2. Queued = << >> /\ Len(ring) = 0
  BY <1>1 DEF Queued
<1>3. QED
  BY <1>1, <1>2 DEF Queue!Init

\* Round the end of the ring and across opens, closes and short requests, the
\* sink implements the bounded queue of samples.
THEOREM SinkIsQueue == Spec => ImplementsSampleQueue
BY InitImplements, NextImplements, Invariance, PTL
   DEF Spec, ImplementsSampleQueue, Queue!Spec

=============================================================================
