------------------------- MODULE JitterBufferProofs -------------------------
(***************************************************************************)
(* RtpJitterBuffer for every modulus, capacity and stream: the variables   *)
(* keep their types, the map never exceeds capacity_, and no accepted packet *)
(* is lost track of.  If losses end before the numbers wrap (MildNetwork), *)
(* the buffer also keeps its place in the stream: nothing held is behind it, *)
(* nothing it needs is refused, order is kept, and OrderedStream implemented. *)
(***************************************************************************)
EXTENDS JitterBuffer, FiniteSetTheorems, TLAPS

LEMMA SeqOfType ==
  ASSUME NEW i \in Nat
  PROVE  SeqOf(i) \in Sequence
BY SeqModAssumption DEF SeqOf, Sequence

LEMMA NextSequenceType ==
  ASSUME NEW s \in Sequence
  PROVE  NextSequence(s) \in Sequence
BY SeqModAssumption DEF NextSequence, Sequence

LEMMA IndexIsNat == Index \subseteq Nat
BY StreamAssumption DEF Index

LEMMA StatsType ==
  ASSUME NEW i, NEW lost \in Nat, stats \in Stats
  PROVE  /\ CountReceived(i, lost) \in Stats
         /\ CountReceived(i, lost).received = stats.received + 1
         /\ CountReceived(i, lost).discarded = stats.discarded
         /\ CountDiscarded \in Stats
         /\ CountDiscarded.received = stats.received + 1
         /\ CountDiscarded.discarded = stats.discarded + 1
BY DEF CountReceived, CountDiscarded, Stats

\* A set of sequence numbers is finite, so that its size can be counted.
LEMMA HeldFinite ==
  ASSUME NEW S, S \subseteq Sequence
  PROVE  IsFiniteSet(S) /\ Cardinality(S) \in Nat
<1>1. IsFiniteSet(Sequence)
  BY FS_Interval, SeqModAssumption DEF Sequence
<1>2. QED
  BY <1>1, FS_Subset, FS_CardinalityType

-----------------------------------------------------------------------------
\* The variables of the buffer keep their types (rtp_jitter_buffer.h:34-38).
THEOREM TypeCorrect == Spec => []TypeOK
<1>1. Init => TypeOK
  <2> SUFFICES ASSUME Init PROVE TypeOK
    OBVIOUS
  <2>1. DOMAIN packets = {}
    BY DEF Init
  <2>2. stats \in Stats
    BY DEF Init, NoStats, Stats
  <2>3. expected \in Sequence /\ floor \in Int /\ newest \in Int
    BY SeqModAssumption, StreamAssumption DEF Init, Sequence
  <2> QED
    BY <2>1, <2>2, <2>3 DEF Init, TypeOK
<1>2. TypeOK /\ [Next]_vars => TypeOK'
  <2> SUFFICES ASSUME TypeOK, [Next]_vars PROVE TypeOK'
    OBVIOUS
  <2> USE DEF TypeOK
  <2>1. ASSUME NEW i \in Index, Push(i) PROVE TypeOK'
    <3>1. i \in Nat /\ SeqOf(i) \in Sequence
      BY SeqOfType, IndexIsNat
    <3>2. ExpectedFor(i) \in Sequence
      BY <3>1 DEF ExpectedFor
    <3>3. newest' \in Int
      BY <2>1, <3>1 DEF Push, Arrives
    <3>4. Held(i) \subseteq Sequence
      BY <3>1 DEF Held
    <3>5. \A s \in Held(i) : Extended(i)[s] \in Nat /\ SeqOf(Extended(i)[s]) = s
      BY <3>1 DEF Extended, Held
    <3>6. DOMAIN Extended(i) = Held(i)
      BY DEF Extended
    <3>7. CASE PushDiscarded(i)
      BY <3>7, <3>3, StatsType DEF PushDiscarded, history
    <3>8. CASE PushKept(i)
      <4>1. stats' \in Stats
        BY <3>8, StatsType DEF PushKept
      <4>2. floor' \in Int
        BY <3>8, <3>1 DEF PushKept
      <4> QED
        BY <3>8, <4>1, <4>2, <3>2, <3>3, <3>4, <3>5, <3>6 DEF PushKept
    <3>9. CASE PushEvicting(i)
      <4>1. PICK first \in Held(i) :
               /\ expected' = NextSequence(first)
               /\ packets' = Without(Extended(i), first)
               /\ stats' = CountReceived(i, IF first = ExpectedFor(i) THEN 0 ELSE 1)
               /\ floor' = Extended(i)[first]
        BY <3>9 DEF PushEvicting
      <4>2. stats' \in Stats
        BY <4>1, StatsType
      <4>3. DOMAIN packets' = Held(i) \ {first}
        BY <4>1, <3>6 DEF Without
      <4>4. \A s \in DOMAIN packets' : packets'[s] = Extended(i)[s]
        BY <4>1, <4>3, <3>6 DEF Without
      <4>5. expected' \in Sequence
        BY <4>1, <3>4, NextSequenceType
      <4>6. initialized' = TRUE /\ evicted' \in Nat /\ delivered' \in Nat
        BY <3>9 DEF PushEvicting
      <4>7. floor' \in Int
        BY <4>1, <3>5
      <4> QED
        BY <4>2, <4>3, <4>4, <4>5, <4>6, <4>7, <3>3, <3>4, <3>5
    <3> QED
      BY <2>1, <3>7, <3>8, <3>9 DEF Push
  <2>2. CASE Pop
    <3>1. DOMAIN packets' = DOMAIN packets \ {expected}
      BY <2>2 DEF Pop, Without
    <3>2. \A s \in DOMAIN packets' : packets'[s] = packets[s]
      BY <2>2, <3>1 DEF Pop, Without
    <3>3. expected' \in Sequence
      BY <2>2, NextSequenceType DEF Pop
    <3> QED
      BY <2>2, <3>1, <3>2, <3>3 DEF Pop
  <2>3. CASE Reset
    <3>1. DOMAIN packets' = {}
      BY <2>3 DEF Reset
    <3>2. stats' \in Stats
      BY <2>3 DEF Reset, NoStats, Stats
    <3>3. expected' \in Sequence
      BY <2>3, SeqModAssumption DEF Reset, Sequence
    <3> QED
      BY <2>3, <3>1, <3>2, <3>3 DEF Reset
  <2>4. CASE UNCHANGED vars
    BY <2>4 DEF vars
  <2> QED
    BY <2>1, <2>2, <2>3, <2>4 DEF Next
<1> QED
  BY <1>1, <1>2, PTL DEF Spec

-----------------------------------------------------------------------------
\* What each step does to the number of held packets.
LEMMA PushSize ==
  ASSUME TypeOK, NEW i \in Index, ~Rejected(i)
  PROVE  /\ IsFiniteSet(Held(i))
         /\ Cardinality(Held(i)) = Cardinality(DOMAIN packets) + 1
         /\ \A first \in Held(i) :
               Cardinality(DOMAIN Without(Extended(i), first))
                   = Cardinality(DOMAIN packets)
<1>1. IsFiniteSet(DOMAIN packets) /\ Cardinality(DOMAIN packets) \in Nat
  BY HeldFinite DEF TypeOK
<1>2. SeqOf(i) \notin DOMAIN packets
  BY DEF Rejected
<1>3. /\ IsFiniteSet(Held(i))
      /\ Cardinality(Held(i)) = Cardinality(DOMAIN packets) + 1
  BY <1>1, <1>2, FS_AddElement DEF Held
<1>4. ASSUME NEW first \in Held(i)
      PROVE  Cardinality(DOMAIN Without(Extended(i), first))
                 = Cardinality(DOMAIN packets)
  <2>1. DOMAIN Without(Extended(i), first) = Held(i) \ {first}
    BY DEF Without, Extended
  <2>2. Cardinality(Held(i) \ {first}) = Cardinality(Held(i)) - 1
    BY <1>3, FS_RemoveElement
  <2> QED
    BY <1>1, <1>3, <2>1, <2>2
<1> QED
  BY <1>3, <1>4

LEMMA PopSize ==
  ASSUME TypeOK, Pop
  PROVE  Cardinality(DOMAIN packets') = Cardinality(DOMAIN packets) - 1
<1>1. IsFiniteSet(DOMAIN packets) /\ expected \in DOMAIN packets
  BY HeldFinite DEF TypeOK, Pop
<1>2. DOMAIN packets' = DOMAIN packets \ {expected}
  BY DEF Pop, Without
<1> QED
  BY <1>1, <1>2, FS_RemoveElement

\* push inserts first and erases afterwards, yet never leaves more than
\* capacity_ packets in the map (push, rtp_jitter_buffer.cpp:37-49).
THEOREM CapacityRespected == Spec => []CapacityBound
<1>1. Init => CapacityBound
  <2> SUFFICES ASSUME Init PROVE CapacityBound
    OBVIOUS
  <2>1. DOMAIN packets = {}
    BY DEF Init
  <2> QED
    BY <2>1, FS_EmptySet, CapacityAssumption DEF CapacityBound
<1>2. TypeOK /\ CapacityBound /\ [Next]_vars => CapacityBound'
  <2> SUFFICES ASSUME TypeOK, CapacityBound, [Next]_vars PROVE CapacityBound'
    OBVIOUS
  <2>0. Cardinality(DOMAIN packets) \in Nat
    BY HeldFinite DEF TypeOK
  <2>1. ASSUME NEW i \in Index, Push(i) PROVE CapacityBound'
    <3>1. CASE PushDiscarded(i)
      BY <3>1 DEF PushDiscarded, CapacityBound
    <3>2. CASE PushKept(i)
      <4>1. DOMAIN packets' = Held(i)
        BY <3>2 DEF PushKept, Extended
      <4> QED
        BY <3>2, <4>1 DEF PushKept, CapacityBound
    <3>3. CASE PushEvicting(i)
      BY <3>3, PushSize DEF PushEvicting, CapacityBound
    <3> QED
      BY <2>1, <3>1, <3>2, <3>3 DEF Push
  <2>2. CASE Pop
    BY <2>0, <2>2, PopSize, CapacityAssumption DEF CapacityBound
  <2>3. CASE Reset
    <3>1. DOMAIN packets' = {}
      BY <2>3 DEF Reset
    <3> QED
      BY <3>1, FS_EmptySet, CapacityAssumption DEF CapacityBound
  <2>4. CASE UNCHANGED vars
    BY <2>4 DEF vars, CapacityBound
  <2> QED
    BY <2>1, <2>2, <2>3, <2>4 DEF Next
<1> QED
  BY <1>1, <1>2, TypeCorrect, PTL DEF Spec

\* Every packet push accepted was popped, was erased by a later push, or is
\* still held (push and pop together, rtp_jitter_buffer.cpp:19-62).
THEOREM PacketsAccountedFor == Spec => []PacketsConserved
<1>1. Init => PacketsConserved
  <2> SUFFICES ASSUME Init PROVE PacketsConserved
    OBVIOUS
  <2>1. DOMAIN packets = {}
    BY DEF Init
  <2> QED
    BY <2>1, FS_EmptySet DEF Init, NoStats, PacketsConserved
<1>2. TypeOK /\ PacketsConserved /\ [Next]_vars => PacketsConserved'
  <2> SUFFICES ASSUME TypeOK, PacketsConserved, [Next]_vars
               PROVE  PacketsConserved'
    OBVIOUS
  <2>0. /\ Cardinality(DOMAIN packets) \in Nat
        /\ stats.received \in Nat /\ stats.discarded \in Nat
        /\ delivered \in Nat /\ evicted \in Nat
        /\ stats \in Stats
    BY HeldFinite DEF TypeOK, Stats
  <2> USE DEF PacketsConserved
  <2>1. ASSUME NEW i \in Index, Push(i) PROVE PacketsConserved'
    <3>1. CASE PushDiscarded(i)
      BY <2>0, <3>1, StatsType DEF PushDiscarded, history
    <3>2. CASE PushKept(i)
      <4>1. DOMAIN packets' = Held(i)
        BY <3>2 DEF PushKept, Extended
      <4>2. Cardinality(DOMAIN packets') = Cardinality(DOMAIN packets) + 1
        BY <3>2, <4>1, PushSize DEF PushKept
      <4> QED
        BY <2>0, <3>2, <4>2, StatsType DEF PushKept
    <3>3. CASE PushEvicting(i)
      <4>1. Cardinality(DOMAIN packets') = Cardinality(DOMAIN packets)
        BY <3>3, PushSize DEF PushEvicting
      <4>2. /\ stats'.received = stats.received + 1
            /\ stats'.discarded = stats.discarded
            /\ evicted' = evicted + 1
            /\ delivered' = delivered
        BY <2>0, <3>3, StatsType DEF PushEvicting
      <4> QED
        BY <2>0, <4>1, <4>2
    <3> QED
      BY <2>1, <3>1, <3>2, <3>3 DEF Push
  <2>2. CASE Pop
    BY <2>0, <2>2, PopSize DEF Pop
  <2>3. CASE Reset
    <3>1. DOMAIN packets' = {}
      BY <2>3 DEF Reset
    <3> QED
      BY <2>3, <3>1, FS_EmptySet DEF Reset, NoStats
  <2>4. CASE UNCHANGED vars
    BY <2>4 DEF vars
  <2> QED
    BY <2>1, <2>2, <2>3, <2>4 DEF Next
<1> QED
  BY <1>1, <1>2, TypeCorrect, PTL DEF Spec

-----------------------------------------------------------------------------
\* A network that loses nothing for good once the sequence numbers come near to
\* wrapping, reorders within less than the capacity, and repeats nothing from
\* half a turn back.  The first is what the buffer needs: without it an eviction
\* takes the smallest key, which after the wrap is not the oldest packet.
MildNetwork ==
    /\ LossEnd + 1 + Window < SeqMod
    /\ Window < Capacity
    /\ 2 * (Window + 1) <= SeqMod

\* As far as the network can be ahead of the stream position.
Reach == (IF floor > LossEnd THEN floor ELSE LossEnd) + 1 + Window

\* The expected number is that of the packet after the stream position, and
\* what is held lies ahead of it, by less than half a turn and within reach.
Positioned ==
    /\ floor >= -1 /\ floor <= newest
    /\ initialized => expected = SeqOf(floor + 1)
    /\ \A s \in DOMAIN packets :
          /\ packets[s] > floor /\ packets[s] <= newest
          /\ 2 * (packets[s] - floor - 1) < SeqMod
          /\ packets[s] <= Reach

-----------------------------------------------------------------------------
\* Arithmetic of the sequence numbers.

\* No multiple of the modulus but zero is smaller than it.
LEMMA SmallMultiple ==
  ASSUME NEW m \in Int, SeqMod * m < SeqMod, SeqMod * m > -SeqMod
  PROVE  m = 0
<1>1. SeqMod \in Nat /\ SeqMod >= 2
  BY SeqModAssumption
<1>2. CASE m >= 1
  <2>1. SeqMod * m >= SeqMod * 1
    BY <1>1, <1>2
  <2>2. QED
    BY <1>1, <2>1
<1>3. CASE m <= -1
  <2>1. SeqMod * m <= SeqMod * (-1)
    BY <1>1, <1>3
  <2>2. QED
    BY <1>1, <2>1
<1>4. QED
  BY <1>2, <1>3

\* A packet's index is its sequence number and a number of whole turns.
LEMMA Turns ==
  ASSUME NEW i \in Nat
  PROVE  /\ i \div SeqMod \in Nat
         /\ SeqOf(i) \in Sequence
         /\ i = SeqMod * (i \div SeqMod) + SeqOf(i)
BY SeqModAssumption DEF SeqOf, Sequence

\* Two sequence numbers that differ by a number of whole turns are the same.
LEMMA OneResidue ==
  ASSUME NEW r \in Sequence, NEW t \in Sequence, NEW m \in Int, r = t + SeqMod * m
  PROVE  r = t
<1>1. SeqMod * m \in Int /\ SeqMod \in Nat
  BY SeqModAssumption
<1>2. SeqMod * m < SeqMod /\ SeqMod * m > -SeqMod
  BY <1>1 DEF Sequence
<1>3. m = 0
  BY <1>2, SmallMultiple
<1>4. QED
  BY <1>3, SeqModAssumption DEF Sequence

\* What is written as whole turns and a sequence number has that number.
LEMMA Residue ==
  ASSUME NEW i \in Nat, NEW q \in Int, NEW r \in Sequence, i = SeqMod * q + r
  PROVE  SeqOf(i) = r
<1> DEFINE p == i \div SeqMod
<1>1. p \in Int /\ SeqOf(i) \in Sequence /\ i = SeqMod * p + SeqOf(i)
  BY Turns
<1>2. SeqMod \in Int
  BY SeqModAssumption
<1>3. SeqMod * (q - p) = SeqMod * q - SeqMod * p
  BY <1>1, <1>2
<1>4. /\ SeqMod * q \in Int /\ SeqMod * p \in Int
      /\ SeqOf(i) \in Int /\ r \in Int
  BY <1>1, <1>2 DEF Sequence
<1>5. SeqOf(i) = r + SeqMod * (q - p)
  BY <1>1, <1>3, <1>4
<1>6. q - p \in Int
  BY <1>1
<1>7. QED
  BY <1>1, <1>5, <1>6, OneResidue

\* Before the first wrap a packet's number is its index.
LEMMA BeforeWrap == ASSUME NEW i \in Nat, i < SeqMod PROVE SeqOf(i) = i
<1>1. i \in Sequence /\ i = SeqMod * 0 + i /\ 0 \in Int
  BY SeqModAssumption DEF Sequence
<1>2. QED
  BY <1>1, Residue

\* Two packets of one number, less than a turn apart, are the same.
LEMMA OnePacket ==
  ASSUME NEW i \in Nat, NEW j \in Nat, SeqOf(i) = SeqOf(j),
         i - j < SeqMod, j - i < SeqMod
  PROVE  i = j
<1> DEFINE p == i \div SeqMod
           q == j \div SeqMod
<1>1. /\ p \in Nat /\ i = SeqMod * p + SeqOf(i) /\ SeqOf(i) \in Sequence
      /\ q \in Nat /\ j = SeqMod * q + SeqOf(j)
  BY Turns
<1>2. SeqMod \in Int /\ p - q \in Int /\ SeqMod * p \in Int /\ SeqMod * q \in Int
      /\ SeqOf(i) \in Int
  BY <1>1, SeqModAssumption DEF Sequence
<1>3. SeqMod * (p - q) = SeqMod * p - SeqMod * q
  BY <1>1, <1>2
<1>4. SeqMod * (p - q) = i - j
  <2>1. j = SeqMod * q + SeqOf(i)
    BY <1>1
  <2>2. i - j = SeqMod * p - SeqMod * q
    <3> HIDE DEF p, q
    <3>1. QED
      BY <1>1, <1>2, <2>1
  <2>3. QED
    BY <1>3, <2>2
<1>5. p - q = 0
  BY <1>2, <1>4, SmallMultiple, SeqModAssumption
<1>6. QED
  BY <1>4, <1>5, SeqModAssumption

\* The number after a packet's is that of the next packet, also at the wrap.
LEMMA NextPacket == ASSUME NEW i \in Nat PROVE NextSequence(SeqOf(i)) = SeqOf(i + 1)
<1> DEFINE p == i \div SeqMod
<1>1. p \in Nat /\ SeqOf(i) \in Sequence /\ i = SeqMod * p + SeqOf(i)
  BY Turns
<1>2. SeqMod \in Nat /\ SeqMod >= 2 /\ SeqMod * p \in Nat
  BY <1>1, SeqModAssumption
<1>3. CASE SeqOf(i) = SeqMod - 1
  <2>1. SeqMod * (p + 1) = SeqMod * p + SeqMod
    BY <1>1, <1>2
  <2>2. i + 1 = SeqMod * (p + 1) + 0
    BY <1>1, <1>2, <1>3, <2>1
  <2>3. SeqOf(i + 1) = 0
    BY <1>1, <1>2, <2>2, Residue DEF Sequence
  <2>4. QED
    BY <1>3, <2>3 DEF NextSequence
<1>4. CASE SeqOf(i) # SeqMod - 1
  <2>1. SeqOf(i) + 1 \in Sequence /\ i + 1 = SeqMod * p + (SeqOf(i) + 1)
    BY <1>1, <1>2, <1>4 DEF Sequence
  <2>2. SeqOf(i + 1) = SeqOf(i) + 1
    BY <1>1, <2>1, Residue
  <2>3. QED
    BY <1>4, <2>2 DEF NextSequence
<1>5. QED
  BY <1>3, <1>4

\* The number of a packet less than half a turn ahead of the awaited one is not
\* taken for an earlier one ...
LEMMA AheadIsAhead ==
  ASSUME NEW i \in Nat, NEW e \in Nat, i >= e, 2 * (i - e) < SeqMod
  PROVE  ~SequenceBefore(SeqOf(i), SeqOf(e))
<1> DEFINE distance == IF SeqOf(i) >= SeqOf(e) THEN SeqOf(i) - SeqOf(e)
                       ELSE SeqOf(i) - SeqOf(e) + SeqMod
           p == i \div SeqMod
           q == e \div SeqMod
<1>1. /\ p \in Nat /\ SeqOf(i) \in Sequence /\ i = SeqMod * p + SeqOf(i)
      /\ q \in Nat /\ SeqOf(e) \in Sequence /\ e = SeqMod * q + SeqOf(e)
  BY Turns
<1>2. /\ SeqMod \in Nat /\ SeqMod >= 2 /\ SeqMod * p \in Nat /\ SeqMod * q \in Nat
      /\ SeqMod * (p - q) = SeqMod * p - SeqMod * q
      /\ SeqMod * (p - q - 1) = SeqMod * p - SeqMod * q - SeqMod
  BY <1>1, SeqModAssumption
<1>3. distance \in Sequence /\ i - e \in Sequence
  BY <1>1, <1>2 DEF Sequence
<1>4. \/ i - e = distance + SeqMod * (p - q)
      \/ i - e = distance + SeqMod * (p - q - 1)
  BY <1>1, <1>2 DEF Sequence
<1>5. p - q \in Int /\ p - q - 1 \in Int
  BY <1>1
<1>6. i - e = distance
  BY <1>3, <1>4, <1>5, OneResidue
<1>7. ~(2 * distance >= SeqMod)
  BY <1>2, <1>6
<1>8. QED
  BY <1>7 DEF SequenceBefore

\* ... and that of a packet at most half a turn behind it is.
LEMMA BehindIsBehind ==
  ASSUME NEW i \in Nat, NEW e \in Nat, i < e, 2 * (e - i) <= SeqMod
  PROVE  SequenceBefore(SeqOf(i), SeqOf(e))
<1> DEFINE distance == IF SeqOf(i) >= SeqOf(e) THEN SeqOf(i) - SeqOf(e)
                       ELSE SeqOf(i) - SeqOf(e) + SeqMod
           p == i \div SeqMod
           q == e \div SeqMod
<1>1. /\ p \in Nat /\ SeqOf(i) \in Sequence /\ i = SeqMod * p + SeqOf(i)
      /\ q \in Nat /\ SeqOf(e) \in Sequence /\ e = SeqMod * q + SeqOf(e)
  BY Turns
<1>2. /\ SeqMod \in Nat /\ SeqMod >= 2 /\ SeqMod * p \in Nat /\ SeqMod * q \in Nat
      /\ SeqMod * (p - q) = SeqMod * p - SeqMod * q
      /\ SeqMod * (p - q + 1) = SeqMod * p - SeqMod * q + SeqMod
  BY <1>1, SeqModAssumption
<1>3. distance \in Sequence /\ i - e + SeqMod \in Sequence
  BY <1>1, <1>2 DEF Sequence
<1>4. \/ i - e + SeqMod = distance + SeqMod * (p - q)
      \/ i - e + SeqMod = distance + SeqMod * (p - q + 1)
  BY <1>1, <1>2 DEF Sequence
<1>5. p - q \in Int /\ p - q + 1 \in Int
  BY <1>1
<1>6. i - e + SeqMod = distance
  BY <1>3, <1>4, <1>5, OneResidue
<1>7. 2 * distance >= SeqMod
  BY <1>2, <1>6
<1>8. QED
  BY <1>7 DEF SequenceBefore

-----------------------------------------------------------------------------
\* What push and pop find when the buffer is positioned in the stream.

\* An accepted packet lies ahead of the stream position.
LEMMA AcceptedAhead ==
  ASSUME MildNetwork, TypeOK, Positioned, initialized,
         NEW i \in Index, InReach(i), ~Rejected(i)
  PROVE  i > floor /\ 2 * (i - floor - 1) < SeqMod /\ i <= Reach
<1>1. i \in Nat /\ floor + 1 \in Nat /\ Window \in Nat /\ newest \in Int /\ floor \in Int
  BY IndexIsNat, StreamAssumption DEF TypeOK, Positioned
<1>2. 2 * (i - floor) < SeqMod /\ i <= Reach /\ i >= newest - Window
  BY <1>1 DEF InReach, Reach
<1>3. ASSUME i <= floor PROVE FALSE
  <2>1. 2 * (floor + 1 - i) <= SeqMod
    BY <1>1, <1>2, SeqModAssumption DEF MildNetwork, Positioned
  <2>2. i < floor + 1
    BY <1>1, <1>3
  <2>3. SequenceBefore(SeqOf(i), SeqOf(floor + 1))
    BY <1>1, <2>1, <2>2, BehindIsBehind
  <2>4. QED
    BY <2>3 DEF Rejected, ExpectedFor, Positioned
<1>4. QED
  BY <1>1, <1>2, <1>3, SeqModAssumption

\* A packet ahead of the position and not held is not taken for one that is.
LEMMA NeededIsAccepted ==
  ASSUME TypeOK, Positioned, initialized, NEW i \in Index, InReach(i), i > floor,
         ~ \E s \in DOMAIN packets : packets[s] = i
  PROVE  ~Rejected(i)
<1>1. i \in Nat /\ floor + 1 \in Nat /\ floor \in Int /\ SeqMod \in Nat
  BY IndexIsNat, SeqModAssumption DEF TypeOK, Positioned
<1>2. 2 * (i - floor) < SeqMod
  BY DEF InReach
<1>3. ~SequenceBefore(SeqOf(i), SeqOf(floor + 1))
  BY <1>1, <1>2, AheadIsAhead
<1>4. ASSUME SeqOf(i) \in DOMAIN packets PROVE FALSE
  <2> DEFINE j == packets[SeqOf(i)]
  <2>1. j \in Nat /\ SeqOf(j) = SeqOf(i) /\ j > floor /\ 2 * (j - floor - 1) < SeqMod
    BY <1>4 DEF TypeOK, Positioned
  <2>2. i - j < SeqMod /\ j - i < SeqMod
    BY <1>1, <1>2, <2>1
  <2>3. j = i
    BY <1>1, <2>1, <2>2, OnePacket
  <2>4. QED
    BY <1>4, <2>3
<1>5. QED
  BY <1>3, <1>4 DEF Rejected, ExpectedFor, Positioned

\* The packet filed under the expected number is the next of the stream.
LEMMA ExpectedIsNext ==
  ASSUME TypeOK, Positioned, initialized, expected \in DOMAIN packets
  PROVE  packets[expected] = floor + 1
<1> DEFINE j == packets[expected]
<1>1. /\ j \in Nat /\ SeqOf(j) = expected /\ j > floor /\ 2 * (j - floor - 1) < SeqMod
      /\ floor \in Int /\ floor + 1 \in Nat /\ SeqMod \in Nat
  BY SeqModAssumption DEF TypeOK, Positioned
<1>2. SeqOf(j) = SeqOf(floor + 1)
  BY <1>1 DEF Positioned
<1>3. j - (floor + 1) < SeqMod /\ (floor + 1) - j < SeqMod
  BY <1>1
<1>4. QED
  BY <1>1, <1>2, <1>3, OnePacket

\* The map holds at most one packet for each index in an interval its packets
\* lie in.
LEMMA HeldWithin ==
  ASSUME NEW p, DOMAIN p \subseteq Sequence,
         \A s \in DOMAIN p : p[s] \in Nat /\ SeqOf(p[s]) = s,
         NEW a \in Int, NEW n \in Nat, \A s \in DOMAIN p : p[s] \in a + 1 .. a + n
  PROVE  Cardinality(DOMAIN p) <= n
<1> DEFINE T == a + 1 .. a + n
           f == [s \in DOMAIN p |-> p[s]]
<1>1. IsFiniteSet(T) /\ Cardinality(T) = n
  <2>1. a + 1 \in Int /\ a + n \in Int
    OBVIOUS
  <2>2. IsFiniteSet(T) /\ Cardinality(T) = IF a + 1 > a + n THEN 0 ELSE (a + n) - (a + 1) + 1
    BY <2>1, FS_Interval
  <2>3. QED
    BY <2>2
<1>2. f \in Injection(DOMAIN p, T)
  BY DEF Injection, IsInjective
<1>3. QED
  BY <1>1, <1>2, FS_Injection

\* What the map would hold with one more packet, as it lies in the stream.
LEMMA ExtendedPositioned ==
  ASSUME MildNetwork, TypeOK, Positioned, initialized,
         NEW i \in Index, InReach(i), ~Rejected(i)
  PROVE  /\ DOMAIN Extended(i) = Held(i) /\ Held(i) \subseteq Sequence
         /\ \A s \in Held(i) : /\ Extended(i)[s] \in Nat /\ SeqOf(Extended(i)[s]) = s
                               /\ Extended(i)[s] > floor
                               /\ 2 * (Extended(i)[s] - floor - 1) < SeqMod
                               /\ Extended(i)[s] <= Reach
<1>1. i \in Nat /\ SeqOf(i) \in Sequence
  BY IndexIsNat, SeqOfType
<1>2. i > floor /\ 2 * (i - floor - 1) < SeqMod /\ i <= Reach
  BY AcceptedAhead
<1>3. QED
  BY <1>1, <1>2 DEF Extended, Held, TypeOK, Positioned

\* Overfull, the buffer is still where packets are lost; so the numbers have
\* not wrapped, and the first key is the oldest packet.
LEMMA EvictsOldest ==
  ASSUME MildNetwork, TypeOK, Positioned, NEW i \in Index, InReach(i), ~Rejected(i),
         Cardinality(Held(i)) > Capacity
  PROVE  initialized /\ \A s \in Held(i) : Extended(i)[s] = s
<1>1. initialized
  <2> SUFFICES ASSUME ~initialized PROVE FALSE
    OBVIOUS
  <2>1. DOMAIN packets = {}
    BY DEF TypeOK
  <2>2. Cardinality(Held(i)) = 1
    BY <2>1, PushSize, FS_EmptySet
  <2>3. QED
    BY <2>2, CapacityAssumption
<1>2. /\ DOMAIN Extended(i) = Held(i) /\ Held(i) \subseteq Sequence
      /\ \A s \in Held(i) : /\ Extended(i)[s] \in Nat /\ SeqOf(Extended(i)[s]) = s
                            /\ Extended(i)[s] > floor /\ Extended(i)[s] <= Reach
  BY <1>1, ExtendedPositioned
<1>3. Window \in Nat /\ LossEnd \in Nat /\ floor \in Int /\ SeqMod \in Nat /\ Capacity \in Nat
  BY StreamAssumption, SeqModAssumption, CapacityAssumption DEF TypeOK
<1>4. floor <= LossEnd
  <2> SUFFICES ASSUME floor > LossEnd PROVE FALSE
    BY <1>3
  <2>1. Reach = floor + (Window + 1)
    BY <1>3 DEF Reach
  <2>2. \A s \in DOMAIN Extended(i) : Extended(i)[s] \in floor + 1 .. floor + (Window + 1)
    BY <1>2, <1>3, <2>1
  <2>3. Cardinality(DOMAIN Extended(i)) <= Window + 1
    <3> DEFINE p == Extended(i)
               n == Window + 1
    <3>1. /\ DOMAIN p \subseteq Sequence /\ n \in Nat
          /\ \A s \in DOMAIN p : p[s] \in Nat /\ SeqOf(p[s]) = s
          /\ \A s \in DOMAIN p : p[s] \in floor + 1 .. floor + n
      BY <1>2, <1>3, <2>2
    <3> HIDE DEF p, n
    <3>2. Cardinality(DOMAIN p) <= n
      BY <1>3, <3>1, HeldWithin
    <3>3. QED
      BY <3>2 DEF p, n
  <2>4. Cardinality(Held(i)) \in Nat
    BY <1>2, HeldFinite
  <2>5. QED
    BY <1>2, <1>3, <2>3, <2>4 DEF MildNetwork
<1>5. \A s \in Held(i) : Extended(i)[s] < SeqMod
  BY <1>2, <1>3, <1>4 DEF Reach, MildNetwork
<1>6. QED
  BY <1>1, <1>2, <1>5, BeforeWrap

\* An eviction moves the position to the oldest packet.
LEMMA EvictionMoves ==
  ASSUME MildNetwork, TypeOK, Positioned, NEW i \in Index, InReach(i), PushEvicting(i)
  PROVE  /\ initialized /\ floor' > floor
         /\ expected' = SeqOf(floor' + 1)
         /\ floor' \in Held(i) /\ Extended(i)[floor'] = floor'
         /\ packets' = Without(Extended(i), floor')
         /\ \A s \in Held(i) : Extended(i)[s] = s /\ floor' <= s
<1>1. ~Rejected(i) /\ Cardinality(Held(i)) > Capacity
  BY DEF PushEvicting
<1>2. PICK first \in Held(i) :
         /\ IsFirstKey(first, Held(i))
         /\ expected' = NextSequence(first)
         /\ packets' = Without(Extended(i), first)
         /\ floor' = Extended(i)[first]
  BY DEF PushEvicting
<1>3. initialized /\ \A s \in Held(i) : Extended(i)[s] = s
  BY <1>1, EvictsOldest
<1>4. /\ DOMAIN Extended(i) = Held(i)
      /\ \A s \in Held(i) : /\ Extended(i)[s] \in Nat /\ SeqOf(Extended(i)[s]) = s
                            /\ Extended(i)[s] > floor
  BY <1>1, <1>3, ExtendedPositioned
<1>5. first \in Nat /\ SeqOf(first) = first /\ floor' = first
  BY <1>2, <1>3, <1>4
<1>6. expected' = SeqOf(first + 1)
  BY <1>2, <1>5, NextPacket
<1>7. QED
  BY <1>2, <1>3, <1>4, <1>5, <1>6 DEF IsFirstKey

\* Every step leaves the buffer positioned in the stream.
LEMMA PositionedStep ==
  ASSUME MildNetwork, TypeOK, Positioned, [Next]_vars
  PROVE  Positioned'
<1>0. /\ floor \in Int /\ newest \in Int /\ SeqMod \in Nat /\ SeqMod >= 2
      /\ LossEnd \in Nat /\ Window \in Nat
  BY SeqModAssumption, StreamAssumption DEF TypeOK
<1>1. ASSUME NEW i \in Index, Push(i) PROVE Positioned'
  <2>1. /\ InReach(i) /\ i \in Nat /\ newest' >= newest /\ newest' >= i /\ newest' \in Int
        /\ SeqOf(i) \in Sequence
    BY <1>0, <1>1, IndexIsNat, SeqOfType DEF Push, Arrives
  <2>2. CASE PushDiscarded(i)
    <3>1. UNCHANGED <<initialized, expected, packets, floor>>
      BY <2>2 DEF PushDiscarded, history
    <3>2. QED
      BY <1>0, <2>1, <3>1 DEF Positioned, TypeOK, Reach
  <2>3. CASE PushKept(i) /\ initialized
    <3>1. /\ expected' = expected /\ packets' = Extended(i) /\ floor' = floor
          /\ initialized' /\ ~Rejected(i)
      BY <2>3 DEF PushKept, ExpectedFor
    <3>2. /\ DOMAIN Extended(i) = Held(i)
          /\ \A s \in Held(i) : /\ Extended(i)[s] \in Nat
                                /\ Extended(i)[s] > floor
                                /\ 2 * (Extended(i)[s] - floor - 1) < SeqMod
                                /\ Extended(i)[s] <= Reach
      BY <2>1, <2>3, <3>1, ExtendedPositioned
    <3>3. \A s \in Held(i) : Extended(i)[s] <= newest'
      BY <1>0, <2>1 DEF Extended, Held, Positioned, TypeOK
    <3>4. Reach' = Reach
      BY <3>1 DEF Reach
    <3>5. QED
      BY <1>0, <2>1, <2>3, <3>1, <3>2, <3>3, <3>4 DEF Positioned
  <2>4. CASE PushKept(i) /\ ~initialized
    <3>1. /\ expected' = SeqOf(i) /\ packets' = Extended(i) /\ floor' = i - 1
      BY <2>4 DEF PushKept, ExpectedFor
    <3>2. DOMAIN packets' = {SeqOf(i)} /\ packets'[SeqOf(i)] = i
      BY <2>4, <3>1 DEF Extended, Held, TypeOK
    <3>3. i <= Reach'
      BY <1>0, <2>1, <3>1 DEF Reach
    <3>4. expected' = SeqOf(floor' + 1)
      BY <2>1, <3>1
    <3>5. QED
      BY <1>0, <2>1, <3>1, <3>2, <3>3, <3>4 DEF Positioned
  <2>5. CASE PushEvicting(i)
    <3>1. /\ initialized /\ floor' > floor
          /\ expected' = SeqOf(floor' + 1)
          /\ floor' \in Held(i) /\ Extended(i)[floor'] = floor'
          /\ packets' = Without(Extended(i), floor')
          /\ \A s \in Held(i) : Extended(i)[s] = s /\ floor' <= s
      BY <2>1, <2>5, EvictionMoves
    <3>2. ~Rejected(i)
      BY <2>5 DEF PushEvicting
    <3>3. /\ DOMAIN Extended(i) = Held(i) /\ Held(i) \subseteq Sequence
          /\ \A s \in Held(i) : /\ Extended(i)[s] \in Nat
                                /\ 2 * (Extended(i)[s] - floor - 1) < SeqMod
                                /\ Extended(i)[s] <= Reach
      BY <2>1, <3>1, <3>2, ExtendedPositioned
    <3>4. \A s \in Held(i) : Extended(i)[s] <= newest'
      BY <1>0, <2>1 DEF Extended, Held, Positioned, TypeOK
    <3>5. /\ DOMAIN packets' = Held(i) \ {floor'}
          /\ \A s \in DOMAIN packets' : packets'[s] = Extended(i)[s]
      BY <3>1, <3>3 DEF Without
    <3>6. floor' \in Nat /\ Reach' >= Reach /\ Reach \in Int /\ Reach' \in Int
      BY <1>0, <3>1, <3>3 DEF Reach
    <3>7. floor' <= newest' /\ floor' >= -1
      BY <3>1, <3>4, <3>6
    <3>8. ASSUME NEW s \in DOMAIN packets'
          PROVE  /\ packets'[s] > floor' /\ packets'[s] <= newest'
                 /\ 2 * (packets'[s] - floor' - 1) < SeqMod
                 /\ packets'[s] <= Reach'
      <4>1. s \in Held(i) /\ s # floor' /\ packets'[s] = s /\ s \in Nat /\ floor' <= s
        BY <3>1, <3>3, <3>5
      <4>2. s <= newest' /\ s <= Reach /\ 2 * (s - floor - 1) < SeqMod
        BY <3>1, <3>3, <3>4, <4>1
      <4>3. QED
        BY <1>0, <3>1, <3>6, <4>1, <4>2
    <3>9. QED
      BY <3>1, <3>7, <3>8 DEF Positioned
  <2>6. QED
    BY <1>1, <2>2, <2>3, <2>4, <2>5 DEF Push
<1>2. CASE Pop
  <2>1. /\ initialized /\ expected \in DOMAIN packets
        /\ packets' = Without(packets, expected)
        /\ expected' = NextSequence(expected)
        /\ floor' = packets[expected] /\ UNCHANGED <<initialized, newest>>
    BY <1>2 DEF Pop
  <2>2. floor' = floor + 1 /\ floor + 1 \in Nat /\ floor' <= newest
    BY <1>0, <2>1, ExpectedIsNext DEF Positioned
  <2>3. expected' = SeqOf(floor' + 1)
    BY <2>1, <2>2, NextPacket DEF Positioned
  <2>4. /\ DOMAIN packets' = DOMAIN packets \ {expected}
        /\ \A s \in DOMAIN packets' : packets'[s] = packets[s]
    BY <2>1 DEF Without
  <2>5. Reach' >= Reach /\ Reach \in Int /\ Reach' \in Int
    BY <1>0, <2>2 DEF Reach
  <2>6. ASSUME NEW s \in DOMAIN packets'
        PROVE  /\ packets'[s] > floor' /\ packets'[s] <= newest'
               /\ 2 * (packets'[s] - floor' - 1) < SeqMod
               /\ packets'[s] <= Reach'
    <3>1. /\ s \in DOMAIN packets /\ s # expected /\ packets'[s] = packets[s]
          /\ packets[s] \in Nat /\ SeqOf(packets[s]) = s
          /\ packets[s] > floor /\ packets[s] <= newest
          /\ 2 * (packets[s] - floor - 1) < SeqMod /\ packets[s] <= Reach
      BY <2>4 DEF TypeOK, Positioned
    <3>2. packets[s] # floor + 1
      BY <2>1, <3>1 DEF Positioned
    <3>3. QED
      BY <1>0, <2>1, <2>2, <2>5, <3>1, <3>2
  <2>7. QED
    BY <1>0, <2>1, <2>2, <2>3, <2>6 DEF Positioned
<1>3. CASE Reset
  <2>1. DOMAIN packets' = {} /\ ~initialized' /\ UNCHANGED <<floor, newest>>
    BY <1>3 DEF Reset
  <2>2. QED
    BY <2>1 DEF Positioned
<1>4. CASE UNCHANGED vars
  BY <1>4 DEF vars, Positioned, Reach
<1>5. QED
  BY <1>1, <1>2, <1>3, <1>4 DEF Next

\* The buffer stays positioned in the stream, across overflow and wrap.
THEOREM StaysPositioned ==
  ASSUME MildNetwork PROVE Spec => [](TypeOK /\ Positioned)
<1>1. Init => Positioned
  <2> SUFFICES ASSUME Init PROVE Positioned
    OBVIOUS
  <2>1. DOMAIN packets = {}
    BY DEF Init
  <2>2. QED
    BY <2>1, StreamAssumption DEF Init, Positioned
<1>2. TypeOK /\ Positioned /\ [Next]_vars => Positioned'
  BY PositionedStep
<1>3. QED
  BY <1>1, <1>2, TypeCorrect, PTL DEF Spec

-----------------------------------------------------------------------------
\* Nothing held is behind the expected number, to sit there for a whole turn.
THEOREM NothingBehind == ASSUME MildNetwork PROVE Spec => []BufferedAhead
<1>1. TypeOK /\ Positioned => BufferedAhead
  <2> SUFFICES ASSUME TypeOK, Positioned, NEW s \in DOMAIN packets
               PROVE  ~SequenceBefore(s, expected)
    BY DEF BufferedAhead
  <2> DEFINE j == packets[s]
  <2>1. /\ j \in Nat /\ SeqOf(j) = s /\ floor + 1 \in Nat
        /\ j >= floor + 1 /\ 2 * (j - (floor + 1)) < SeqMod
    BY SeqModAssumption DEF TypeOK, Positioned
  <2>2. ~SequenceBefore(SeqOf(j), SeqOf(floor + 1))
    BY <2>1, AheadIsAhead
  <2>3. QED
    BY <2>1, <2>2 DEF TypeOK, Positioned
<1>2. QED
  BY <1>1, StaysPositioned, PTL

\* No packet that the stream still needs is refused.
THEOREM NeededTaken == ASSUME MildNetwork PROVE Spec => []NeededAccepted
<1>1. TypeOK /\ Positioned => NeededAccepted
  BY NeededIsAccepted DEF NeededAccepted
<1>2. QED
  BY <1>1, StaysPositioned, PTL

\* Packets come out in stream order, none twice, also across the wrap.
THEOREM InOrder == ASSUME MildNetwork PROVE Spec => DeliveredInOrder
<1>1. TypeOK /\ Positioned /\ [Next]_vars
        => [delivered' = delivered + 1 => floor' > floor]_vars
  <2> SUFFICES ASSUME TypeOK, Positioned, Next, delivered' = delivered + 1
               PROVE  floor' > floor
    BY DEF vars
  <2>1. delivered \in Nat /\ floor \in Int
    BY DEF TypeOK
  <2>2. Pop
    BY <2>1 DEF Next, Push, PushDiscarded, PushKept, PushEvicting, Reset, history
  <2>3. floor' = floor + 1
    BY <2>2, ExpectedIsNext DEF Pop
  <2>4. QED
    BY <2>1, <2>3
<1>2. QED
  BY <1>1, StaysPositioned, PTL DEF Spec, DeliveredInOrder

\* A position that moves by less than half a turn gets another number.
LEMMA PositionsDiffer ==
  ASSUME NEW f \in Int, NEW g \in Nat, f >= -1, g > f, 2 * (g - f - 1) < SeqMod
  PROVE  SeqOf(g + 1) # SeqOf(f + 1)
<1>1. f + 1 \in Nat /\ g + 1 \in Nat /\ f + 1 # g + 1
  OBVIOUS
<1>2. (g + 1) - (f + 1) < SeqMod /\ (f + 1) - (g + 1) < SeqMod
  BY SeqModAssumption
<1>3. QED
  BY <1>1, <1>2, OnePacket

\* A full map moves on with the next packet it accepts.
THEOREM FullMovesOn == ASSUME MildNetwork PROVE Spec => FullBufferMovesOn
<1> DEFINE Moves == (/\ Cardinality(DOMAIN packets) = Capacity
                     /\ stats'.received = stats.received + 1
                     /\ stats'.discarded = stats.discarded)
                    => expected' # expected
<1>1. TypeOK /\ Positioned /\ [Next]_vars => [Moves]_vars
  <2> SUFFICES ASSUME TypeOK, Positioned, Next,
                      Cardinality(DOMAIN packets) = Capacity,
                      stats'.received = stats.received + 1,
                      stats'.discarded = stats.discarded
               PROVE  expected' # expected
    BY DEF vars
  <2>1. stats \in Stats /\ stats.received \in Nat /\ stats.discarded \in Nat
    BY DEF TypeOK, Stats
  <2>2. PICK i \in Index : Push(i)
    BY <2>1 DEF Next, Pop, Reset, NoStats
  <2>3. ~PushDiscarded(i)
    BY <2>1, StatsType DEF PushDiscarded
  <2>4. ~PushKept(i)
    BY PushSize, CapacityAssumption DEF PushKept
  <2>5. PushEvicting(i) /\ InReach(i)
    BY <2>2, <2>3, <2>4 DEF Push, Arrives
  <2>6. /\ initialized /\ floor' > floor /\ expected' = SeqOf(floor' + 1)
        /\ floor' \in Held(i) /\ Extended(i)[floor'] = floor' /\ ~Rejected(i)
    BY <2>5, EvictionMoves DEF PushEvicting
  <2>7. floor' \in Nat /\ 2 * (floor' - floor - 1) < SeqMod
    BY <2>5, <2>6, ExtendedPositioned
  <2>8. floor \in Int /\ floor >= -1
    BY DEF TypeOK, Positioned
  <2>9. SeqOf(floor' + 1) # SeqOf(floor + 1)
    BY <2>6, <2>7, <2>8, PositionsDiffer
  <2>10. QED
    BY <2>6, <2>9 DEF Positioned
<1>2. QED
  BY <1>1, StaysPositioned, PTL DEF Spec, FullBufferMovesOn

-----------------------------------------------------------------------------
\* The packets held, without the numbers they are filed under.
Pending == {packets[s] : s \in DOMAIN packets}

\* Filing one more packet adds it to those held.
LEMMA ExtendedPending ==
  ASSUME NEW i, SeqOf(i) \notin DOMAIN packets
  PROVE  {Extended(i)[s] : s \in Held(i)} = Pending \cup {i}
<1>1. Extended(i)[SeqOf(i)] = i /\ \A s \in DOMAIN packets : Extended(i)[s] = packets[s]
  BY DEF Extended, Held
<1>2. QED
  BY <1>1 DEF Held, Pending

\* Each step of the buffer is one of the ordered stream, or leaves it alone.
LEMMA StreamStep ==
  ASSUME MildNetwork, TypeOK, Positioned, [Next]_vars
  PROVE  [Stream!Next]_(Stream!vars)
<1> USE DEF Pending
<1>0. floor \in Int
  BY DEF TypeOK
<1>1. ASSUME NEW i \in Index, Push(i) PROVE [Stream!Next]_(Stream!vars)
  <2>1. InReach(i) /\ i \in Nat
    BY <1>1, IndexIsNat DEF Push, Arrives
  <2>2. CASE PushDiscarded(i)
    BY <2>2 DEF PushDiscarded, history, Stream!vars
  <2>3. ASSUME ~Rejected(i), initialized
        PROVE  i > floor /\ i \notin Pending
    <3>1. i > floor
      BY <2>1, <2>3, AcceptedAhead
    <3>2. SeqOf(i) \notin DOMAIN packets
      BY <2>3 DEF Rejected
    <3>3. QED
      BY <3>1, <3>2 DEF TypeOK
  <2>4. CASE PushKept(i) /\ initialized
    <3>1. /\ initialized' = TRUE /\ packets' = Extended(i) /\ floor' = floor
          /\ ~Rejected(i)
      BY <2>4 DEF PushKept
    <3>2. DOMAIN packets' = Held(i)
      BY <3>1 DEF Extended
    <3>3. Pending' = Pending \cup {i}
      BY <3>1, <3>2, ExtendedPending DEF Rejected
    <3>4. Stream!Accept(i)
      BY <2>3, <2>4, <3>1, <3>3, <1>0 DEF Stream!Accept, TypeOK
    <3>5. QED
      BY <3>4 DEF Stream!Next
  <2>5. CASE PushKept(i) /\ ~initialized
    <3>1. /\ initialized' = TRUE /\ packets' = Extended(i) /\ floor' = i - 1
          /\ ~Rejected(i)
      BY <2>5 DEF PushKept
    <3>2. DOMAIN packets' = Held(i)
      BY <3>1 DEF Extended
    <3>3. Pending = {}
      BY <2>5 DEF TypeOK
    <3>4. Pending' = {i}
      BY <3>1, <3>2, <3>3, ExtendedPending DEF Rejected
    <3>5. Stream!Start(i)
      BY <2>5, <3>1, <3>4 DEF Stream!Start
    <3>6. QED
      BY <3>5 DEF Stream!Next
  <2>6. CASE PushEvicting(i)
    <3>1. /\ initialized /\ floor' \in Held(i) /\ Extended(i)[floor'] = floor'
          /\ packets' = Without(Extended(i), floor')
          /\ \A s \in Held(i) : Extended(i)[s] = s /\ floor' <= s
      BY <2>1, <2>6, EvictionMoves
    <3>2. initialized' = TRUE /\ ~Rejected(i)
      BY <2>6 DEF PushEvicting
    <3>3. {Extended(i)[s] : s \in Held(i)} = Pending \cup {i}
      BY <3>2, ExtendedPending DEF Rejected
    <3>4. /\ floor' \in Pending \cup {i}
          /\ \A j \in Pending \cup {i} : floor' <= j
      BY <3>1, <3>3
    <3>5. /\ DOMAIN packets' = Held(i) \ {floor'}
          /\ \A s \in DOMAIN packets' : packets'[s] = s
      BY <3>1 DEF Without, Extended
    <3>6. Pending' = (Pending \cup {i}) \ {floor'}
      BY <3>1, <3>3, <3>5
    <3>7. Stream!GiveUp(i)
      BY <2>3, <3>1, <3>2, <3>4, <3>6 DEF Stream!GiveUp, TypeOK
    <3>8. QED
      BY <3>7 DEF Stream!Next
  <2>7. QED
    BY <1>1, <2>2, <2>4, <2>5, <2>6 DEF Push
<1>2. CASE Pop
  <2>1. /\ initialized /\ expected \in DOMAIN packets /\ initialized' = initialized
        /\ packets' = Without(packets, expected)
        /\ floor' = packets[expected]
    BY <1>2 DEF Pop
  <2>2. packets[expected] = floor + 1
    BY <2>1, ExpectedIsNext
  <2>3. /\ DOMAIN packets' = DOMAIN packets \ {expected}
        /\ \A s \in DOMAIN packets' : packets'[s] = packets[s]
    BY <2>1 DEF Without
  <2>4. \A s \in DOMAIN packets : packets[s] = floor + 1 => s = expected
    BY <2>1, <2>2 DEF TypeOK
  <2>5. Pending' = Pending \ {floor + 1}
    BY <2>1, <2>2, <2>3, <2>4
  <2>6. Stream!Deliver
    BY <2>1, <2>2, <2>5 DEF Stream!Deliver
  <2>7. QED
    BY <2>6 DEF Stream!Next
<1>3. CASE Reset
  <2>1. initialized' = FALSE /\ floor' = floor /\ Pending' = {}
    BY <1>3 DEF Reset
  <2>2. Stream!Restart
    BY <2>1 DEF Stream!Restart
  <2>3. QED
    BY <2>2 DEF Stream!Next
<1>4. CASE UNCHANGED vars
  BY <1>4 DEF vars, Stream!vars
<1>5. QED
  BY <1>1, <1>2, <1>3, <1>4 DEF Next

\* As long as nothing is lost while the sequence numbers wrap, the buffer is an
\* ordered stream of packets, whatever loss, repetition and order before.
THEOREM Refines == ASSUME MildNetwork PROVE Spec => ImplementsOrderedStream
<1>1. Init => Stream!Init
  <2> SUFFICES ASSUME Init PROVE Stream!Init
    OBVIOUS
  <2>1. DOMAIN packets = {}
    BY DEF Init
  <2>2. QED
    BY <2>1, StreamAssumption DEF Init, Stream!Init
<1>2. TypeOK /\ Positioned /\ [Next]_vars => [Stream!Next]_(Stream!vars)
  BY StreamStep
<1>3. QED
  BY <1>1, <1>2, StaysPositioned, PTL DEF Spec, ImplementsOrderedStream, Stream!Spec

=============================================================================
