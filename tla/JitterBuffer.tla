---------------------------- MODULE JitterBuffer ----------------------------
(***************************************************************************)
(* RtpJitterBuffer (src/rtp_jitter_buffer.cpp): RTP packets come in with   *)
(* a sequence number of SeqMod values (2^16 in the code), are held in a    *)
(* std::map keyed by it, and are popped in sequence order.                 *)
(*                                                                         *)
(* A packet is represented by its index in the sender's stream; its        *)
(* sequence number is that index modulo SeqMod.  The index is what the     *)
(* payload stands for: the code never sees it, and no guard below reads it *)
(* except to say which packets the network may hand over.                  *)
(***************************************************************************)
EXTENDS Integers, FiniteSets, TLC

CONSTANTS
    SeqMod,        \* number of sequence numbers, 2^16 in the code
    Capacity,      \* capacity_, at least 1 (rtp_jitter_buffer.cpp:6)
    FirstIndex,    \* first packet of the sender's stream
    LastIndex,     \* bound: last packet of the sender's stream
    Window,        \* the network reorders and repeats within this distance
    LossEnd,       \* no packet after this one is lost for good
    Draining,      \* TRUE: the caller pops all it can before the next push,
                   \* as RtspSession::handle_media_packet does (rtsp.cpp:60)
    MaxReceived    \* bound on stats_.received between two resets

ASSUME SeqModAssumption == SeqMod \in Nat /\ SeqMod >= 2 /\ SeqMod % 2 = 0
ASSUME CapacityAssumption == Capacity \in Nat \ {0}
ASSUME StreamAssumption == /\ FirstIndex \in Nat
                           /\ LastIndex \in Nat
                           /\ Window \in Nat
                           /\ MaxReceived \in Nat
                           /\ LossEnd \in Nat
                           /\ Draining \in BOOLEAN

VARIABLES
    initialized,   \* initialized_
    expected,      \* expected_sequence_
    packets,       \* packets_: sequence number -> packet
    stats,         \* stats_
    delivered,     \* history: packets popped since the last reset
    evicted,       \* history: packets erased by push since the last reset
    floor,         \* history: index of the last packet popped or evicted
    newest         \* environment: highest index the network handed over

buffer == <<initialized, expected, packets, stats>>
history == <<delivered, evicted, floor>>
vars == <<initialized, expected, packets, stats, delivered, evicted, floor,
          newest>>

Sequence == 0 .. SeqMod - 1
Index == FirstIndex .. LastIndex

SeqOf(i) == i % SeqMod
NextSequence(s) == IF s = SeqMod - 1 THEN 0 ELSE s + 1

\* Faulty form: sequence numbers compared as plain integers.
SequenceBeforePlain(a, b) == a < b

\* static_cast<int16_t>(a - b) < 0: a lies in the half circle behind b.
SequenceBefore(a, b) ==
    LET distance == IF a >= b THEN a - b ELSE a - b + SeqMod
    IN  2 * distance >= SeqMod

NoStats == [received |-> 0, discarded |-> 0, reordered |-> 0, lost |-> 0]

Init == /\ initialized = FALSE
        /\ expected = 0
        /\ packets = << >>
        /\ stats = NoStats
        /\ delivered = 0
        /\ evicted = 0
        /\ floor = FirstIndex - 1
        /\ newest = FirstIndex - 1

-----------------------------------------------------------------------------
\* The network hands over a packet near the newest one, never half a turn of
\* the sequence numbers past the stream position.  It runs no more than Window
\* past the first undelivered packet of those that it does not lose.
InReach(i) == /\ i \in Index
              /\ i - newest \in -Window .. Window
              /\ 2 * (i - floor) < SeqMod
              /\ i <= (IF floor > LossEnd THEN floor ELSE LossEnd) + 1 + Window

Arrives(i) == /\ InReach(i)
              /\ newest' = IF i > newest THEN i ELSE newest

\* The sequence number push compares with: the first packet sets it.
ExpectedFor(i) == IF initialized THEN expected ELSE SeqOf(i)

\* Faulty forms: one of push's two early returns is missing.
RejectedIfLate(i) == SequenceBefore(SeqOf(i), ExpectedFor(i))
RejectedIfHeld(i) == SeqOf(i) \in DOMAIN packets

Rejected(i) == \/ SequenceBefore(SeqOf(i), ExpectedFor(i))
               \/ SeqOf(i) \in DOMAIN packets

Held(i) == DOMAIN packets \cup {SeqOf(i)}

Extended(i) == [s \in Held(i) |-> IF s = SeqOf(i) THEN i ELSE packets[s]]

Without(p, s) == [t \in DOMAIN p \ {s} |-> p[t]]

CountReceived(i, lost) ==
    [received  |-> stats.received + 1,
     discarded |-> stats.discarded,
     reordered |-> stats.reordered + (IF SeqOf(i) # ExpectedFor(i) THEN 1 ELSE 0),
     lost      |-> stats.lost + lost]

CountDiscarded ==
    [received  |-> stats.received + 1,
     discarded |-> stats.discarded + 1,
     reordered |-> stats.reordered,
     lost      |-> stats.lost]

\* push returns false: late, or already held.
PushDiscarded(i) ==
    /\ Rejected(i)
    /\ stats' = CountDiscarded
    /\ UNCHANGED <<initialized, expected, packets, history>>

\* push returns true and the packet fits.
PushKept(i) ==
    /\ ~Rejected(i)
    /\ Cardinality(Held(i)) <= Capacity
    /\ initialized' = TRUE
    /\ expected' = ExpectedFor(i)
    /\ packets' = Extended(i)
    /\ stats' = CountReceived(i, 0)
    /\ floor' = IF initialized THEN floor ELSE i - 1
    /\ UNCHANGED <<delivered, evicted>>

\* Faulty form: the newest packet is erased instead of the oldest.
IsLastKey(s, keys) == s \in keys /\ \A t \in keys : s >= t

\* std::map orders its keys as plain integers: begin() is the smallest.
IsFirstKey(s, keys) == s \in keys /\ \A t \in keys : s <= t

\* Faulty form: the eviction leaves the expected number where it was.
PushEvictingStays(i) ==
    /\ ~Rejected(i)
    /\ Cardinality(Held(i)) > Capacity
    /\ initialized' = TRUE
    /\ \E first \in Held(i) :
          /\ IsFirstKey(first, Held(i))
          /\ expected' = ExpectedFor(i)
          /\ packets' = Without(Extended(i), first)
          /\ stats' = CountReceived(i, 1)
          /\ floor' = Extended(i)[first]
    /\ evicted' = evicted + 1
    /\ UNCHANGED delivered

\* push returns true but overfills the map: begin() is erased, and the
\* expected number moves just past it whether or not it was the one awaited.
PushEvicting(i) ==
    /\ ~Rejected(i)
    /\ Cardinality(Held(i)) > Capacity
    /\ initialized' = TRUE
    /\ \E first \in Held(i) :
          /\ IsFirstKey(first, Held(i))
          /\ expected' = NextSequence(first)
          /\ packets' = Without(Extended(i), first)
          /\ stats' = CountReceived(i, IF first = ExpectedFor(i) THEN 0 ELSE 1)
          /\ floor' = Extended(i)[first]
    /\ evicted' = evicted + 1
    /\ UNCHANGED delivered

Drained == ~initialized \/ expected \notin DOMAIN packets

Push(i) == /\ stats.received < MaxReceived
           /\ Draining => Drained
           /\ Arrives(i)
           /\ PushDiscarded(i) \/ PushKept(i) \/ PushEvicting(i)

Pop == /\ initialized
       /\ expected \in DOMAIN packets
       /\ packets' = Without(packets, expected)
       /\ expected' = NextSequence(expected)
       /\ delivered' = delivered + 1
       /\ floor' = packets[expected]
       /\ UNCHANGED <<initialized, stats, evicted, newest>>

\* Faulty form: the map is not cleared.
ResetKeepsPackets == /\ initialized' = FALSE
                     /\ expected' = 0
                     /\ stats' = NoStats
                     /\ delivered' = 0
                     /\ evicted' = 0
                     /\ UNCHANGED <<packets, floor, newest>>

Reset == /\ initialized' = FALSE
         /\ expected' = 0
         /\ packets' = << >>
         /\ stats' = NoStats
         /\ delivered' = 0
         /\ evicted' = 0
         /\ UNCHANGED <<floor, newest>>

Next == \/ \E i \in Index : Push(i)
        \/ Pop
        \/ Reset

Spec == Init /\ [][Next]_vars

-----------------------------------------------------------------------------
Stats == [received : Nat, discarded : Nat, reordered : Nat, lost : Nat]

\* Every variable keeps its type, every held packet is filed under its own
\* sequence number, and nothing is held before the first push (the fields of
\* RtpJitterBuffer, rtp_jitter_buffer.h:34-38).
TypeOK == /\ initialized \in BOOLEAN
          /\ expected \in Sequence
          /\ DOMAIN packets \subseteq Sequence
          /\ \A s \in DOMAIN packets : packets[s] \in Nat /\ SeqOf(packets[s]) = s
          /\ initialized \/ DOMAIN packets = {}
          /\ stats \in Stats
          /\ delivered \in Nat
          /\ evicted \in Nat
          /\ floor \in Int
          /\ newest \in Int

\* The map never holds more than capacity_ packets once push has returned,
\* although push inserts before it looks at the size (push, lines 38-48).
CapacityBound == Cardinality(DOMAIN packets) <= Capacity

\* No packet is lost track of: whatever push accepted was popped, was erased
\* by a later push, or is still held (push and pop over a whole stream).
PacketsConserved ==
    stats.received - stats.discarded
        = delivered + evicted + Cardinality(DOMAIN packets)

\* Nothing held is already behind the expected number; a packet that were
\* would sit in the map for a whole turn of the sequence numbers, since pop
\* only ever looks for the expected one.
BufferedAhead == \A s \in DOMAIN packets : ~SequenceBefore(s, expected)

\* Pop hands packets out in the order of the sender's stream, none twice,
\* also where the sequence number passes from SeqMod - 1 to 0.
DeliveredInOrder == [][delivered' = delivered + 1 => floor' > floor]_vars

\* A gap never blocks the stream for good: when the map is full, the next
\* accepted packet moves the expected number.
FullBufferMovesOn ==
    [][ (/\ Cardinality(DOMAIN packets) = Capacity
         /\ stats'.received = stats.received + 1
         /\ stats'.discarded = stats.discarded)
        => expected' # expected ]_vars

\* Push refuses no packet the stream still needs: one that lies past every
\* packet delivered or given up, and is not held, is accepted (the two early
\* returns of push, lines 27-35).
NeededAccepted ==
    initialized =>
        \A i \in Index : InReach(i) /\ i > floor /\ ~(\E s \in DOMAIN packets : packets[s] = i)
                         => ~Rejected(i)

Stream == INSTANCE OrderedStream
              WITH started <- initialized,
                   pending <- {packets[s] : s \in DOMAIN packets}

\* As long as nothing is lost while the sequence numbers wrap, the buffer is an
\* ordered stream of packets, whatever loss, repetition and order before.
ImplementsOrderedStream == Stream!Spec
=============================================================================
