------------------------- MODULE RtpReceiverProofs -------------------------
(***************************************************************************)
(* The worker protocol of RtpReceiver for any set of handlers: the worker  *)
(* is gone before a handler, a socket or the receiver goes, the thread     *)
(* object is never assigned while joinable, and the receiver implements    *)
(* PacketSubscription.  All of it rests on one inductive invariant, which  *)
(* says at each step of the controller what the worker can be doing.  What *)
(* the header checks accept is well formed, and the payload they cut out   *)
(* lies inside the datagram, whatever its length and its fields.           *)
(***************************************************************************)
EXTENDS RtpReceiver, TLAPS

-----------------------------------------------------------------------------
\* The header checks, for datagrams of any length and any field values.

\* The fields of a datagram are numbers below SizeMod, as are its offsets.
LEMMA OffsetTypes ==
  ASSUME NEW d \in Datagram
  PROVE  /\ d.size \in Nat /\ d.version \in Nat /\ d.csrc \in Nat
         /\ d.words \in Nat /\ d.lastByte \in Nat
         /\ d.extension \in BOOLEAN /\ d.padded \in BOOLEAN
         /\ CsrcEnd(d) \in Nat /\ CsrcEnd(d) >= FixedHeader
         /\ HeaderEnd(d) \in Nat /\ HeaderEnd(d) >= CsrcEnd(d)
         /\ Padding(d) \in Nat
<1>1. /\ d.size \in Nat /\ d.version \in Nat /\ d.csrc \in Nat
      /\ d.words \in Nat /\ d.lastByte \in Nat
      /\ d.extension \in BOOLEAN /\ d.padded \in BOOLEAN
  BY FieldAssumption DEF Datagram
<1>2. CsrcEnd(d) \in Nat /\ CsrcEnd(d) >= FixedHeader
  BY <1>1 DEF CsrcEnd, FixedHeader
<1>3. HeaderEnd(d) \in Nat /\ HeaderEnd(d) >= CsrcEnd(d)
  BY <1>1, <1>2 DEF HeaderEnd
<1>4. Padding(d) \in Nat
  BY <1>1 DEF Padding
<1> QED
  BY <1>1, <1>2, <1>3, <1>4

\* Once the guards have passed, no subtraction of receive wraps around.
LEMMA AcceptedBounds ==
  ASSUME NEW d \in Datagram, Accepts(d)
  PROVE  /\ HeaderEnd(d) <= d.size
         /\ HeaderEnd(d) + Padding(d) <= d.size
         /\ Payload(d) = [first |-> HeaderEnd(d), last |-> d.size - Padding(d)]
<1>1. HeaderEnd(d) <= d.size
  BY OffsetTypes DEF Accepts, HasCsrcs, HasExtension, HeaderEnd
<1>2. Padding(d) <= d.size - HeaderEnd(d)
  BY <1>1, OffsetTypes DEF Accepts, HasPadding, Minus
<1>3. Minus(d.size, Padding(d)) = d.size - Padding(d)
  BY <1>1, <1>2, OffsetTypes DEF Minus
<1> QED
  BY <1>1, <1>2, <1>3, OffsetTypes DEF Payload

\* receive accepts exactly the datagrams laid out as RTP packets.
LEMMA AcceptsIsWellFormed ==
  ASSUME NEW d \in Datagram
  PROVE  Accepts(d) <=> WellFormed(d)
<1>1. ASSUME Accepts(d) PROVE WellFormed(d)
  <2> DEFINE length == d.size - HeaderEnd(d) - Padding(d)
  <2>1. length \in 0 .. d.size /\ HeaderEnd(d) + length + Padding(d) = d.size
    BY <1>1, AcceptedBounds, OffsetTypes
  <2> QED
    BY <1>1, <2>1 DEF WellFormed, Accepts, HasFixedHeader
<1>2. ASSUME WellFormed(d) PROVE Accepts(d)
  <2>1. PICK length \in 0 .. d.size : HeaderEnd(d) + length + Padding(d) = d.size
    BY <1>2 DEF WellFormed
  <2>2. HeaderEnd(d) <= d.size /\ Padding(d) <= d.size - HeaderEnd(d)
    BY <2>1, OffsetTypes
  <2>3. HasFixedHeader(d) /\ HasCsrcs(d) /\ HasExtension(d)
    BY <1>2, <2>2, OffsetTypes
    DEF WellFormed, HasFixedHeader, HasCsrcs, HasExtension, FixedHeader
  <2>4. HasExtensionHead(d)
    BY <2>2, OffsetTypes DEF HasExtensionHead, HeaderEnd
  <2>5. HasPadding(d)
    BY <2>2, OffsetTypes DEF HasPadding, Minus
  <2> QED
    BY <2>3, <2>4, <2>5 DEF Accepts
<1> QED
  BY <1>1, <1>2

\* The value that marks an empty buffer is no datagram.
LEMMA NoDatagramIsNone == NoDatagram \notin Datagram
<1> SUFFICES ASSUME NoDatagram \in Datagram PROVE FALSE
  OBVIOUS
<1>1. "version" \in DOMAIN NoDatagram
  BY DEF Datagram
<1>2. DOMAIN NoDatagram = {"size"}
  BY DEF NoDatagram
<1> QED
  BY <1>1, <1>2

\* The payload lies between the end of the header and the end of the
\* datagram, for datagrams of any length (payload.assign, rtp.cpp:194-195).
THEOREM PayloadBounds ==
  ASSUME NEW d \in Datagram, Accepts(d)
  PROVE  /\ Payload(d) \in [first : Nat, last : Nat]
         /\ FixedHeader <= Payload(d).first
         /\ Payload(d).first <= Payload(d).last
         /\ Payload(d).last <= d.size
<1>1. Payload(d) = [first |-> HeaderEnd(d), last |-> d.size - Padding(d)]
  BY AcceptedBounds
<1>2. HeaderEnd(d) + Padding(d) <= d.size
  BY AcceptedBounds
<1>3. /\ d.size \in Nat /\ Padding(d) \in Nat /\ HeaderEnd(d) \in Nat
      /\ FixedHeader <= HeaderEnd(d)
  BY OffsetTypes DEF FixedHeader
<1>4. d.size - Padding(d) \in Nat
  BY <1>2, <1>3
<1> QED
  BY <1>1, <1>2, <1>3, <1>4

\* No check looks past the end of the datagram (rtp.cpp:162-181).
THEOREM ReadBounds ==
  ASSUME NEW d \in Datagram
  PROVE  BytesRead(d) \subseteq 0 .. d.size - 1
BY OffsetTypes
DEF BytesRead, HasFixedHeader, HasCsrcs, HasExtensionHead, FixedHeader

-----------------------------------------------------------------------------

\* What the controller's position says about the worker.
ControllerKnows ==
    /\ cpc = "idle" => (thread = "live" <=> (open /\ handler # NoHandler))
    /\ cpc \in {"idle", "start"} => (workerRunning <=> thread = "live")
    /\ cpc \in {"start", "spawn"} => open /\ handler # NoHandler
    /\ cpc = "spawn" => workerRunning /\ thread = "none"
    /\ cpc = "join" => ~workerRunning
    /\ cpc \in AfterJoin \cup {"gone"} => ~workerRunning /\ thread = "none"
    /\ cpc = "gone" => ~open

\* What a worker that is still there can rely on.
WorkerRelies ==
    /\ thread = "live" => open /\ handler # NoHandler
    /\ thread = "ended" => cpc = "join"

IInv == TypeOK /\ ControllerKnows /\ WorkerRelies

\* The bounds of an accepted datagram's payload are never those that stand for
\* no packet.
LEMMA AcceptedIsPacket ==
  ASSUME NEW d \in Datagram, Accepts(d)
  PROVE  Payload(d) \in [first : Nat, last : Nat] /\ Payload(d) # NoPacket
BY PayloadBounds DEF NoPacket, FixedHeader

LEMMA NoPacketType == NoPacket \in [first : Nat, last : Nat]
BY DEF NoPacket

THEOREM InitIInv == Init => IInv
BY HandlerAssumption, NoPacketType
DEF Init, IInv, TypeOK, ControllerKnows, WorkerRelies, ControllerStep,
    WorkerStep, AfterJoin

\* Every step of either thread keeps the invariant.
LEMMA StepIInv == IInv /\ [Next]_vars => IInv'
<1> SUFFICES ASSUME IInv, [Next]_vars PROVE IInv'
  OBVIOUS
<1> USE HandlerAssumption
    DEF IInv, TypeOK, ControllerKnows, WorkerRelies, ControllerStep,
        WorkerStep, AfterJoin, controllerVars, workerVars, received
<1>1. CASE Bind
  BY <1>1 DEF Bind
<1>2. CASE BindFails
  BY <1>2 DEF BindFails
<1>3. ASSUME NEW h \in Handler, SetPacketHandler(h) PROVE IInv'
  BY <1>3 DEF SetPacketHandler
<1>4. CASE StartWorker
  BY <1>4 DEF StartWorker
<1>5. CASE SpawnWorker
  BY <1>5 DEF SpawnWorker
<1>6. ASSUME NEW next \in AfterJoin, StopWorker(next) PROVE IInv'
  BY <1>6 DEF StopWorker
<1>7. CASE JoinWorker
  BY <1>7 DEF JoinWorker
<1>8. CASE ClearPacketHandler
  BY <1>8 DEF ClearPacketHandler
<1>9. CASE Close
  BY <1>9 DEF Close, CloseSocket
<1>10. CASE Destroy
  BY <1>10 DEF Destroy, CloseSocket
<1>11. CASE Construct
  BY <1>11 DEF Construct
<1>12. CASE Load
  BY <1>12 DEF Load
<1>13. CASE Select
  BY <1>13 DEF Select
<1>14. CASE SelectSpurious
  BY <1>14 DEF SelectSpurious
<1>15. CASE Receive
  BY <1>15, NoDatagramIsNone DEF Receive
<1>16. CASE CopyHandler
  BY <1>16, NoPacketType DEF CopyHandler
<1>17. CASE CallbackReturns
  BY <1>17, NoPacketType DEF CallbackReturns
<1>18. CASE Arrive
  BY <1>18 DEF Arrive
<1>20. CASE Parse
  <2>1. buffer \in Datagram
    BY <1>20 DEF Parse
  <2>2. CASE Accepts(buffer)
    BY <1>20, <2>1, <2>2, AcceptedIsPacket DEF Parse
  <2>3. CASE ~Accepts(buffer)
    BY <1>20, <2>1, <2>3 DEF Parse
  <2> QED
    BY <2>2, <2>3
<1>19. CASE UNCHANGED vars
  BY <1>19 DEF vars
<1> QED
  BY <1>1, <1>2, <1>3, <1>4, <1>5, <1>6, <1>7, <1>8, <1>9, <1>10, <1>11,
     <1>12, <1>13, <1>14, <1>15, <1>16, <1>17, <1>18, <1>19, <1>20
  DEF Next, Call, Continue, Worker

THEOREM Invariance == Spec => []IInv
BY InitIInv, StepIInv, PTL DEF Spec

-----------------------------------------------------------------------------
\* The variables keep their types, and the worker has a position exactly
\* while its thread is live (start_worker, rtp.cpp:37-52).
THEOREM TypeCorrect == Spec => []TypeOK
BY Invariance, PTL DEF IInv

\* After clear_packet_handler no worker is left to call what was removed.
THEOREM ClearIsQuiet == Spec => []QuietAfterClear
<1>1. IInv => QuietAfterClear
  BY DEF IInv, TypeOK, WorkerRelies, QuietAfterClear
<1> QED
  BY <1>1, Invariance, PTL

\* close and the destructor give the socket back only after the join.
THEOREM CloseIsSafe == Spec => []NoUseAfterClose
<1>1. IInv => NoUseAfterClose
  BY DEF IInv, TypeOK, ControllerKnows, WorkerRelies, NoUseAfterClose
<1> QED
  BY <1>1, Invariance, PTL

\* start_worker never assigns a thread object that is still joinable.
THEOREM SpawnIsSafe == Spec => []SpawnOnlyWhenJoined
<1>1. IInv => SpawnOnlyWhenJoined
  BY DEF IInv, ControllerKnows, SpawnOnlyWhenJoined
<1> QED
  BY <1>1, Invariance, PTL

\* Whatever the order of bind, set, clear and close, a bound receiver with a
\* handler has its worker running when the call has returned.
THEOREM BoundListens == Spec => []BoundMeansListening
<1>1. IInv => BoundMeansListening
  BY DEF IInv, ControllerKnows, BoundMeansListening
<1> QED
  BY <1>1, Invariance, PTL

\* Whatever the owner does meanwhile, no check reads behind the datagram.
THEOREM ReadsAreInside == Spec => []ReadsInside
<1>1. IInv => ReadsInside
  BY ReadBounds DEF IInv, TypeOK, ReadsInside
<1> QED
  BY <1>1, Invariance, PTL

\* Exactly the datagrams with the layout of an RTP packet are handed on, each
\* with the bytes between its header and its padding (rtp.cpp:160-196).
THEOREM LayoutDecides == Spec => AcceptsWellFormed
<1> DEFINE Decided ==
      IF WellFormed(buffer)
      THEN /\ packet' = [first |-> HeaderEnd(buffer),
                         last |-> buffer.size - Padding(buffer)]
           /\ FixedHeader <= packet'.first
           /\ packet'.first <= packet'.last
           /\ packet'.last <= buffer.size
      ELSE packet' = NoPacket
<1>1. ASSUME IInv, [Next]_vars, buffer # NoDatagram, buffer' # buffer
      PROVE  Decided
  <2>1. wpc = "parse" /\ buffer \in Datagram /\ packet = NoPacket
    BY <1>1 DEF IInv, TypeOK
  <2>2. Parse
    BY <1>1, <2>1
    DEF Next, Call, Continue, Worker, vars, controllerVars, workerVars,
        received, Bind, BindFails, SetPacketHandler, StopWorker, Construct,
        StartWorker, SpawnWorker, JoinWorker, ClearPacketHandler, Close,
        Destroy, CloseSocket, Load, Select, SelectSpurious, Receive,
        CopyHandler, CallbackReturns, Arrive
  <2>3. CASE Accepts(buffer)
    <3>1. packet' = Payload(buffer)
      BY <2>2, <2>3 DEF Parse
    <3>2. WellFormed(buffer)
      BY <2>1, <2>3, AcceptsIsWellFormed
    <3> QED
      BY <2>1, <2>3, <3>1, <3>2, AcceptedBounds, PayloadBounds
  <2>4. CASE ~Accepts(buffer)
    <3>1. packet' = NoPacket
      BY <2>1, <2>2, <2>4 DEF Parse
    <3>2. ~WellFormed(buffer)
      BY <2>1, <2>4, AcceptsIsWellFormed
    <3> QED
      BY <3>1, <3>2
  <2> QED
    BY <2>3, <2>4
<1>2. IInv /\ [Next]_vars
         => [buffer # NoDatagram /\ buffer' # buffer => Decided]_received
  BY <1>1
<1> QED
  BY <1>2, Invariance, PTL DEF Spec, AcceptsWellFormed

\* The receiver implements the subscription: no step of its two threads
\* delivers a packet the abstract subscription would not.
THEOREM Implementation == Spec => ImplementsSubscription
<1>1. Init => Subscription!Init
  BY DEF Init, Subscription!Init
<1>2. IInv /\ [Next]_vars => [Subscription!Next]_(Subscription!vars)
  <2> SUFFICES ASSUME IInv, [Next]_vars,
                      ~ UNCHANGED <<open, handler, callback>>
               PROVE  Subscription!Next
    BY DEF Subscription!vars
  <2> USE DEF IInv, TypeOK, ControllerKnows, WorkerRelies, AfterJoin,
          controllerVars, workerVars
  <2>1. CASE Bind
    BY <2>1 DEF Bind, Subscription!Next, Subscription!Bind
  <2>2. CASE BindFails
    BY <2>2 DEF BindFails, Subscription!Next, Subscription!Bind
  <2>3. ASSUME NEW h \in Handler, SetPacketHandler(h) PROVE Subscription!Next
    BY <2>3 DEF SetPacketHandler, Subscription!Next, Subscription!Register
  <2>4. CASE ClearPacketHandler
    BY <2>4 DEF ClearPacketHandler, Subscription!Next, Subscription!Unregister
  <2>5. CASE Close \/ Destroy
    BY <2>5 DEF Close, Destroy, CloseSocket, Subscription!Next, Subscription!Close
  <2>6. CASE Construct
    BY <2>6 DEF Construct, Subscription!Next, Subscription!Recreate
  <2>7. CASE CopyHandler
    BY <2>7 DEF CopyHandler, Subscription!Next, Subscription!Begin
  <2>8. CASE CallbackReturns
    BY <2>8 DEF CallbackReturns, Subscription!Next, Subscription!End
  <2> QED
    BY <2>1, <2>2, <2>3, <2>4, <2>5, <2>6, <2>7, <2>8
    DEF Next, Call, Continue, Worker, StartWorker, SpawnWorker, StopWorker,
        JoinWorker, Load, Select, SelectSpurious, Receive, Parse, Arrive,
        received, vars
<1> QED
  BY <1>1, <1>2, Invariance, PTL
  DEF Spec, ImplementsSubscription, Subscription!Spec
=============================================================================
