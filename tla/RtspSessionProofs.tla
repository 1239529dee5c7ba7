------------------------- MODULE RtspSessionProofs -------------------------
(***************************************************************************)
(* What RtspSession promises for every set of ports and of host lengths,   *)
(* whether a session is torn down before it is destroyed or not: the ports *)
(* it announces, what its media worker can rely on, and what a TEARDOWN    *)
(* leaves.  The invariant follows the sockets through a SETUP that may     *)
(* fail at each of them, and the worker through the steps of a TEARDOWN    *)
(* and of the destructor.                                                  *)
(***************************************************************************)
EXTENDS RtspSession, TLAPS

\* A socket that the SETUP in progress has still to open.
Awaited(s) == \E i \in 1..Len(todo) : todo[i] = s

\* The sockets that the SETUP in progress answers for are open already or
\* still to be opened, and their ports are, or will be, in the transport.
SetupProgress ==
    /\ cpc \in {"setupPtp", "setupNtp"} =>
          /\ \A s \in {"data", "control"} : bound[s] # NoPort \/ Awaited(s)
          /\ transport["event"] # NoPort \/ Awaited("event")
    /\ cpc = "setupNtp" => bound["timing"] # NoPort \/ Awaited("timing")
    /\ cpc = "setupTransport" =>
          \A s \in Receiver : transport[s] # NoPort \/ Awaited(s)

\* What the first SETUP opened is still announced, unless one failed.
SetupStands ==
    (setupInfo /\ ~setupFailed /\ cpc \in {"idle", "setupTransport"}) =>
        transport["data"] # NoPort /\ transport["control"] # NoPort

\* The flags are down while a TEARDOWN goes on, and the worker is gone when
\* its receiver is closed.
TeardownOrder ==
    /\ cpc \in {"join", "release"} =>
          ~configured /\ ~setupInfo /\ ~recording /\ mediaHandler = "none"
    /\ cpc \in {"release", "stopping", "gone"} => ~listening

\* A session that was torn down stays empty, also while it is destroyed; one
\* that is destroyed has no event channel and announces nothing.
Clean ==
    /\ wpc = "idle" /\ ~listening
    /\ \A s \in Receiver : bound[s] = NoPort
    /\ transport = NoPorts
    /\ jitter = "fresh"
    /\ sdp = "none" /\ ~crypto
    /\ pipeline # "open" /\ mediaHandler = "none"
    /\ ~configured /\ ~recording

EmptyAfterTeardown ==
    /\ tornDown => ~SettingUp /\ ~Ended /\ Clean
    /\ cpc \in {"destroying", "stopping", "gone"} =>
          bound["event"] = NoPort /\ transport = NoPorts
    /\ cpc = "gone" => wpc = "idle" /\ ~recording

IInv == /\ TypeOK
        /\ TransportMatches
        /\ WorkerWithinReceiver
        /\ RecordingHasSocket
        /\ AnsweredPortsOpen
        /\ SetupProgress
        /\ SetupStands
        /\ TeardownOrder
        /\ EmptyAfterTeardown

\* The type invariant in two parts, which the provers take one at a time.
FlagTypes ==
    /\ configured \in BOOLEAN /\ setupInfo \in BOOLEAN /\ recording \in BOOLEAN
    /\ listening \in BOOLEAN /\ crypto \in BOOLEAN
    /\ setupFailed \in BOOLEAN /\ tornDown \in BOOLEAN

ValueTypes ==
    /\ transport \in [Socket -> Port \cup {NoPort}]
    /\ bound \in [Socket -> Port \cup {NoPort}]
    /\ sdp \in {"none", "audio", "video"}
    /\ pipeline \in {"none", "closed", "open"}
    /\ mediaHandler \in {"none", "set"}
    /\ jitter \in {"fresh", "started"}
    /\ cpc \in {"idle", "setupPtp", "setupNtp", "setupTransport", "join",
                "release", "destroying", "stopping", "gone", "terminated",
                "crashed"}
    /\ wpc \in {"idle", "push", "drain", "call"}
    /\ todo \in Seq(Socket)
    /\ todo # << >> => SettingUp

-----------------------------------------------------------------------------
LEMMA PortIsOne == \A p \in Port : p # NoPort
BY PortAssumption

\* Taking a socket off the front of todo leaves the others to be opened.
LEMMA TakeFirst ==
  ASSUME TypeOK, todo # << >>
  PROVE  /\ Head(todo) \in Socket
         /\ Tail(todo) \in Seq(Socket)
         /\ \A s \in Socket : Awaited(s) =>
               s = Head(todo) \/ \E i \in 1..Len(Tail(todo)) : Tail(todo)[i] = s
<1>1. todo \in Seq(Socket)
  BY DEF TypeOK
<1>2. /\ Head(todo) \in Socket /\ Tail(todo) \in Seq(Socket)
      /\ Len(Tail(todo)) = Len(todo) - 1
      /\ Head(todo) = todo[1]
      /\ \A i \in 1..Len(Tail(todo)) : Tail(todo)[i] = todo[i + 1]
  BY <1>1
<1>3. ASSUME NEW s \in Socket, Awaited(s), s # Head(todo)
      PROVE  \E i \in 1..Len(Tail(todo)) : Tail(todo)[i] = s
  <2>1. PICK i \in 1..Len(todo) : todo[i] = s
    BY <1>3 DEF Awaited
  <2>2. i # 1 /\ Len(todo) \in Nat
    BY <1>1, <1>2, <1>3, <2>1
  <2>3. i - 1 \in 1..Len(Tail(todo)) /\ Tail(todo)[i - 1] = s
    BY <1>2, <2>1, <2>2
  <2>4. QED
    BY <2>3
<1>4. QED
  BY <1>2, <1>3

\* A session begins with nothing open.
THEOREM InitIInv == Init => IInv
<1> SUFFICES ASSUME Init PROVE IInv
  OBVIOUS
<1> USE DEF Init
<1>1. TypeOK
  <2>1. << >> \in Seq(Socket) /\ NoPorts \in [Socket -> Port \cup {NoPort}]
    BY DEF NoPorts
  <2>2. QED
    BY <2>1 DEF TypeOK
<1>2. TransportMatches /\ RecordingHasSocket /\ WorkerWithinReceiver
  BY DEF TransportMatches, RecordingHasSocket, WorkerWithinReceiver, NoPorts
<1>3. AnsweredPortsOpen
  BY DEF AnsweredPortsOpen, NoReply
<1>4. SetupProgress /\ SetupStands /\ TeardownOrder /\ EmptyAfterTeardown
  BY DEF SetupProgress, SetupStands, TeardownOrder, EmptyAfterTeardown
<1>5. QED
  BY <1>1, <1>2, <1>3, <1>4 DEF IInv

-----------------------------------------------------------------------------
\* What a request, or the owner, that leaves the sockets alone does to the rest:
\* it announces no new port, records only if it may, and touches a torn down session only to
\* put more of it back.
SocketsStand ==
    /\ cpc = "idle"
    /\ UNCHANGED <<setupInfo, transport, bound, listening, cpc, todo, wpc, setupFailed>>
    /\ reply' = reply \/ reply'.ports = << >>
    /\ mediaHandler' \in {"none", "set"}
    /\ configured' \in BOOLEAN /\ recording' \in BOOLEAN /\ tornDown' \in BOOLEAN
    /\ sdp' \in {"none", "audio", "video"}
    /\ crypto' \in BOOLEAN
    /\ pipeline' \in {"none", "closed", "open"}
    /\ jitter' \in {"fresh", "started"}
    /\ recording' => configured' /\ bound["data"] # NoPort
    /\ tornDown' => /\ tornDown /\ configured' = configured
                    /\ sdp' = sdp /\ crypto' = crypto
                    /\ mediaHandler' \in {mediaHandler, "none"}
                    /\ jitter' \in {jitter, "fresh"}
                    /\ pipeline' \in {pipeline, "none", "closed"}

\* Such a request keeps the invariant.
LEMMA SocketsStandStep == IInv /\ SocketsStand => IInv'
<1> SUFFICES ASSUME IInv, SocketsStand PROVE IInv'
  OBVIOUS
<1> USE DEF IInv, SocketsStand
<1>1. TypeOK'
  BY DEF TypeOK, SettingUp
<1>2. TransportMatches'
  BY DEF TransportMatches
<1>3. WorkerWithinReceiver' /\ RecordingHasSocket'
  BY DEF WorkerWithinReceiver, RecordingHasSocket
<1>4. AnsweredPortsOpen'
  <2>1. CASE reply' = reply
    BY <2>1 DEF AnsweredPortsOpen
  <2>2. CASE reply'.ports = << >>
    <3>1. DOMAIN reply'.ports = {}
      BY <2>2, DOMAIN << >> = {}
    <3>2. QED
      BY <3>1 DEF AnsweredPortsOpen
  <2>3. QED
    BY <2>1, <2>2
<1>5. SetupProgress' /\ SetupStands' /\ TeardownOrder'
  BY DEF SetupProgress, SetupStands, TeardownOrder
<1>6. EmptyAfterTeardown'
  BY DEF EmptyAfterTeardown, Clean, SettingUp, Ended
<1>7. QED
  BY <1>1, <1>2, <1>3, <1>4, <1>5, <1>6

\* The answer of such a request has no ports.
LEMMA NoPortsAnswered ==
  ASSUME Accepted \/ Refused PROVE reply'.ports = << >>
BY DEF Accepted, Refused, Answer

\* An ANNOUNCE that is accepted, or refused by the pipeline.
LEMMA AnnounceStep ==
  ASSUME IInv, NEW described \in {"audio", "video"}, Announce(described)
  PROVE  SocketsStand
<1>1. /\ cpc = "idle" /\ sdp' = described /\ configured' = TRUE /\ tornDown' = FALSE
      /\ UNCHANGED <<setupInfo, recording, sockets, mediaHandler, jitter, control, wpc,
                     setupFailed>>
  BY Zenon DEF Announce
<1>2. UNCHANGED <<transport, bound, listening, cpc, todo>>
  BY <1>1 DEF sockets, control
<1>3. reply'.ports = << >>
  <2>1. Accepted \/ Refused
    BY Zenon DEF Announce
  <2>2. QED
    BY <2>1, NoPortsAnswered
<1>4. crypto' \in BOOLEAN
  <2>1. crypto' = crypto \/ crypto' = TRUE
    BY Zenon DEF Announce, ConfigureCrypto
  <2>2. crypto \in BOOLEAN
    BY DEF IInv, TypeOK
  <2>3. QED
    BY Zenon, <2>1, <2>2
<1>5. pipeline' \in {"none", "closed", "open"}
  <2>1. pipeline' = pipeline \/ pipeline' = "open" \/ pipeline' = "closed"
    BY Zenon DEF Announce, ConfigurePipeline
  <2>2. QED
    BY <2>1 DEF IInv, TypeOK
<1>6. recording' => bound["data"] # NoPort
  BY <1>1 DEF IInv, RecordingHasSocket
<1>7. QED
  BY <1>1, <1>2, <1>3, <1>4, <1>5, <1>6 DEF IInv, TypeOK, SocketsStand

\* Requests, and calls of the owner, that leave the sockets alone.
LEMMA MediaRequestStep ==
  ASSUME IInv,
         \/ AnnounceRefused \/ Refuse \/ Record \/ Pause \/ Flush \/ Query
         \/ SetMediaPacketHandler \/ ClearMediaPacketHandler
         \/ \E described \in {"audio", "video"} : Announce(described)
  PROVE  IInv'
<1> USE DEF flags, sockets, media, history, control
<1>1. TypeOK /\ RecordingHasSocket
  BY DEF IInv
<1>2. CASE AnnounceRefused \/ Refuse \/ Query
  <2>1. Accepted \/ Refused
    BY Zenon, <1>2 DEF AnnounceRefused, Refuse, Query
  <2>2. reply'.ports = << >>
    BY <2>1, NoPortsAnswered
  <2>3. cpc = "idle" /\ UNCHANGED <<flags, sockets, media, jitter, control, wpc, history>>
    BY Zenon, <1>2 DEF AnnounceRefused, Refuse, Query
  <2>4. SocketsStand
    BY <1>1, <2>2, <2>3 DEF SocketsStand, TypeOK, RecordingHasSocket
  <2>5. QED
    BY <2>4, SocketsStandStep
<1>3. CASE Record
  <2>1. reply'.ports = << >>
    BY <1>3, NoPortsAnswered DEF Record
  <2>2. SocketsStand
    BY <1>1, <1>3, <2>1 DEF Record, CanRecord, SocketsStand, TypeOK, RecordingHasSocket
  <2>3. QED
    BY <2>2, SocketsStandStep
<1>4. CASE Pause
  <2>1. reply'.ports = << >>
    BY <1>4, NoPortsAnswered DEF Pause
  <2>2. SocketsStand
    BY <1>1, <1>4, <2>1 DEF Pause, ClosedPipeline, SocketsStand, TypeOK, RecordingHasSocket
  <2>3. QED
    BY <2>2, SocketsStandStep
<1>5. CASE Flush
  <2>1. reply'.ports = << >>
    BY <1>5, NoPortsAnswered DEF Flush
  <2>2. SocketsStand
    BY <1>1, <1>5, <2>1 DEF Flush, SocketsStand, TypeOK, RecordingHasSocket
  <2>3. QED
    BY <2>2, SocketsStandStep
<1>6. CASE SetMediaPacketHandler \/ ClearMediaPacketHandler
  <2>1. /\ cpc = "idle" /\ reply' = reply
        /\ UNCHANGED <<configured, setupInfo, recording, transport, bound, listening,
                       cpc, todo, wpc, setupFailed, sdp, crypto, pipeline, jitter>>
        /\ \/ mediaHandler' = "set" /\ tornDown' = FALSE
           \/ mediaHandler' = "none" /\ tornDown' = tornDown
    BY <1>6 DEF SetMediaPacketHandler, ClearMediaPacketHandler
  <2>2. /\ configured \in BOOLEAN /\ recording \in BOOLEAN /\ tornDown' \in BOOLEAN
        /\ crypto \in BOOLEAN /\ mediaHandler' \in {"none", "set"}
    BY <1>1, <2>1 DEF TypeOK
  <2>3. SocketsStand
    BY <1>1, <2>1, <2>2 DEF SocketsStand, TypeOK, RecordingHasSocket
  <2>4. QED
    BY <2>3, SocketsStandStep
<1>7. CASE \E described \in {"audio", "video"} : Announce(described)
  BY <1>7, AnnounceStep, SocketsStandStep
<1>8. QED
  BY <1>2, <1>3, <1>4, <1>5, <1>6, <1>7

-----------------------------------------------------------------------------
\* The first SETUP begins: every socket it answers for is still to be opened.
LEMMA BeginSetupInfoStep ==
  ASSUME IInv, NEW ptp \in BOOLEAN, BeginSetupInfo(ptp)
  PROVE  IInv'
<1> USE DEF IInv, sockets, media
<1>1. /\ cpc = "idle" /\ setupInfo' = TRUE /\ configured' = TRUE /\ tornDown' = FALSE
      /\ UNCHANGED <<recording, transport, bound, listening, sdp, crypto, pipeline,
                     mediaHandler, jitter, wpc, reply, setupFailed>>
  BY DEF BeginSetupInfo
<1>2. \/ cpc' = "setupPtp" /\ todo' = <<"data", "control", "event">>
      \/ cpc' = "setupNtp" /\ todo' = <<"data", "control", "timing", "event">>
  BY Zenon DEF BeginSetupInfo
<1>3. /\ todo' \in Seq(Socket)
      /\ \A s \in {"data", "control", "event"} : Awaited(s)'
      /\ cpc' = "setupNtp" => Awaited("timing")'
  <2>1. CASE cpc' = "setupPtp" /\ todo' = <<"data", "control", "event">>
    <3>1. /\ Len(todo') = 3 /\ todo' \in Seq(Socket)
          /\ todo'[1] = "data" /\ todo'[2] = "control" /\ todo'[3] = "event"
      BY <2>1 DEF Socket, Receiver
    <3>2. QED
      BY <2>1, <3>1 DEF Awaited
  <2>2. CASE cpc' = "setupNtp" /\ todo' = <<"data", "control", "timing", "event">>
    <3>1. /\ Len(todo') = 4 /\ todo' \in Seq(Socket)
          /\ todo'[1] = "data" /\ todo'[2] = "control" /\ todo'[3] = "timing"
          /\ todo'[4] = "event"
      BY <2>2 DEF Socket, Receiver
    <3>2. QED
      BY <2>2, <3>1 DEF Awaited
  <2>3. QED
    BY <1>2, <2>1, <2>2
<1>4. TypeOK'
  <2>1. FlagTypes'
    BY <1>1, <1>2, <1>3 DEF TypeOK, FlagTypes
  <2>2. ValueTypes'
    BY <1>1, <1>2, <1>3 DEF TypeOK, ValueTypes, SettingUp
  <2>3. QED
    BY <2>1, <2>2 DEF TypeOK, FlagTypes, ValueTypes, SettingUp
<1>5. TransportMatches' /\ WorkerWithinReceiver' /\ RecordingHasSocket'
  BY <1>1, <1>2 DEF TransportMatches, WorkerWithinReceiver, RecordingHasSocket
<1>6. AnsweredPortsOpen' /\ SetupStands' /\ TeardownOrder' /\ EmptyAfterTeardown'
  BY <1>1, <1>2 DEF AnsweredPortsOpen, SetupStands, TeardownOrder, EmptyAfterTeardown
<1>7. SetupProgress'
  BY <1>2, <1>3 DEF SetupProgress
<1>8. QED
  BY <1>4, <1>5, <1>6, <1>7

\* A socket put at the end of those to be opened.
LEMMA OneMore ==
  /\ \A q \in Seq(Socket), s \in Socket :
        /\ q \o <<s>> \in Seq(Socket)
        /\ Len(q \o <<s>>) = Len(q) + 1
        /\ (q \o <<s>>)[Len(q) + 1] = s
        /\ \A i \in 1..Len(q) : (q \o <<s>>)[i] = q[i]
  /\ \A q \in Seq(Socket) : q \o << >> = q
<1>1. ASSUME NEW q \in Seq(Socket), NEW s \in Socket
      PROVE  /\ q \o <<s>> \in Seq(Socket)
             /\ Len(q \o <<s>>) = Len(q) + 1
             /\ (q \o <<s>>)[Len(q) + 1] = s
             /\ \A i \in 1..Len(q) : (q \o <<s>>)[i] = q[i]
  <2>1. <<s>> \in Seq(Socket) /\ Len(<<s>>) = 1 /\ <<s>>[1] = s
    OBVIOUS
  <2>2. QED
    BY <2>1
<1>2. ASSUME NEW q \in Seq(Socket) PROVE q \o << >> = q
  OBVIOUS
<1>3. QED
  BY <1>1, <1>2

\* A SETUP with a Transport header begins: each receiver has its port in the
\* transport or is still to be opened.
LEMMA BeginSetupTransportStep == IInv /\ BeginSetupTransport => IInv'
<1> SUFFICES ASSUME IInv, BeginSetupTransport PROVE IInv'
  OBVIOUS
<1> USE DEF IInv, flags, sockets, media
<1>1. /\ cpc = "idle" /\ cpc' = "setupTransport" /\ configured /\ tornDown' = FALSE
      /\ UNCHANGED <<configured, setupInfo, recording, transport, bound, listening,
                     sdp, crypto, pipeline, mediaHandler, jitter, wpc, reply, setupFailed>>
  BY DEF BeginSetupTransport
<1>2. todo' \in Seq(Socket) /\ \A s \in Receiver : transport[s] # NoPort \/ Awaited(s)'
  <2> DEFINE c == transport["control"] = NoPort
             t == transport["timing"] = NoPort
  <2>1. CASE c /\ t
    <3>1. todo' = <<"data">> \o <<"control">> \o <<"timing">>
      BY Zenon, <2>1 DEF BeginSetupTransport
    <3>2. /\ Len(todo') = 3 /\ todo' \in Seq(Socket)
          /\ todo'[1] = "data" /\ todo'[2] = "control" /\ todo'[3] = "timing"
      BY <3>1, OneMore DEF Socket, Receiver
    <3>3. QED
      BY <3>2 DEF Awaited, Receiver
  <2>2. CASE c /\ ~t
    <3>1. todo' = <<"data">> \o <<"control">> \o << >>
      BY Zenon, <2>2 DEF BeginSetupTransport
    <3>2. /\ Len(todo') = 2 /\ todo' \in Seq(Socket)
          /\ todo'[1] = "data" /\ todo'[2] = "control"
      BY <3>1, OneMore DEF Socket, Receiver
    <3>3. QED
      BY <2>2, <3>2 DEF Awaited, Receiver
  <2>3. CASE ~c /\ t
    <3>1. todo' = <<"data">> \o << >> \o <<"timing">>
      BY Zenon, <2>3 DEF BeginSetupTransport
    <3>2. /\ Len(todo') = 2 /\ todo' \in Seq(Socket)
          /\ todo'[1] = "data" /\ todo'[2] = "timing"
      BY <3>1, OneMore DEF Socket, Receiver
    <3>3. QED
      BY <2>3, <3>2 DEF Awaited, Receiver
  <2>4. CASE ~c /\ ~t
    <3>1. todo' = <<"data">>
      BY <2>4 DEF BeginSetupTransport
    <3>2. Len(todo') = 1 /\ todo' \in Seq(Socket) /\ todo'[1] = "data"
      BY <3>1, OneMore DEF Socket, Receiver
    <3>3. QED
      BY <2>4, <3>2 DEF Awaited, Receiver
  <2>5. QED
    BY <2>1, <2>2, <2>3, <2>4
<1>3. TypeOK'
  <2>1. FlagTypes'
    BY <1>1, <1>2 DEF TypeOK, FlagTypes
  <2>2. ValueTypes'
    BY <1>1, <1>2 DEF TypeOK, ValueTypes, SettingUp
  <2>3. QED
    BY <2>1, <2>2 DEF TypeOK, FlagTypes, ValueTypes, SettingUp
<1>4. TransportMatches' /\ WorkerWithinReceiver' /\ RecordingHasSocket'
  BY <1>1 DEF TransportMatches, WorkerWithinReceiver, RecordingHasSocket
<1>5. AnsweredPortsOpen' /\ SetupStands' /\ TeardownOrder' /\ EmptyAfterTeardown'
  BY <1>1 DEF AnsweredPortsOpen, SetupStands, TeardownOrder, EmptyAfterTeardown
<1>6. SetupProgress'
  BY <1>1, <1>2 DEF SetupProgress
<1>7. QED
  BY <1>3, <1>4, <1>5, <1>6

\* A later SETUP answers ports that the first one opened.
LEMMA SetupStreamStep == IInv /\ SetupStream => IInv'
<1> SUFFICES ASSUME IInv, SetupStream PROVE IInv'
  OBVIOUS
<1> USE DEF IInv, flags, sockets, media, control, history
<1>1. /\ cpc = "idle" /\ setupInfo
      /\ UNCHANGED <<configured, setupInfo, recording, transport, bound, listening,
                     sdp, crypto, pipeline, mediaHandler, jitter, cpc, todo, wpc, setupFailed,
                     tornDown>>
  BY DEF SetupStream
<1>2. PICK announced \in {{"data"}, {"data", "control"}} :
         reply' = [accepted |-> TRUE, ports |-> [s \in announced |-> transport[s]]]
  BY DEF SetupStream, Answer
<1>3. AnsweredPortsOpen'
  <2> SUFFICES ASSUME ~setupFailed, NEW s \in announced
               PROVE  transport[s] # NoPort /\ transport[s] = bound[s]
    BY <1>1, <1>2 DEF AnsweredPortsOpen
  <2>1. s \in {"data", "control"}
    OBVIOUS
  <2>2. QED
    BY <1>1, <2>1 DEF SetupStands, TransportMatches, Socket, Receiver
<1>4. TypeOK'
  BY <1>1 DEF TypeOK, SettingUp
<1>5. /\ TransportMatches' /\ WorkerWithinReceiver' /\ RecordingHasSocket'
      /\ SetupProgress' /\ SetupStands' /\ TeardownOrder' 
  BY <1>1 DEF TransportMatches, WorkerWithinReceiver, RecordingHasSocket,
              SetupProgress, SetupStands, TeardownOrder
<1>6. EmptyAfterTeardown'
  BY <1>1 DEF EmptyAfterTeardown, Clean, SettingUp, Ended
<1>7. QED
  BY <1>3, <1>4, <1>5, <1>6

-----------------------------------------------------------------------------
\* A socket is opened, or found open and keeps its port.
LEMMA OpenSocketStep == IInv /\ OpenSocket => IInv'
<1> SUFFICES ASSUME IInv, OpenSocket PROVE IInv'
  OBVIOUS
<1> USE DEF IInv, flags, media, history
<1> DEFINE h == Head(todo)
<1>1. /\ SettingUp /\ todo # << >> /\ todo' = Tail(todo)
      /\ UNCHANGED <<configured, setupInfo, recording, sdp, crypto, pipeline, mediaHandler, jitter,
                     cpc, wpc, reply, setupFailed, tornDown>>
  BY DEF OpenSocket
<1>2. h \in Socket /\ todo' \in Seq(Socket)
  BY <1>1, TakeFirst
<1>3. PICK port \in SocketPort(h) :
         /\ bound' = [bound EXCEPT ![h] = port]
         /\ transport' = IF cpc = "setupTransport" \/ h = "event"
                         THEN [transport EXCEPT ![h] = port] ELSE transport
  BY DEF OpenSocket
<1>4. port \in Port /\ (bound[h] # NoPort => port = bound[h])
  BY <1>2, <1>3 DEF SocketPort, TypeOK
<1>5. port # NoPort
  BY <1>4, PortIsOne
<1>6. listening' \in BOOLEAN /\ (listening => listening')
  <2>1. listening' = (listening \/ (cpc = "setupTransport" /\ h = "data"))
    BY DEF OpenSocket
  <2>2. QED
    BY <2>1
<1>7. /\ bound' \in [Socket -> Port \cup {NoPort}]
      /\ bound'[h] = port /\ \A s \in Socket : s # h => bound'[s] = bound[s]
  BY <1>2, <1>3, <1>4 DEF TypeOK
<1>8. /\ transport' \in [Socket -> Port \cup {NoPort}]
      /\ \A s \in Socket : s # h => transport'[s] = transport[s]
      /\ cpc = "setupTransport" \/ h = "event" => transport'[h] = port
      /\ ~(cpc = "setupTransport" \/ h = "event") => transport'[h] = transport[h]
  BY <1>2, <1>3, <1>4 DEF TypeOK
<1>9. \A s \in Socket : /\ bound[s] # NoPort => bound'[s] # NoPort
                        /\ transport[s] # NoPort => transport'[s] # NoPort
                        /\ Awaited(s) => s = h \/ Awaited(s)'
  <2>1. \A s \in Socket : Awaited(s) => s = h \/ Awaited(s)'
    BY <1>1, TakeFirst DEF Awaited
  <2>2. QED
    BY <1>5, <1>7, <1>8, <2>1
<1>10. TypeOK'
  <2>1. SettingUp'
    BY <1>1 DEF SettingUp
  <2>2. QED
    BY <1>1, <1>2, <1>6, <1>7, <1>8, <2>1 DEF TypeOK
<1>11. TransportMatches'
  <2> SUFFICES ASSUME NEW s \in Socket, transport'[s] # NoPort
               PROVE  transport'[s] = bound'[s]
    BY DEF TransportMatches
  <2>1. transport[s] # NoPort => transport[s] = bound[s]
    BY DEF TransportMatches
  <2>2. QED
    BY <1>4, <1>7, <1>8, <2>1
<1>12. WorkerWithinReceiver' /\ RecordingHasSocket'
  BY <1>1, <1>6, <1>9 DEF WorkerWithinReceiver, RecordingHasSocket, Socket, Receiver
<1>13. SetupProgress'
  <2>1. \A s \in Socket : bound[s] # NoPort \/ Awaited(s)
                             => bound'[s] # NoPort \/ Awaited(s)'
    BY <1>5, <1>7, <1>9
  <2>2. \A s \in Socket : (cpc = "setupTransport" \/ s = "event")
                             /\ (transport[s] # NoPort \/ Awaited(s))
                             => transport'[s] # NoPort \/ Awaited(s)'
    BY <1>5, <1>8, <1>9
  <2>3. {"data", "control", "timing", "event"} \subseteq Socket
        /\ Receiver \subseteq Socket
    BY DEF Socket, Receiver
  <2>4. QED
    BY <1>1, <2>1, <2>2, <2>3 DEF SetupProgress
<1>14. SetupStands' /\ AnsweredPortsOpen' /\ TeardownOrder' /\ EmptyAfterTeardown'
  <2>1. "data" \in Socket /\ "control" \in Socket
    BY DEF Socket, Receiver
  <2>2. SetupStands'
    BY <1>1, <1>9, <2>1 DEF SetupStands, SettingUp
  <2>3. cpc # "idle" /\ cpc \notin {"join", "release", "destroying", "stopping", "gone"}
    BY <1>1 DEF SettingUp
  <2>4. ~tornDown
    BY <1>1 DEF EmptyAfterTeardown
  <2>5. QED
    BY <1>1, <2>2, <2>3, <2>4
       DEF AnsweredPortsOpen, TeardownOrder, EmptyAfterTeardown
<1>15. QED
  BY <1>10, <1>11, <1>12, <1>13, <1>14

\* A SETUP fails: what it opened stays open, and the failure is remembered.
LEMMA OpenSocketFailsStep == IInv /\ OpenSocketFails => IInv'
<1> SUFFICES ASSUME IInv, OpenSocketFails PROVE IInv'
  OBVIOUS
<1> USE DEF IInv, flags, media
<1>1. /\ SettingUp /\ setupFailed' = TRUE /\ cpc' = "idle" /\ todo' = << >>
      /\ transport' = IF Head(todo) = "event"
                      THEN [transport EXCEPT !["event"] = NoPort] ELSE transport
      /\ UNCHANGED <<configured, setupInfo, recording, bound, listening, sdp, crypto,
                     pipeline, mediaHandler, jitter, wpc, tornDown>>
  BY DEF OpenSocketFails
<1>2. ~tornDown /\ reply' = [accepted |-> FALSE, ports |-> << >>]
  BY <1>1 DEF EmptyAfterTeardown, OpenSocketFails, Refused, Answer
<1>3. /\ transport' \in [Socket -> Port \cup {NoPort}]
      /\ \A s \in Socket : transport'[s] \in {transport[s], NoPort}
  BY <1>1 DEF TypeOK
<1>4. TypeOK'
  BY <1>1, <1>3 DEF TypeOK
<1>5. TransportMatches'
  BY <1>1, <1>3 DEF TransportMatches
<1>6. /\ WorkerWithinReceiver' /\ RecordingHasSocket' /\ AnsweredPortsOpen'
      /\ SetupProgress' /\ SetupStands' /\ TeardownOrder' /\ EmptyAfterTeardown'
  BY <1>1, <1>2 DEF WorkerWithinReceiver, RecordingHasSocket, AnsweredPortsOpen,
        SetupProgress, SetupStands, TeardownOrder, EmptyAfterTeardown, SettingUp, Ended
<1>7. QED
  BY <1>4, <1>5, <1>6

\* With no socket left to open, every receiver has its port in the transport,
\* and the answer has them all.
LEMMA EndSetupTransportStep == IInv /\ EndSetupTransport => IInv'
<1> SUFFICES ASSUME IInv, EndSetupTransport PROVE IInv'
  OBVIOUS
<1> USE DEF IInv, flags, sockets, media, history
<1>1. /\ cpc = "setupTransport" /\ todo = << >> /\ cpc' = "idle"
      /\ UNCHANGED <<configured, setupInfo, recording, transport, bound, listening,
                     sdp, crypto, pipeline, mediaHandler, jitter, todo, wpc, setupFailed, tornDown>>
  BY DEF EndSetupTransport
<1>2. reply' = [accepted |-> TRUE, ports |-> [s \in Receiver |-> transport[s]]]
  BY DEF EndSetupTransport, Answer
<1>3. \A s \in Receiver : transport[s] # NoPort
  BY <1>1 DEF SetupProgress, Awaited
<1>4. AnsweredPortsOpen'
  BY <1>1, <1>2, <1>3 DEF AnsweredPortsOpen, TransportMatches, Socket
<1>5. TypeOK'
  BY <1>1 DEF TypeOK
<1>6. /\ TransportMatches' /\ WorkerWithinReceiver' /\ RecordingHasSocket'
      /\ SetupProgress' /\ SetupStands' /\ TeardownOrder' /\ EmptyAfterTeardown'
  BY <1>1 DEF TransportMatches, WorkerWithinReceiver, RecordingHasSocket,
        SetupProgress, SetupStands, TeardownOrder, EmptyAfterTeardown, SettingUp, Ended
<1>7. QED
  BY <1>4, <1>5, <1>6

\* The first SETUP ends: the ports go into the transport, and the event port
\* is answered unless the answer cannot be made.
LEMMA EndSetupInfoStep == IInv /\ EndSetupInfo => IInv'
<1> SUFFICES ASSUME IInv, EndSetupInfo PROVE IInv'
  OBVIOUS
<1> USE DEF IInv, flags, media, history
<1>1. /\ cpc \in {"setupPtp", "setupNtp"} /\ todo = << >>
      /\ UNCHANGED <<configured, setupInfo, recording, bound, listening, sdp, crypto,
                     pipeline, mediaHandler, jitter, todo, wpc, setupFailed, tornDown>>
  BY DEF EndSetupInfo
<1>2. /\ transport' \in [Socket -> Port \cup {NoPort}]
      /\ transport'["data"] = bound["data"]
      /\ transport'["control"] = bound["control"]
      /\ transport'["timing"] \in {NoPort, bound["timing"]}
      /\ transport'["event"] = transport["event"]
  BY DEF EndSetupInfo, TypeOK, Socket, Receiver
<1>3. \/ cpc' = "terminated"
      \/ /\ cpc' = "idle"
         /\ reply' = [accepted |-> TRUE,
                      ports |-> IF cpc = "setupPtp"
                                THEN [s \in {"event"} |-> transport[s]]
                                ELSE [s \in {"event", "timing"} |-> bound[s]]]
  BY Zenon DEF EndSetupInfo, Answer
<1>4. /\ bound["data"] # NoPort /\ bound["control"] # NoPort
      /\ transport["event"] # NoPort
      /\ cpc = "setupNtp" => bound["timing"] # NoPort
  BY <1>1 DEF SetupProgress, Awaited
<1>5. transport["event"] = bound["event"]
  BY <1>4 DEF TransportMatches, Socket
<1>6. TypeOK'
  BY <1>1, <1>2, <1>3 DEF TypeOK
<1>7. TransportMatches'
  BY <1>1, <1>2, <1>5 DEF TransportMatches, Socket, Receiver
<1>8. AnsweredPortsOpen'
  <2>1. CASE cpc' = "terminated"
    BY <2>1 DEF AnsweredPortsOpen
  <2>2. CASE cpc = "setupPtp" /\ cpc' = "idle"
    <3>1. reply' = [accepted |-> TRUE, ports |-> [s \in {"event"} |-> transport[s]]]
      BY <1>3, <2>2
    <3>2. QED
      BY <1>1, <1>4, <1>5, <3>1 DEF AnsweredPortsOpen
  <2>3. CASE cpc = "setupNtp" /\ cpc' = "idle"
    <3>1. reply' = [accepted |-> TRUE, ports |-> [s \in {"event", "timing"} |-> bound[s]]]
      BY <1>3, <2>3
    <3>2. QED
      BY <1>1, <1>4, <1>5, <2>3, <3>1 DEF AnsweredPortsOpen
  <2>4. QED
    BY <1>1, <1>3, <2>1, <2>2, <2>3
<1>9. /\ WorkerWithinReceiver' /\ RecordingHasSocket' /\ SetupProgress'
      /\ SetupStands' /\ TeardownOrder'
  BY <1>1, <1>2, <1>3, <1>4 DEF WorkerWithinReceiver, RecordingHasSocket,
        SetupProgress, SetupStands, TeardownOrder
<1>10. EmptyAfterTeardown'
  BY <1>1, <1>3 DEF EmptyAfterTeardown, SettingUp, Ended
<1>11. QED
  BY <1>6, <1>7, <1>8, <1>9, <1>10

-----------------------------------------------------------------------------
\* A TEARDOWN begins: the flags go down, the sockets and the worker stay.
LEMMA BeginTeardownStep == IInv /\ BeginTeardown => IInv'
<1> SUFFICES ASSUME IInv, BeginTeardown PROVE IInv'
  OBVIOUS
<1> USE DEF IInv, BeginTeardown, sockets, media, history
<1>1. TypeOK'
  BY DEF TypeOK, SettingUp
<1>2. /\ TransportMatches' /\ WorkerWithinReceiver' /\ RecordingHasSocket'
      /\ AnsweredPortsOpen' /\ SetupProgress' /\ SetupStands' /\ TeardownOrder'
  BY DEF TransportMatches, WorkerWithinReceiver, RecordingHasSocket,
         AnsweredPortsOpen, SetupProgress, SetupStands, TeardownOrder
<1>3. EmptyAfterTeardown'
  BY DEF EmptyAfterTeardown, Clean, SettingUp, Ended, TypeOK
<1>4. QED
  BY <1>1, <1>2, <1>3

\* The worker is between packets when its handler is cleared.
LEMMA JoinWorkerStep == IInv /\ JoinWorker => IInv'
<1> SUFFICES ASSUME IInv, JoinWorker PROVE IInv'
  OBVIOUS
<1> USE DEF IInv, JoinWorker, flags, media, history
<1>1. TypeOK'
  BY DEF TypeOK, SettingUp
<1>2. /\ TransportMatches' /\ WorkerWithinReceiver' /\ RecordingHasSocket'
      /\ AnsweredPortsOpen' /\ SetupProgress' /\ SetupStands' /\ TeardownOrder'
  BY DEF TransportMatches, WorkerWithinReceiver, RecordingHasSocket,
         AnsweredPortsOpen, SetupProgress, SetupStands, TeardownOrder
<1>3. EmptyAfterTeardown'
  BY DEF EmptyAfterTeardown, Clean, SettingUp, Ended
<1>4. QED
  BY <1>1, <1>2, <1>3

\* The receivers are closed with their worker gone; only the event channel is
\* left open, and nothing is announced.
LEMMA ReleaseStep == IInv /\ Release => IInv'
<1> SUFFICES ASSUME IInv, Release PROVE IInv'
  OBVIOUS
<1> USE DEF IInv, flags
<1>1. /\ cpc = "release" /\ cpc' = "idle" /\ setupFailed' = FALSE /\ tornDown' = TRUE
      /\ jitter' = "fresh" /\ sdp' = "none" /\ crypto' = FALSE
      /\ transport' = NoPorts
      /\ UNCHANGED <<configured, setupInfo, recording, listening, todo, wpc>>
  BY DEF Release, ResetSockets, ResetMedia
<1>2. mediaHandler' = mediaHandler
  BY DEF Release, ResetMedia
<1>3. pipeline' \in {"none", "closed"}
  BY DEF Release, ResetMedia, ClosedPipeline
<1>4. reply' = [accepted |-> TRUE, ports |-> << >>]
  BY DEF Release, Accepted, Answer
<1>5. /\ ~configured /\ ~setupInfo /\ ~recording /\ ~listening
      /\ wpc = "idle" /\ todo = << >> /\ mediaHandler' = "none"
  BY <1>1, <1>2 DEF TeardownOrder, WorkerWithinReceiver, TypeOK, SettingUp
<1>6. /\ bound' \in [Socket -> Port \cup {NoPort}]
      /\ \A s \in Receiver : bound'[s] = NoPort
  BY DEF Release, ResetSockets, NoPorts, Socket, Receiver, TypeOK
<1>7. NoPorts \in [Socket -> Port \cup {NoPort}] /\ \A s \in Socket : NoPorts[s] = NoPort
  BY DEF NoPorts
<1>8. TypeOK'
  <2>1. FlagTypes'
    BY <1>1, <1>3, <1>5, <1>6, <1>7 DEF TypeOK, FlagTypes
  <2>2. ValueTypes'
    BY <1>1, <1>3, <1>5, <1>6, <1>7 DEF TypeOK, ValueTypes, SettingUp
  <2>3. QED
    BY <2>1, <2>2 DEF TypeOK, FlagTypes, ValueTypes, SettingUp
<1>9. TransportMatches'
  BY <1>1, <1>7 DEF TransportMatches
<1>10. AnsweredPortsOpen'
  <2>1. DOMAIN reply'.ports = {}
    BY <1>4, DOMAIN << >> = {}
  <2>2. QED
    BY <2>1 DEF AnsweredPortsOpen
<1>11. /\ WorkerWithinReceiver' /\ RecordingHasSocket'
       /\ SetupProgress' /\ SetupStands' /\ TeardownOrder'
  BY <1>1, <1>5 DEF WorkerWithinReceiver, RecordingHasSocket, SetupProgress,
        SetupStands, TeardownOrder
<1>12. Clean'
  BY <1>1, <1>3, <1>5, <1>6 DEF Clean
<1>13. EmptyAfterTeardown'
  BY <1>1, <1>12 DEF EmptyAfterTeardown, SettingUp, Ended
<1>14. QED
  BY <1>8, <1>9, <1>10, <1>11, <1>13

-----------------------------------------------------------------------------
\* A session that is destroyed loses its event channel and what its worker may
\* still use; the sockets of the receivers stay for now.
LEMMA BeginDestroyStep == IInv /\ BeginDestroy => IInv'
<1> SUFFICES ASSUME IInv, BeginDestroy PROVE IInv'
  OBVIOUS
<1> USE DEF IInv, flags
<1>1. /\ cpc = "idle" /\ cpc' = "destroying" /\ setupFailed' = FALSE
      /\ sdp' = "none" /\ crypto' = FALSE /\ pipeline' = "none"
      /\ mediaHandler' = "none" /\ jitter' = "fresh"
      /\ transport' = NoPorts
      /\ bound' = [bound EXCEPT !["event"] = NoPort]
      /\ UNCHANGED <<configured, setupInfo, recording, listening, todo, wpc, tornDown>>
  BY DEF BeginDestroy
<1>2. /\ bound' \in [Socket -> Port \cup {NoPort}]
      /\ bound'["event"] = NoPort
      /\ \A s \in Receiver : bound'[s] = bound[s]
  BY <1>1 DEF TypeOK, Socket, Receiver
<1>3. NoPorts \in [Socket -> Port \cup {NoPort}] /\ \A s \in Socket : NoPorts[s] = NoPort
  BY DEF NoPorts
<1>4. TypeOK'
  BY <1>1, <1>2, <1>3 DEF TypeOK, SettingUp
<1>5. TransportMatches'
  BY <1>1, <1>3 DEF TransportMatches
<1>6. /\ WorkerWithinReceiver' /\ RecordingHasSocket' /\ AnsweredPortsOpen'
      /\ SetupProgress' /\ SetupStands' /\ TeardownOrder'
  BY <1>1, <1>2 DEF WorkerWithinReceiver, RecordingHasSocket, AnsweredPortsOpen,
        SetupProgress, SetupStands, TeardownOrder, Receiver
<1>7. EmptyAfterTeardown'
  BY <1>1, <1>2 DEF EmptyAfterTeardown, Clean, SettingUp, Ended
<1>8. QED
  BY <1>4, <1>5, <1>6, <1>7

\* The destructor tells the worker to stop.
LEMMA StopReceiverStep == IInv /\ StopReceiver => IInv'
<1> SUFFICES ASSUME IInv, StopReceiver PROVE IInv'
  OBVIOUS
<1> USE DEF IInv, StopReceiver, flags, media, history
<1>1. TypeOK'
  <2>1. FlagTypes'
    BY DEF TypeOK, FlagTypes
  <2>2. ValueTypes'
    BY DEF TypeOK, ValueTypes, SettingUp
  <2>3. QED
    BY <2>1, <2>2 DEF TypeOK, FlagTypes, ValueTypes, SettingUp
<1>2. /\ TransportMatches' /\ WorkerWithinReceiver' /\ RecordingHasSocket'
      /\ AnsweredPortsOpen' /\ SetupProgress' /\ SetupStands' /\ TeardownOrder'
  BY DEF TransportMatches, WorkerWithinReceiver, RecordingHasSocket,
         AnsweredPortsOpen, SetupProgress, SetupStands, TeardownOrder
<1>3. EmptyAfterTeardown'
  BY DEF EmptyAfterTeardown, Clean, SettingUp, Ended
<1>4. QED
  BY <1>1, <1>2, <1>3

\* The destructor comes back when the worker is between packets.
LEMMA EndDestroyStep == IInv /\ EndDestroy => IInv'
<1> SUFFICES ASSUME IInv, EndDestroy PROVE IInv'
  OBVIOUS
<1> USE DEF IInv, media, history
<1>1. /\ cpc = "stopping" /\ cpc' = "gone" /\ wpc = "idle" /\ recording' = FALSE
      /\ bound' = NoPorts
      /\ UNCHANGED <<configured, setupInfo, transport, listening, sdp, crypto,
                     pipeline, mediaHandler, jitter, todo, wpc, reply, setupFailed,
                     tornDown>>
  BY DEF EndDestroy
<1>2. bound' \in [Socket -> Port \cup {NoPort}] /\ \A s \in Socket : bound'[s] = NoPort
  BY <1>1 DEF NoPorts
<1>3. transport = NoPorts
  BY <1>1 DEF EmptyAfterTeardown
<1>4. TypeOK'
  BY <1>1, <1>2 DEF TypeOK, SettingUp
<1>5. TransportMatches'
  BY <1>1, <1>3 DEF TransportMatches, NoPorts
<1>6. /\ WorkerWithinReceiver' /\ RecordingHasSocket' /\ AnsweredPortsOpen'
      /\ SetupProgress' /\ SetupStands' /\ TeardownOrder'
  BY <1>1 DEF WorkerWithinReceiver, RecordingHasSocket, AnsweredPortsOpen,
        SetupProgress, SetupStands, TeardownOrder
<1>7. EmptyAfterTeardown'
  BY <1>1, <1>2, <1>3 DEF EmptyAfterTeardown, Clean, SettingUp, Ended, Socket
<1>8. QED
  BY <1>4, <1>5, <1>6, <1>7

-----------------------------------------------------------------------------
\* The worker takes a packet only while the session records, so its receiver
\* is open and neither a TEARDOWN nor the destructor has gone past its wait.
LEMMA WorkerStep == IInv /\ Worker => IInv'
<1> SUFFICES ASSUME IInv, Worker PROVE IInv'
  OBVIOUS
<1> USE DEF IInv, flags, sockets, media, history, control
<1>1. /\ UNCHANGED <<configured, setupInfo, recording, transport, bound, listening,
                     sdp, crypto, pipeline, mediaHandler, reply, setupFailed, tornDown>>
      /\ \/ UNCHANGED <<cpc, todo>>
         \/ cpc' = "crashed" /\ todo' = << >>
      /\ wpc' \in {"idle", "push", "drain", "call"}
      /\ jitter' \in {jitter, "started"}
      /\ \/ wpc = "idle" /\ listening /\ recording
         \/ wpc # "idle"
  <2>1. CASE TakePacket
    BY <2>1 DEF TakePacket
  <2>2. CASE PushPacket
    BY <2>2 DEF PushPacket
  <2>3. CASE DrainPackets \/ CallMediaHandler
    BY <2>3 DEF DrainPackets, CallMediaHandler
  <2>4. CASE WorkerCaught
    BY <2>4 DEF WorkerCaught
  <2>5. QED
    BY <2>1, <2>2, <2>3, <2>4 DEF Worker, HandlePacket
<1>2. /\ listening \/ cpc \in {"stopping", "crashed"}
      /\ bound["data"] # NoPort
      /\ cpc \notin {"release", "gone"}
      /\ ~tornDown
  <2>1. CASE wpc # "idle"
    BY <2>1 DEF WorkerWithinReceiver, EmptyAfterTeardown, Clean
  <2>2. CASE listening /\ recording
    BY <2>2 DEF RecordingHasSocket, EmptyAfterTeardown, Clean, TeardownOrder
  <2>3. QED
    BY <1>1, <2>1, <2>2
<1>3. TypeOK'
  <2>1. FlagTypes'
    BY <1>1 DEF TypeOK, FlagTypes
  <2>2. ValueTypes'
    <3>1. CASE UNCHANGED <<cpc, todo>>
      BY <1>1, <3>1 DEF TypeOK, ValueTypes, SettingUp
    <3>2. CASE cpc' = "crashed" /\ todo' = << >>
      BY <1>1, <3>2 DEF TypeOK, ValueTypes
    <3>3. QED
      BY <1>1, <3>1, <3>2
  <2>3. QED
    BY <2>1, <2>2 DEF TypeOK, FlagTypes, ValueTypes, SettingUp
<1>4. WorkerWithinReceiver'
  BY <1>1, <1>2 DEF WorkerWithinReceiver
<1>5. /\ TransportMatches' /\ RecordingHasSocket' /\ AnsweredPortsOpen'
      /\ SetupStands' /\ TeardownOrder'
  BY <1>1 DEF TransportMatches, RecordingHasSocket, AnsweredPortsOpen,
              SetupStands, TeardownOrder
<1>6. SetupProgress'
  BY <1>1 DEF SetupProgress, Awaited
<1>7. EmptyAfterTeardown'
  BY <1>1, <1>2 DEF EmptyAfterTeardown
<1>8. QED
  BY <1>3, <1>4, <1>5, <1>6, <1>7

\* A step that changes nothing keeps the invariant.
LEMMA NoStep == IInv /\ UNCHANGED vars => IInv'
<1> SUFFICES ASSUME IInv, UNCHANGED vars PROVE IInv'
  OBVIOUS
<1>1. UNCHANGED <<configured, setupInfo, recording, transport, bound, listening,
                  sdp, crypto, pipeline, mediaHandler, jitter, cpc, todo, wpc, reply, setupFailed,
                  tornDown>>
  BY DEF vars, flags, sockets, media, history, control
<1>2. TypeOK'
  BY <1>1 DEF IInv, TypeOK, SettingUp
<1>3. /\ TransportMatches' /\ WorkerWithinReceiver' /\ RecordingHasSocket'
      /\ AnsweredPortsOpen' /\ SetupStands' /\ TeardownOrder'
  BY <1>1 DEF IInv, TransportMatches, WorkerWithinReceiver, RecordingHasSocket,
              AnsweredPortsOpen, SetupStands, TeardownOrder
<1>4. SetupProgress'
  BY <1>1 DEF IInv, SetupProgress, Awaited
<1>5. EmptyAfterTeardown'
  BY <1>1 DEF IInv, EmptyAfterTeardown, Clean, SettingUp, Ended
<1>6. QED
  BY <1>2, <1>3, <1>4, <1>5 DEF IInv

\* Every step of the session or of its worker keeps the invariant.
THEOREM NextIInv ==
  IInv /\ [Next]_vars => IInv'
<1> SUFFICES ASSUME IInv, [Next]_vars PROVE IInv'
  OBVIOUS
<1>1. CASE Request
  BY <1>1, MediaRequestStep, BeginSetupInfoStep, SetupStreamStep,
     BeginSetupTransportStep, BeginTeardownStep, BeginDestroyStep, NoStep
     DEF Request, Gone
<1>2. CASE Continue
  BY <1>2, OpenSocketStep, OpenSocketFailsStep, EndSetupTransportStep,
     EndSetupInfoStep, JoinWorkerStep, ReleaseStep, StopReceiverStep, EndDestroyStep
     DEF Continue
<1>3. CASE Worker
  BY <1>3, WorkerStep
<1>4. CASE UNCHANGED vars
  BY <1>4, NoStep
<1>5. QED
  BY <1>1, <1>2, <1>3, <1>4 DEF Next

\* The invariant holds throughout the life of a session.
THEOREM Invariance == Spec => []IInv
<1>1. Init => IInv
  BY InitIInv
<1>2. IInv /\ [Next]_vars => IInv'
  BY NextIInv
<1>3. QED
  BY <1>1, <1>2, PTL DEF Spec

-----------------------------------------------------------------------------
\* The variables of the session keep their types.
THEOREM TypeCorrect == Spec => []TypeOK
<1>1. IInv => TypeOK
  BY DEF IInv
<1>2. QED
  BY <1>1, Invariance, PTL

\* The transport never names a port other than that of the open socket, through
\* SETUPs that fail or are repeated and TEARDOWNs between them.
THEOREM TransportTrue == Spec => []TransportMatches
<1>1. IInv => TransportMatches
  BY DEF IInv
<1>2. QED
  BY <1>1, Invariance, PTL

\* While the worker has a packet its media socket is open: neither a TEARDOWN nor
\* the destructor, with or without a TEARDOWN before it, closes the receiver under
\* the worker.  What the worker uses beyond the receiver is not part of the claim.
THEOREM WorkerSafe == Spec => []WorkerWithinReceiver
<1>1. IInv => WorkerWithinReceiver
  BY DEF IInv
<1>2. QED
  BY <1>1, Invariance, PTL

\* A session that records has been set up and has a media socket.
THEOREM RecordingSafe == Spec => []RecordingHasSocket
<1>1. IInv => RecordingHasSocket
  BY DEF IInv
<1>2. QED
  BY <1>1, Invariance, PTL

\* A session that was torn down holds nothing of the old stream until a request
\* sets something up.
THEOREM TeardownCleans == Spec => []TornDownIsClean
<1>1. IInv => TornDownIsClean
  BY DEF IInv, EmptyAfterTeardown, Clean, TornDownIsClean
<1>2. QED
  BY <1>1, Invariance, PTL

\* A port that was answered is that of an open socket, until the next answer.
THEOREM AnswersTrue == Spec => []AnsweredPortsOpen
<1>1. IInv => AnsweredPortsOpen
  BY DEF IInv
<1>2. QED
  BY <1>1, Invariance, PTL

\* An open event channel keeps its port, until the destructor closes it.
THEOREM EventChannelKept == Spec => EventChannelSurvives
<1> DEFINE Kept == bound["event"] # NoPort /\ cpc' # "destroying"
                      => bound'["event"] = bound["event"]
<1>1. IInv /\ [Next]_vars => [Kept]_bound
  <2> SUFFICES ASSUME IInv, Next, bound' # bound, bound["event"] # NoPort,
                      cpc' # "destroying"
               PROVE  bound'["event"] = bound["event"]
    BY DEF vars, sockets
  <2>1. OpenSocket \/ Release \/ EndDestroy
    <3>1. CASE Request
      BY <3>1 DEF Request, AnnounceRefused, Announce, BeginSetupInfo, SetupStream,
         BeginSetupTransport, Refuse, Record, Pause, Flush, Query, SetMediaPacketHandler,
         ClearMediaPacketHandler, BeginTeardown, BeginDestroy, Gone, vars, sockets
    <3>2. CASE Continue
      BY <3>2 DEF Continue, OpenSocketFails, EndSetupTransport, EndSetupInfo,
         JoinWorker, StopReceiver, sockets
    <3>3. CASE Worker
      BY <3>3 DEF Worker, HandlePacket, TakePacket, PushPacket, DrainPackets,
         CallMediaHandler, WorkerCaught, sockets
    <3>4. QED
      BY <3>1, <3>2, <3>3 DEF Next
  <2>2. bound \in [Socket -> Port \cup {NoPort}] /\ "event" \in Socket
    BY DEF IInv, TypeOK, Socket
  <2>3. CASE OpenSocket
    <3>1. Head(todo) \in Socket
      BY <2>3, TakeFirst DEF OpenSocket, IInv
    <3>2. PICK port \in SocketPort(Head(todo)) : bound' = [bound EXCEPT ![Head(todo)] = port]
      BY <2>3 DEF OpenSocket
    <3>3. QED
      BY <2>2, <3>1, <3>2 DEF SocketPort
  <2>4. CASE Release
    BY <2>2, <2>4 DEF Release, ResetSockets, NoPorts
  <2>5. CASE EndDestroy
    BY <2>5 DEF EndDestroy, IInv, EmptyAfterTeardown
  <2>6. QED
    BY <2>1, <2>3, <2>4, <2>5
<1>2. QED
  BY <1>1, Invariance, PTL DEF Spec, EventChannelSurvives

=============================================================================
