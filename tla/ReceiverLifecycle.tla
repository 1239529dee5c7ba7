------------------------- MODULE ReceiverLifecycle -------------------------
(***************************************************************************)
(* AirPlayReceiver::start and stop (src/airplay_receiver.cpp) with what    *)
(* they start: the mDNS service (src/mdns.cpp), whose responder is a       *)
(* thread that answers queries on its own, and the HTTP server, whose      *)
(* thread waits for a connection or serves one, hands its requests to the  *)
(* pairing objects made for it, and is joined by stop.                     *)
(***************************************************************************)
EXTENDS Pairing, SequencesExt

CONSTANTS
    Config,           \* the ReceiverConfigs start is called with
    NoConfig

\* A name is the sequence of the lengths of its labels.
ASSUME ConfigAssumption ==
    /\ NoConfig \notin Config
    /\ Config \subseteq [name : Seq(Nat), port : Nat \ {0}]

VARIABLES
    running,          \* Impl::running
    config,           \* Impl::config
    server,           \* what the HTTP server was started with, or NoConfig
    hpc,              \* position of the server's thread
    active,           \* MdnsService: active
    socket,           \* MdnsService: socket_fd is open
    advertised,       \* MdnsService: instance and port
    apc,              \* position of the application's thread
    rpc               \* position of the responder

receiverVars == <<running, config, server>>
connectionVars == <<hpc, pairingVars>>
mdnsVars == <<active, socket, advertised>>
vars == <<receiverVars, connectionVars, mdnsVars, apc, rpc>>

-----------------------------------------------------------------------------
\* name() writes every label after its length, and a zero at the end.  It gives
\* up at a label that is too long.
GivenUp(labels) ==
    SubSeq(labels, 1, SelectInSeq(labels, LAMBDA n : n > 63) - 1)

Encoded(labels) ==
    IF \A i \in DOMAIN labels : labels[i] <= 63
    THEN Append(labels, 0)
    ELSE GivenUp(labels)

\* What a resolver makes of a response: the SRV record is found when the name
\* of the service, which PTR, SRV and TXT repeat, ends where it should, at the
\* first zero, and is not too long.
ServiceName(c) == c.name \o <<8, 4, 5>>     \* ._airplay._tcp.local

\* The octets of a name on the wire, of which there may be 255.
WireLength(bytes) == FoldSeq(LAMBDA n, sum : n + 1 + sum, 0, bytes)

Readable(bytes) == /\ bytes # <<>>
                   /\ \A i \in DOMAIN bytes : bytes[i] = 0 <=> i = Len(bytes)
                   /\ WireLength(bytes) <= 255

ResolvedPort(c) == IF Readable(Encoded(ServiceName(c))) THEN c.port ELSE 0

\* The names DNS can carry.
Nameable(c) == /\ \A i \in DOMAIN c.name : c.name[i] \in 1..63
               /\ WireLength(Append(ServiceName(c), 0)) <= 255

-----------------------------------------------------------------------------
Init == /\ hpc = "none" /\ Unpaired
        /\ running = FALSE /\ config = NoConfig /\ server = NoConfig
        /\ active = FALSE /\ socket = FALSE /\ advertised = NoConfig
        /\ apc = "idle" /\ rpc = "none"

-----------------------------------------------------------------------------
\* start, on the application's thread.  A running receiver only returns false.
StartServer(c) == /\ apc = "idle"
                  /\ ~running
                  /\ config' = c
                  /\ server' = c
                  /\ hpc' = "accept"
                  /\ apc' = "publish"
                  /\ UNCHANGED <<pairingVars, running, mdnsVars, rpc>>

StartServerFails(c) == /\ apc = "idle"
                       /\ ~running
                       /\ config' = c
                       /\ UNCHANGED <<connectionVars, running, server,
                                      mdnsVars, apc, rpc>>

\* publish: the socket is opened, bound and joined to the group.
OpenResponder == /\ apc = "publish"
                 /\ socket' = TRUE
                 /\ apc' = "activate"
                 /\ UNCHANGED <<receiverVars, connectionVars, active,
                                advertised, rpc>>

\* Any step of it may fail; what was opened is closed again.
OpenResponderFails == /\ apc = "publish"
                      /\ apc' = "abort"
                      /\ UNCHANGED <<receiverVars, connectionVars, mdnsVars,
                                     rpc>>

\* Faulty form: the records of the first publish are kept.
ActivateKeepsRecords == /\ apc = "activate"
                        /\ advertised' = IF advertised = NoConfig THEN config
                                         ELSE advertised
                        /\ active' = TRUE
                        /\ rpc' = "loop"
                        /\ apc' = "announce"
                        /\ UNCHANGED <<receiverVars, connectionVars, socket>>

\* The records are stored before the responder is started.
Activate == /\ apc = "activate"
            /\ advertised' = config
            /\ active' = TRUE
            /\ rpc' = "loop"
            /\ apc' = "announce"
            /\ UNCHANGED <<receiverVars, connectionVars, socket>>

\* The unsolicited response, after which start succeeds.
Announce == /\ apc = "announce"
            /\ running' = TRUE
            /\ apc' = "idle"
            /\ UNCHANGED <<connectionVars, config, server, mdnsVars, rpc>>

\* Faulty form: start fails and leaves the server up.
AbortKeepsServer == /\ apc = "abort"
                    /\ apc' = "idle"
                    /\ UNCHANGED <<receiverVars, connectionVars, mdnsVars,
                                   rpc>>

\* start fails for want of mDNS, and takes the server down again, which waits
\* for the server's thread.
Abort == /\ apc = "abort"
         /\ server' = NoConfig
         /\ apc' = "joinServer"
         /\ UNCHANGED <<connectionVars, running, config, mdnsVars, rpc>>

-----------------------------------------------------------------------------
\* stop, and the destructor: unpublish, then the server.  It does the same
\* whether the receiver runs or not.
Stop == /\ apc = "idle"
        /\ active' = FALSE
        /\ apc' = "closeSocket"
        /\ UNCHANGED <<receiverVars, connectionVars, socket, advertised, rpc>>

\* Faulty form: the socket is left open, and the responder waiting on it.
CloseSocketSkips == /\ apc = "closeSocket"
                    /\ apc' = "join"
                    /\ UNCHANGED <<receiverVars, connectionVars, mdnsVars,
                                   rpc>>

CloseSocket == /\ apc = "closeSocket"
               /\ socket' = FALSE
               /\ apc' = "join"
               /\ UNCHANGED <<receiverVars, connectionVars, active,
                              advertised, rpc>>

\* The responder is joined if there is one.
JoinResponder == /\ apc = "join"
                 /\ rpc \in {"none", "done"}
                 /\ rpc' = "none"
                 /\ apc' = "stopServer"
                 /\ UNCHANGED <<receiverVars, connectionVars, mdnsVars>>

\* The server is told to stop and its listening socket closed; one that is not
\* up is left alone.
StopServer == /\ apc = "stopServer"
              /\ server # NoConfig
              /\ server' = NoConfig
              /\ apc' = "joinServer"
              /\ UNCHANGED <<connectionVars, running, config, mdnsVars, rpc>>

NoServer == /\ apc = "stopServer"
            /\ server = NoConfig
            /\ running' = FALSE
            /\ apc' = "idle"
            /\ UNCHANGED <<connectionVars, config, server, mdnsVars, rpc>>

\* The server's thread is joined, which may be serving a client that stays, and
\* stop is done, or the start that failed, in which running is FALSE already.
JoinServer == /\ apc = "joinServer"
              /\ hpc = "done"
              /\ hpc' = "none"
              /\ running' = FALSE
              /\ apc' = "idle"
              /\ UNCHANGED <<pairingVars, config, server, mdnsVars, rpc>>

-----------------------------------------------------------------------------
\* The responder.
Loop == /\ rpc = "loop"
        /\ rpc' = IF active THEN "wait" ELSE "done"
        /\ UNCHANGED <<receiverVars, connectionVars, mdnsVars, apc>>

\* recvfrom returns with a query for _airplay.
QueryArrives == /\ rpc = "wait"
                /\ socket
                /\ rpc' = "query"
                /\ UNCHANGED <<receiverVars, connectionVars, mdnsVars, apc>>

\* recvfrom returns with anything else; a socket that is shut down wakes it.
OtherArrives == /\ rpc = "wait"
                /\ rpc' = IF active THEN "loop" ELSE "done"
                /\ UNCHANGED <<receiverVars, connectionVars, mdnsVars, apc>>

Woken == ~socket /\ OtherArrives

\* A query is dropped if the service was stopped while recvfrom waited.
TakeQuery == /\ rpc = "query"
             /\ rpc' = IF active THEN "answer" ELSE "done"
             /\ UNCHANGED <<receiverVars, connectionVars, mdnsVars, apc>>

\* The response goes out; a stop may have begun since active was read.
Answer == /\ rpc = "answer"
          /\ rpc' = "loop"
          /\ UNCHANGED <<receiverVars, connectionVars, mdnsVars, apc>>

-----------------------------------------------------------------------------
\* The server's thread: the factory makes new objects for every connection,
\* and each request is routed to one of them.  The server keeps the objects of
\* a connection that has ended, but no request reaches them any more.
Connect == /\ hpc = "accept"
           /\ server # NoConfig
           /\ hpc' = "client"
           /\ UNCHANGED <<receiverVars, pairingVars, mdnsVars, apc, rpc>>

\* What was received before the thread sees the stop is still answered.
Request == /\ hpc = "client"
           /\ PairingRequest
           /\ UNCHANGED <<receiverVars, hpc, mdnsVars, apc, rpc>>

Disconnect == /\ hpc = "client"
              /\ hpc' = IF server # NoConfig THEN "accept" ELSE "done"
              /\ Discard
              /\ UNCHANGED <<receiverVars, mdnsVars, apc, rpc>>

\* accept returns after the stop: it fails, or takes one more connection, which
\* is closed at once.
AcceptEnds == /\ hpc = "accept"
              /\ server = NoConfig
              /\ hpc' = "done"
              /\ UNCHANGED <<receiverVars, pairingVars, mdnsVars, apc, rpc>>

-----------------------------------------------------------------------------
Application == \/ OpenResponder \/ OpenResponderFails \/ Activate \/ Announce
               \/ Abort \/ CloseSocket \/ JoinResponder \/ StopServer
               \/ NoServer \/ JoinServer

Responder == Loop \/ TakeQuery \/ Answer \/ Woken

Next == \/ \E c \in Config : StartServer(c) \/ StartServerFails(c)
        \/ Stop
        \/ Application
        \/ Loop \/ QueryArrives \/ OtherArrives \/ TakeQuery \/ Answer
        \/ Connect \/ Request \/ Disconnect \/ AcceptEnds

\* start and stop go on once called; the responder goes on when it can.  When a
\* client leaves is up to it, and what makes accept return to the platform.
Fairness == WF_vars(Application) /\ WF_vars(Responder)

Spec == Init /\ [][Next]_vars
FairSpec == Spec /\ Fairness

-----------------------------------------------------------------------------
\* Every response, the unsolicited one and the one to a query that was taken
\* just before stop, resolves to the port the server of this very start listens
\* on, if DNS can carry the device's name: stop waits for the responder before
\* it takes the server down, nothing of an earlier start is announced, and the
\* names of the response end where a resolver expects
\* (airplay_receiver.cpp:168-173, mdns.cpp:36-49, 86-123, 266-289).
ResponseNamesServer ==
    (apc = "announce" \/ rpc = "answer") =>
        /\ server # NoConfig
        /\ advertised = server
        /\ Nameable(server) => ResolvedPort(advertised) = server.port

\* What the application is told is so: between calls the receiver runs, the
\* server listens and the service is published, each with its thread, or none of
\* the three, also after a start that failed half way and a second stop
\* (airplay_receiver.cpp:165-174).
AllOrNothing ==
    apc = "idle" => /\ running <=> server # NoConfig
                    /\ running <=> hpc # "none"
                    /\ running <=> active
                    /\ running <=> socket
                    /\ running <=> rpc # "none"

\* The premises of the next property.  Every client leaves, or sends something,
\* after which the thread sees the stop; an accept whose socket stop has closed
\* returns, for which Linux and Android need one more connection.
ClientsLeave == []<>(hpc # "client")
AcceptReturns == []<>~(hpc = "accept" /\ server = NoConfig)

\* The service is unpublished whatever the network does: closing the socket
\* wakes the responder (mdns.cpp:277-289).  start and stop return only if no
\* client holds the server's thread and accept returns, for they join it
\* (airplay_receiver.cpp:170, 173, http_server.cpp:265-271).
CallsReturn ==
    /\ apc \in {"closeSocket", "join"} ~> apc = "stopServer"
    /\ ClientsLeave /\ AcceptReturns => (apc # "idle" ~> apc = "idle")
=============================================================================
