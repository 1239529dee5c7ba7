---------------------------- MODULE RtpReceiver ----------------------------
(***************************************************************************)
(* RtpReceiver (src/rtp.cpp): a UDP socket with a background thread that   *)
(* receives RTP packets and hands them to a registered handler.  One       *)
(* controller thread calls bind, close, set_packet_handler,                *)
(* clear_packet_handler and the destructor; the worker runs the loop of    *)
(* start_worker.  Each step below is one access to what the two threads    *)
(* share: worker_running, the thread object, the socket and the handler.   *)
(* What receive makes of a datagram is in RtpHeader.                       *)
(***************************************************************************)
EXTENDS RtpHeader

CONSTANTS
    Handler,             \* packet handlers the owner may register
    NoHandler,           \* an empty std::function
    SpuriousReadiness    \* TRUE: select may report a datagram that the
                         \* kernel then drops, so that recvfrom blocks

ASSUME HandlerAssumption == NoHandler \notin Handler
ASSUME ReadinessAssumption == SpuriousReadiness \in BOOLEAN

VARIABLES
    open,            \* impl_->fd >= 0
    handler,         \* impl_->handler
    workerRunning,   \* impl_->worker_running
    thread,          \* impl_->worker: "none" (not joinable), "live", "ended"
    waiting,         \* a datagram waits in the socket
    cpc,             \* what the controller does next
    then,            \* what follows the controller's join
    wpc,             \* what the worker does next
    buffer,          \* the datagram receive is looking at, or NoDatagram
    packet,          \* the payload's bounds, from receive to the handler
    callback         \* the worker's copy of the handler

controllerVars == <<open, handler, cpc, then>>
received == <<buffer, packet>>
workerVars == <<wpc, received, callback>>
vars == <<open, handler, workerRunning, thread, waiting, cpc, then, wpc,
          buffer, packet, callback>>

\* What the three callers of stop_worker do after it.
AfterJoin == {"clear", "close", "destroy"}

ControllerStep == {"idle", "start", "spawn", "join", "gone"} \cup AfterJoin

WorkerStep == {"idle", "load", "select", "recv", "parse", "copy", "call"}

Init == /\ open = FALSE
        /\ handler = NoHandler
        /\ workerRunning = FALSE
        /\ thread = "none"
        /\ waiting = FALSE
        /\ cpc = "idle"
        /\ then = "close"
        /\ wpc = "idle"
        /\ buffer = NoDatagram
        /\ packet = NoPacket
        /\ callback = NoHandler

-----------------------------------------------------------------------------
\* The controller.

\* bind succeeds; the worker starts if a handler is already there.
Bind == /\ cpc = "idle"
        /\ ~open
        /\ open' = TRUE
        /\ cpc' = IF handler # NoHandler THEN "start" ELSE "idle"
        /\ UNCHANGED <<handler, workerRunning, thread, waiting, then, workerVars>>

\* The bind system call fails: bind closes the socket it has just created.
BindFails == /\ cpc = "idle"
             /\ ~open
             /\ open' = TRUE
             /\ workerRunning' = FALSE
             /\ cpc' = "join"
             /\ then' = "close"
             /\ UNCHANGED <<handler, thread, waiting, workerVars>>

\* Faulty form: only bind starts the worker.
SetPacketHandlerOnly(h) ==
    /\ cpc = "idle"
    /\ handler' = h
    /\ UNCHANGED <<open, workerRunning, thread, waiting, cpc, then, workerVars>>

SetPacketHandler(h) ==
    /\ cpc = "idle"
    /\ handler' = h
    /\ cpc' = IF open THEN "start" ELSE "idle"
    /\ UNCHANGED <<open, workerRunning, thread, waiting, then, workerVars>>

\* worker_running.exchange(true)
StartWorker ==
    /\ cpc = "start"
    /\ workerRunning' = TRUE
    /\ cpc' = IF workerRunning THEN "idle" ELSE "spawn"
    /\ UNCHANGED <<open, handler, thread, waiting, then, workerVars>>

\* worker = std::thread(...)
SpawnWorker ==
    /\ cpc = "spawn"
    /\ thread' = "live"
    /\ wpc' = "load"
    /\ cpc' = "idle"
    /\ UNCHANGED <<open, handler, workerRunning, waiting, then, received,
                   callback>>

\* Faulty form: worker_running is not cleared.
StopWorkerKeepsRunning(next) ==
    /\ cpc = "idle"
    /\ cpc' = "join"
    /\ then' = next
    /\ UNCHANGED <<open, handler, workerRunning, thread, waiting, workerVars>>

\* clear_packet_handler, close and the destructor begin with stop_worker.
StopWorker(next) ==
    /\ cpc = "idle"
    /\ workerRunning' = FALSE
    /\ cpc' = "join"
    /\ then' = next
    /\ UNCHANGED <<open, handler, thread, waiting, workerVars>>

\* Faulty forms: the join is left out, or is a detach.
JoinWorkerSkips ==
    /\ cpc = "join"
    /\ cpc' = then
    /\ UNCHANGED <<open, handler, workerRunning, thread, waiting, then, workerVars>>

JoinWorkerDetaches ==
    /\ cpc = "join"
    /\ thread' = "none"
    /\ cpc' = then
    /\ UNCHANGED <<open, handler, workerRunning, waiting, then, workerVars>>

\* if (worker.joinable()) worker.join()
JoinWorker ==
    /\ cpc = "join"
    /\ thread # "live"
    /\ thread' = "none"
    /\ cpc' = then
    /\ UNCHANGED <<open, handler, workerRunning, waiting, then, workerVars>>

ClearPacketHandler ==
    /\ cpc = "clear"
    /\ handler' = NoHandler
    /\ cpc' = "idle"
    /\ UNCHANGED <<open, workerRunning, thread, waiting, then, workerVars>>

CloseSocket(step, next) ==
    /\ cpc = step
    /\ open' = FALSE
    /\ waiting' = FALSE
    /\ cpc' = next
    /\ UNCHANGED <<handler, workerRunning, thread, then, workerVars>>

Close == CloseSocket("close", "idle")
Destroy == CloseSocket("destroy", "gone")

\* The owner allocates a new receiver where it destroyed one.
Construct == /\ cpc = "gone"
             /\ handler' = NoHandler
             /\ cpc' = "idle"
             /\ UNCHANGED <<open, workerRunning, thread, waiting, then, workerVars>>

-----------------------------------------------------------------------------
\* The worker.

\* while (worker_running.load())
Load == /\ wpc = "load"
        /\ IF workerRunning
           THEN wpc' = "select" /\ UNCHANGED thread
           ELSE wpc' = "idle" /\ thread' = "ended"
        /\ UNCHANGED <<controllerVars, workerRunning, waiting, received, callback>>

\* select reports the waiting datagram, or gives up after 100 ms.
Select == /\ wpc = "select"
          /\ wpc' = IF open /\ waiting THEN "recv" ELSE "load"
          /\ UNCHANGED <<controllerVars, workerRunning, thread, waiting, received,
                         callback>>

SelectSpurious ==
    /\ SpuriousReadiness
    /\ wpc = "select"
    /\ open
    /\ wpc' = "recv"
    /\ UNCHANGED <<controllerVars, workerRunning, thread, waiting, received,
                   callback>>

\* recvfrom blocks until a datagram is there.
Receive == /\ wpc = "recv"
           /\ waiting
           /\ waiting' = FALSE
           /\ buffer' \in Datagram
           /\ wpc' = "parse"
           /\ UNCHANGED <<controllerVars, workerRunning, thread, packet,
                          callback>>

\* receive returns the packet in the datagram, or false.
Parse == /\ wpc = "parse"
         /\ IF Accepts(buffer)
            THEN packet' = Payload(buffer) /\ wpc' = "copy"
            ELSE wpc' = "load" /\ UNCHANGED packet
         /\ buffer' = NoDatagram
         /\ UNCHANGED <<controllerVars, workerRunning, thread, waiting, callback>>

CopyHandler == /\ wpc = "copy"
               /\ callback' = handler
               /\ IF handler # NoHandler
                  THEN wpc' = "call" /\ UNCHANGED packet
                  ELSE wpc' = "load" /\ packet' = NoPacket
               /\ UNCHANGED <<controllerVars, workerRunning, thread, waiting, buffer>>

CallbackReturns ==
    /\ wpc = "call"
    /\ wpc' = "load"
    /\ callback' = NoHandler
    /\ packet' = NoPacket
    /\ UNCHANGED <<controllerVars, workerRunning, thread, waiting, buffer>>

-----------------------------------------------------------------------------
\* Environment: the network fills the socket's queue, here of one datagram.
Arrive == /\ open
          /\ ~waiting
          /\ waiting' = TRUE
          /\ UNCHANGED <<controllerVars, workerRunning, thread, workerVars>>

Call == \/ Bind
        \/ BindFails
        \/ \E h \in Handler : SetPacketHandler(h)
        \/ \E next \in AfterJoin : StopWorker(next)
        \/ Construct

Continue == \/ StartWorker
            \/ SpawnWorker
            \/ JoinWorker
            \/ ClearPacketHandler
            \/ Close
            \/ Destroy

Worker == \/ Load
          \/ Select
          \/ SelectSpurious
          \/ Receive
          \/ Parse
          \/ CopyHandler
          \/ CallbackReturns

Next == \/ Call
        \/ Continue
        \/ Worker
        \/ Arrive

\* A call that has begun goes on, and the worker thread is scheduled.
Fairness == WF_vars(Continue) /\ WF_vars(Worker)

Spec == Init /\ [][Next]_vars
FairSpec == Spec /\ Fairness

-----------------------------------------------------------------------------
\* Every variable keeps its type; the worker has a position exactly while its
\* thread is live (start_worker, rtp.cpp:37-52).
TypeOK == /\ open \in BOOLEAN
          /\ handler \in Handler \cup {NoHandler}
          /\ workerRunning \in BOOLEAN
          /\ thread \in {"none", "live", "ended"}
          /\ waiting \in BOOLEAN
          /\ cpc \in ControllerStep
          /\ then \in AfterJoin
          /\ wpc \in WorkerStep
          /\ callback \in Handler \cup {NoHandler}
          /\ buffer \in Datagram \cup {NoDatagram}
          /\ packet \in [first : Nat, last : Nat]
          /\ wpc # "idle" <=> thread = "live"
          /\ wpc = "parse" <=> buffer # NoDatagram
          /\ wpc \in {"copy", "call"} <=> packet # NoPacket
          /\ wpc = "call" <=> callback # NoHandler

\* The thread object is only assigned while it is not joinable; otherwise
\* std::thread's assignment ends the process (start_worker, rtp.cpp:39).
SpawnOnlyWhenJoined == cpc = "spawn" => thread = "none"

\* Once clear_packet_handler has returned there is no worker left to call the
\* handler it removed, whatever calls follow (rtp.cpp:129-133).
QuietAfterClear == handler = NoHandler => wpc = "idle"

\* The worker never waits on or reads a socket that close has given back:
\* close joins it first (rtp.cpp:103-115 against receive, rtp.cpp:135-159).
NoUseAfterClose ==
    /\ wpc \in {"select", "recv", "parse", "copy", "call"} => open
    /\ cpc = "gone" => wpc = "idle"

\* Between calls a bound receiver with a handler has a running worker, in
\* whichever order bind and set_packet_handler were called, and after any
\* number of clears and closes (rtp.cpp:94-99, 121-127).
BoundMeansListening ==
    cpc = "idle" => ((open /\ handler # NoHandler)
                        <=> (thread = "live" /\ workerRunning))

\* stop_worker always comes back: the worker leaves its loop within a receive
\* timeout, unless select reported a datagram that was then dropped and no
\* other ever arrives, so that recvfrom waits for good (rtp.cpp:32-42, 145-158).
StuckInReceive == wpc = "recv" /\ ~waiting
JoinReturns == []<>~StuckInReceive => (cpc = "join" ~> cpc \in AfterJoin)

\* No check of receive looks at a byte the datagram does not have
\* (rtp.cpp:162-181).
ReadsInside ==
    wpc = "parse" => BytesRead(buffer) \subseteq 0 .. buffer.size - 1

\* receive accepts exactly the datagrams that are laid out as RTP packets, and
\* hands on what lies between their header and their padding: the offsets it
\* computes one after the other agree with the layout (rtp.cpp:160-196).
AcceptsWellFormed ==
    [][buffer # NoDatagram /\ buffer' # buffer
         => IF WellFormed(buffer)
            THEN /\ packet' = [first |-> HeaderEnd(buffer),
                               last |-> buffer.size - Padding(buffer)]
                 /\ FixedHeader <= packet'.first
                 /\ packet'.first <= packet'.last
                 /\ packet'.last <= buffer.size
            ELSE packet' = NoPacket]_received

Subscription == INSTANCE PacketSubscription
                    WITH bound <- open,
                         registered <- handler,
                         delivering <- callback

\* The receiver implements the subscription its owners rely on.
ImplementsSubscription == Subscription!Spec
=============================================================================
