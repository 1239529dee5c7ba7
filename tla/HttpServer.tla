----------------------------- MODULE HttpServer -----------------------------
(***************************************************************************)
(* HttpServer (src/http_server.cpp): one thread accepts connections and    *)
(* serves them one after the other; the application starts and stops it.   *)
(* A connection is identified with the handler made for it.  Each request  *)
(* is two pieces, its head and its body, that TCP may deliver together or  *)
(* apart.                                                                  *)
(***************************************************************************)
EXTENDS Naturals, SequencesExt

CONSTANTS
    Conn,             \* connections that are made, in one run or another
    NoConn,
    Script            \* what a client may send: sequences of kinds of requests

Kind == {"plain", "close", "malformed"}
ASSUME ConnAssumption == NoConn \notin Conn
ASSUME ScriptAssumption == Script \subseteq Seq(Kind)

VARIABLES
    running,          \* running
    listening,        \* the listening socket is open
    retained,         \* retained_handlers
    pc,               \* position of the server thread
    spc,              \* position of the application in stop
    current,          \* the connection served
    received,         \* pieces read from it, including those erased from input
    consumed,         \* requests parsed out of input
    answers,          \* requests answered on it, in order
    script,           \* what each connection's client sends
    backlog,          \* connections waiting to be accepted
    hungUp            \* connections whose client has closed its side

serverVars == <<running, listening, retained, spc>>
inputVars == <<received, consumed, answers>>
clientVars == <<script, backlog, hungUp>>
vars == <<serverVars, pc, current, inputVars, clientVars>>

Unused == << >>
Sent == IF current = NoConn THEN Unused ELSE script[current]
InClient == pc \in {"check", "recv", "parse", "handle", "close"}

Init == /\ running = FALSE /\ listening = FALSE
        /\ retained = {}
        /\ pc = "none" /\ spc = "idle"
        /\ current = NoConn
        /\ received = 0 /\ consumed = 0 /\ answers = << >>
        /\ script = [c \in Conn |-> Unused]
        /\ backlog = << >>
        /\ hungUp = {}

-----------------------------------------------------------------------------
\* The application.  start on a running server only returns false.
Start == /\ spc = "idle"
         /\ ~running
         /\ running' = TRUE /\ listening' = TRUE
         /\ retained' = {}
         /\ pc' = "loop"
         /\ UNCHANGED <<spc, current, inputVars, clientVars>>

\* No socket, or not this port: the server is as if it had not been started.
StartFails == /\ spc = "idle"
              /\ ~running
              /\ retained' = {}
              /\ UNCHANGED <<running, listening, spc, pc, current, inputVars,
                             clientVars>>

BeginStop == /\ spc = "idle"
             /\ running
             /\ running' = FALSE
             /\ spc' = "close"
             /\ UNCHANGED <<listening, retained, pc, current, inputVars, clientVars>>

\* Connections that were not accepted are reset with the socket, which goes at
\* once, or with an accept that is blocked on it.
CloseListener == /\ spc = "close"
                 /\ listening' = FALSE
                 /\ IF pc = "accept"
                    THEN UNCHANGED <<backlog, hungUp>>
                    ELSE backlog' = << >> /\ hungUp' = hungUp \cup Range(backlog)
                 /\ spc' = "join"
                 /\ UNCHANGED <<running, retained, pc, current, inputVars, script>>

\* Faulty form: the sessions go without waiting for the thread.
JoinSkips == /\ spc = "join"
             /\ retained' = {}
             /\ spc' = "idle"
             /\ UNCHANGED <<running, listening, pc, current, inputVars, clientVars>>

\* The sessions are destroyed when the thread is gone.
Join == /\ spc = "join"
        /\ pc = "done"
        /\ pc' = "none"
        /\ retained' = {}
        /\ spc' = "idle"
        /\ UNCHANGED <<running, listening, current, inputVars, clientVars>>

-----------------------------------------------------------------------------
\* serve: the loop around accept.
Loop == /\ pc = "loop"
        /\ pc' = IF running THEN "enter" ELSE "done"
        /\ UNCHANGED <<serverVars, current, inputVars, clientVars>>

\* Faulty form: accept is called again without a look at running.
AfterFailureRetries == "enter"

AfterFailure == IF running THEN "loop" ELSE "done"

\* accept is called, which fails if the socket has been closed already.
Enter == /\ pc = "enter"
         /\ pc' = IF listening THEN "accept" ELSE AfterFailure
         /\ UNCHANGED <<serverVars, current, inputVars, clientVars>>

\* Faulty form: what was read on the last connection is still in the input.
AcceptKeepsInput == /\ pc = "accept"
                    /\ backlog # << >>
                    /\ current' = Head(backlog)
                    /\ backlog' = Tail(backlog)
                    /\ retained' = retained \cup {Head(backlog)}
                    /\ answers' = << >>
                    /\ pc' = "check"
                    /\ UNCHANGED <<running, listening, spc, received, consumed,
                                   script, hungUp>>

\* A blocked accept takes a connection also after the socket was closed; the
\* socket is then gone, and the connections behind it with it.
Accept == /\ pc = "accept"
          /\ backlog # << >>
          /\ current' = Head(backlog)
          /\ retained' = retained \cup {Head(backlog)}
          /\ IF listening
             THEN backlog' = Tail(backlog) /\ hungUp' = hungUp
             ELSE backlog' = << >> /\ hungUp' = hungUp \cup Range(Tail(backlog))
          /\ received' = 0 /\ consumed' = 0 /\ answers' = << >>
          /\ pc' = "check"
          /\ UNCHANGED <<running, listening, spc, script>>

\* accept fails, for want of descriptors or because the socket was closed: this
\* wakes it on some platforms and on others, Linux and Android, does not.
AcceptFails == /\ pc = "accept"
               /\ pc' = AfterFailure
               /\ IF listening
                  THEN UNCHANGED <<backlog, hungUp>>
                  ELSE backlog' = << >> /\ hungUp' = hungUp \cup Range(backlog)
               /\ UNCHANGED <<serverVars, current, inputVars, script>>

-----------------------------------------------------------------------------
\* serve_client.
Check == /\ pc = "check"
         /\ pc' = IF running THEN "recv" ELSE "close"
         /\ UNCHANGED <<serverVars, current, inputVars, clientVars>>

\* recv blocks until some pieces are there and returns any number of them.
Receive == /\ pc = "recv"
           /\ received' \in received + 1 .. 2 * Len(Sent)
           /\ pc' = "parse"
           /\ UNCHANGED <<serverVars, current, consumed, answers, clientVars>>

ReceiveEnd == /\ pc = "recv"
              /\ current \in hungUp
              /\ pc' = "close"
              /\ UNCHANGED <<serverVars, current, inputVars, clientVars>>

\* Faulty form: a request is taken with its head, before its body is there.
ParsableByHead == /\ consumed < Len(Sent)
                  /\ received > 2 * consumed
                  /\ Sent[consumed + 1] # "malformed"

\* parse_request finds the next request whole; a malformed one stays in input.
\* Lengths are taken to be far below 2^64, where header_end + 4 + content_length
\* would wrap.
Parsable == /\ consumed < Len(Sent)
            /\ received >= 2 * (consumed + 1)
            /\ Sent[consumed + 1] # "malformed"

NeedMore == /\ pc = "parse"
            /\ ~Parsable
            /\ pc' = "check"
            /\ UNCHANGED <<serverVars, current, inputVars, clientVars>>

Dispatch == /\ pc = "parse"
            /\ Parsable
            /\ consumed' = consumed + 1
            /\ pc' = "handle"
            /\ UNCHANGED <<serverVars, current, received, answers, clientVars>>

\* Faulty form: the next request is looked for only after another recv.
ReplyOnce == /\ pc = "handle"
             /\ answers' = Append(answers, consumed)
             /\ pc' = IF Sent[consumed] = "close" THEN "close" ELSE "check"
             /\ UNCHANGED <<serverVars, current, received, consumed, clientVars>>

\* The handler returns and its answer is sent.
Reply == /\ pc = "handle"
         /\ answers' = Append(answers, consumed)
         /\ pc' = IF Sent[consumed] = "close" THEN "close" ELSE "parse"
         /\ UNCHANGED <<serverVars, current, received, consumed, clientVars>>

\* send fails when the client is gone.
ReplyFails == /\ pc = "handle"
              /\ current \in hungUp
              /\ pc' = "close"
              /\ UNCHANGED <<serverVars, current, inputVars, clientVars>>

\* Or it raises SIGPIPE, which ends the process unless the application ignores
\* the signal.
ReplyKills == /\ pc = "handle"
              /\ current \in hungUp
              /\ pc' = "killed" /\ spc' = "killed"
              /\ listening' = FALSE
              /\ UNCHANGED <<running, retained, current, inputVars, clientVars>>

Killed == pc = "killed" /\ UNCHANGED vars

\* Faulty form: the session ends with its connection.
CloseClientReleases == /\ pc = "close"
                       /\ retained' = retained \ {current}
                       /\ current' = NoConn
                       /\ hungUp' = hungUp \cup {current}
                       /\ pc' = "loop"
                       /\ UNCHANGED <<running, listening, spc, inputVars, script,
                                      backlog>>

CloseClient == /\ pc = "close"
               /\ current' = NoConn
               /\ hungUp' = hungUp \cup {current}
               /\ pc' = "loop"
               /\ UNCHANGED <<serverVars, inputVars, script, backlog>>

-----------------------------------------------------------------------------
\* Clients.  They reach the server also where a blocked accept keeps the socket.
Connect(c) == /\ listening \/ pc = "accept"
              /\ script[c] = Unused
              /\ \E sent \in Script : script' = [script EXCEPT ![c] = sent]
              /\ backlog' = Append(backlog, c)
              /\ UNCHANGED <<serverVars, pc, current, inputVars, hungUp>>

HangUp(c) == /\ script[c] # Unused
             /\ c \notin hungUp
             /\ hungUp' = hungUp \cup {c}
             /\ UNCHANGED <<serverVars, pc, current, inputVars, script, backlog>>

Application == Start \/ StartFails \/ BeginStop \/ CloseListener \/ Join

ServerThread == \/ Loop \/ Enter \/ Accept
                \/ Check \/ Receive \/ ReceiveEnd
                \/ NeedMore \/ Dispatch \/ Reply \/ ReplyFails \/ ReplyKills
                \/ CloseClient

Clients == \E c \in Conn : Connect(c) \/ HangUp(c)

Next == Application \/ ServerThread \/ AcceptFails \/ Clients \/ Killed

\* The thread runs on while it can, and so does a stop that has begun.  That
\* accept fails is left to the platform.
Fairness == WF_vars(ServerThread) /\ WF_vars(CloseListener \/ Join)

Spec == Init /\ [][Next]_vars
FairSpec == Spec /\ Fairness

-----------------------------------------------------------------------------
\* The requests of a connection are answered once each and in the order they
\* were sent, however their pieces arrive (http_server.cpp:80-112, 152-187).
AnsweredInOrder ==
    /\ \A i \in 1..Len(answers) : answers[i] = i
    /\ pc \in {"check", "recv", "parse"} => Len(answers) = consumed

\* No request is answered before all of it was received, nor a malformed one,
\* nor anything that follows a malformed one or a Connection: close
\* (http_server.cpp:101-108, 183-186).
OnlyWholeRequests ==
    InClient =>
        \A i \in 1..Len(answers) :
            /\ 2 * i <= received
            /\ \A j \in 1..i : Sent[j] # "malformed"
            /\ \A j \in 1..i - 1 : Sent[j] # "close"

\* While a connection is served its session exists, also when the server is
\* being stopped: stop destroys the sessions after the thread has ended, and
\* no second thread is started beside it (http_server.cpp:265-275).
SessionOutlivesUse ==
    /\ InClient => current \in retained
    /\ pc # "none" => running \/ spc # "idle"

\* A session outlives its connection: it stays until the server is stopped
\* and the thread has ended, for the event channel may need it
\* (http_server.cpp:124-128).
SessionOutlivesConnection ==
    [][retained \subseteq retained' \/ pc' = "none"]_vars

\* A client that sends nothing malformed and stays gets every request up to a
\* Connection: close answered, however they are pipelined, unless the server
\* is stopped (http_server.cpp:155-187).
Expected(c) == {i \in 1..Len(script[c]) :
                    \A j \in 1..i : /\ script[c][j] # "malformed"
                                    /\ j < i => script[c][j] # "close"}
EveryRequestAnswered ==
    \A c \in Conn :
        current = c ~> \/ Expected(c) \subseteq Range(answers)
                       \/ ~running
                       \/ c \in hungUp

\* The premises of the next property: the clients that are served hang up in the
\* end, and accept does not wait for ever on a socket that was closed, because
\* the close wakes it or another connection comes.
ClientsLeave == []<>(current = NoConn \/ current \in hungUp)
AcceptReturns == []<>~(pc = "accept" /\ ~listening)

StopEnds == spc \in {"close", "join"} ~> spc \in {"idle", "killed"}

\* Under these premises stop returns, or the process has been ended by a signal
\* meanwhile (http_server.cpp:265-275: neither recv, accept nor the handler is
\* interrupted).
StopReturns == ClientsLeave /\ AcceptReturns => StopEnds

\* The second premise is not the application's business: a user who asks a
\* receiver without clients to stop expects it to (examples/macos/main.cpp:38,
\* 44; README.md:37 has Linux share this core).
StopReturnsUnaided == ClientsLeave => StopEnds
=============================================================================
