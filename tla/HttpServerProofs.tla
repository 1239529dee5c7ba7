-------------------------- MODULE HttpServerProofs --------------------------
(***************************************************************************)
(* What HttpServer promises for every set of connections and everything    *)
(* their clients may send: which requests are answered, in which order,    *)
(* and how long the session of a connection lives.  The invariant ties the *)
(* answers to the requests parsed, those to the pieces received, and the   *)
(* server's thread to the application that starts and stops it.            *)
(***************************************************************************)
EXTENDS HttpServer, TLAPS

TypeOK ==
    /\ running \in BOOLEAN /\ listening \in BOOLEAN
    /\ retained \subseteq Conn
    /\ pc \in {"none", "loop", "enter", "accept", "done", "killed"} \cup
              {"check", "recv", "parse", "handle", "close"}
    /\ spc \in {"idle", "close", "join", "killed"}
    /\ current \in Conn \cup {NoConn}
    /\ received \in Nat /\ consumed \in Nat
    /\ answers \in Seq(Nat)
    /\ script \in [Conn -> Seq(Kind)]
    /\ backlog \in Seq(Conn)

\* The thread runs from start until stop has joined it; there are sessions only
\* while it does, and one for the connection it serves.
ThreadOwned ==
    /\ running => spc \in {"idle", "killed"}
    /\ pc # "none" <=> running \/ spc # "idle"
    /\ pc = "none" => retained = {}
    /\ InClient => current \in Conn /\ current \in retained

\* Requests are answered as they are parsed; only the one in the handler, or
\* the one whose answer could not be sent, has no answer.
AnswersFollow ==
    /\ \A i \in 1..Len(answers) : answers[i] = i
    /\ pc \in {"check", "recv", "parse"} => Len(answers) = consumed
    /\ pc = "handle" => consumed = Len(answers) + 1
    /\ pc = "close" => Len(answers) <= consumed

\* What was parsed had come whole, and nothing malformed or closing before it.
ParsedWhole ==
    InClient =>
        /\ consumed <= Len(Sent)
        /\ 2 * consumed <= received
        /\ \A j \in 1..consumed : Sent[j] # "malformed"
        /\ \A j \in 1..consumed :
              j < consumed \/ pc \in {"check", "recv", "parse"} => Sent[j] # "close"

IInv == TypeOK /\ ThreadOwned /\ AnswersFollow /\ ParsedWhole

-----------------------------------------------------------------------------
\* The server begins stopped, without sessions or connections.
THEOREM InitIInv == Init => IInv
<1> SUFFICES ASSUME Init PROVE IInv
  OBVIOUS
<1> USE DEF Init
<1>1. TypeOK
  <2>1. << >> \in Seq(Nat) /\ << >> \in Seq(Conn) /\ << >> \in Seq(Kind)
    OBVIOUS
  <2>2. script \in [Conn -> Seq(Kind)]
    BY <2>1 DEF Unused
  <2>3. QED
    BY <2>1, <2>2 DEF TypeOK
<1>2. ThreadOwned /\ AnswersFollow /\ ParsedWhole
  BY DEF ThreadOwned, AnswersFollow, ParsedWhole, InClient
<1>3. QED
  BY <1>1, <1>2 DEF IInv

-----------------------------------------------------------------------------
\* What the application does: it never touches a connection that is served,
\* and clears the sessions only while there is no thread.
LEMMA ApplicationStep == IInv /\ Application => IInv'
<1> SUFFICES ASSUME IInv, Application PROVE IInv'
  OBVIOUS
<1> USE DEF IInv, inputVars, clientVars
<1>1. ASSUME Start \/ StartFails \/ BeginStop \/ Join
      PROVE  IInv'
  <2>1. UNCHANGED <<current, received, consumed, answers, script, backlog>>
    BY <1>1 DEF Start, StartFails, BeginStop, Join
  <2>2. InClient' => InClient /\ pc' = pc
    BY <1>1 DEF Start, StartFails, BeginStop, Join, InClient
  <2>3. TypeOK'
    BY <1>1, <2>1 DEF Start, StartFails, BeginStop, Join, TypeOK
  <2>4. ThreadOwned'
    BY <1>1 DEF Start, StartFails, BeginStop, Join, ThreadOwned, InClient, TypeOK
  <2>5. AnswersFollow' /\ ParsedWhole'
    BY <2>1, <2>2 DEF AnswersFollow, ParsedWhole, InClient, Sent
  <2>6. QED
    BY <2>3, <2>4, <2>5
<1>2. ASSUME CloseListener PROVE IInv'
  <2>1. TypeOK'
    <3>1. << >> \in Seq(Conn)
      OBVIOUS
    <3>2. /\ backlog' \in {<< >>, backlog} /\ listening' = FALSE /\ spc' = "join"
          /\ UNCHANGED <<running, retained, pc, current, received, consumed, answers, script>>
      BY <1>2 DEF CloseListener
    <3>3. QED
      BY <3>1, <3>2 DEF TypeOK
  <2>2. ThreadOwned' /\ AnswersFollow' /\ ParsedWhole'
    BY <1>2 DEF CloseListener, ThreadOwned, AnswersFollow, ParsedWhole, InClient, Sent
  <2>3. QED
    BY <2>1, <2>2
<1>3. QED
  BY <1>1, <1>2 DEF Application

\* Accepting a connection makes its session and starts with nothing read.
LEMMA AcceptStep == IInv /\ (Loop \/ Enter \/ Accept \/ AcceptFails) => IInv'
<1> SUFFICES ASSUME IInv, Loop \/ Enter \/ Accept \/ AcceptFails PROVE IInv'
  OBVIOUS
<1> USE DEF IInv, serverVars, inputVars, clientVars
<1>1. CASE Loop \/ Enter \/ AcceptFails
  <2>1. /\ UNCHANGED <<running, listening, retained, spc, current, received, consumed,
                       answers, script>>
        /\ backlog' \in {<< >>, backlog}
        /\ pc \in {"loop", "enter", "accept"}
        /\ pc' \in {"loop", "enter", "accept", "done"}
    BY <1>1 DEF Loop, Enter, AcceptFails, AfterFailure
  <2>2. backlog' \in Seq(Conn)
    <3>1. << >> \in Seq(Conn)
      OBVIOUS
    <3>2. QED
      BY <2>1, <3>1 DEF TypeOK
  <2>3. QED
    BY <2>1, <2>2 DEF TypeOK, ThreadOwned, AnswersFollow, ParsedWhole, InClient
<1>2. CASE Accept
  <2>1. Head(backlog) \in Conn /\ backlog' \in Seq(Conn)
    <3>1. Head(backlog) \in Conn /\ Tail(backlog) \in Seq(Conn) /\ << >> \in Seq(Conn)
      BY <1>2 DEF Accept, TypeOK
    <3>2. QED
      BY <1>2, <3>1 DEF Accept
  <2>2. TypeOK'
    BY <1>2, <2>1 DEF Accept, TypeOK
  <2>3. ThreadOwned'
    BY <1>2, <2>1 DEF Accept, ThreadOwned, InClient
  <2>4. Sent' \in Seq(Kind)
    BY <1>2, <2>1, ConnAssumption DEF Accept, Sent, TypeOK
  <2>5. AnswersFollow' /\ ParsedWhole'
    BY <1>2, <2>4 DEF Accept, AnswersFollow, ParsedWhole
  <2>6. QED
    BY <2>2, <2>3, <2>5
<1>3. QED
  BY <1>1, <1>2

-----------------------------------------------------------------------------
\* The steps of serve_client that neither parse nor answer a request.
LEMMA ReadStep ==
  IInv /\ (\/ Check \/ Receive \/ ReceiveEnd \/ NeedMore
           \/ ReplyFails \/ ReplyKills \/ CloseClient)
    => IInv'
<1> SUFFICES ASSUME IInv,
                    \/ Check \/ Receive \/ ReceiveEnd \/ NeedMore
                    \/ ReplyFails \/ ReplyKills \/ CloseClient
             PROVE  IInv'
  OBVIOUS
<1> USE DEF IInv, serverVars, inputVars, clientVars
<1>1. CASE Receive
  <2>1. received' \in Nat /\ received' > received
    BY <1>1 DEF Receive, TypeOK
  <2>2. /\ UNCHANGED <<running, listening, retained, spc, current, consumed, answers,
                       script, backlog>>
        /\ Sent' = Sent /\ pc = "recv" /\ pc' = "parse"
    BY <1>1 DEF Receive, Sent
  <2>3. QED
    BY <2>1, <2>2 DEF TypeOK, ThreadOwned, AnswersFollow, ParsedWhole, InClient
<1>2. CASE Check \/ ReceiveEnd \/ NeedMore \/ ReplyFails
  <2>1. /\ UNCHANGED <<running, listening, retained, spc, current, received, consumed,
                       answers, script, backlog>>
        /\ Sent' = Sent
    BY <1>2 DEF Check, ReceiveEnd, NeedMore, ReplyFails, Sent
  <2>2. \/ pc \in {"check", "recv", "parse"} /\ pc' \in {"check", "recv", "close"}
        \/ pc = "handle" /\ pc' = "close"
    BY <1>2 DEF Check, ReceiveEnd, NeedMore, ReplyFails
  <2>3. QED
    BY <2>1, <2>2 DEF TypeOK, ThreadOwned, AnswersFollow, ParsedWhole, InClient
<1>3. CASE CloseClient
  BY <1>3 DEF CloseClient, TypeOK, ThreadOwned, AnswersFollow, ParsedWhole, InClient
<1>4. CASE ReplyKills
  BY <1>4 DEF ReplyKills, TypeOK, ThreadOwned, AnswersFollow, ParsedWhole, InClient
<1>5. QED
  BY <1>1, <1>2, <1>3, <1>4

\* A request goes to the handler when it has come whole.
LEMMA DispatchStep == IInv /\ Dispatch => IInv'
<1> SUFFICES ASSUME IInv, Dispatch PROVE IInv'
  OBVIOUS
<1> USE DEF IInv, serverVars, inputVars, clientVars
<1>1. /\ pc = "parse" /\ pc' = "handle" /\ consumed' = consumed + 1
      /\ UNCHANGED <<running, listening, retained, spc, current, received, answers,
                     script, backlog>>
      /\ Sent' = Sent
  BY DEF Dispatch, Sent
<1>2. /\ consumed < Len(Sent) /\ received >= 2 * (consumed + 1)
      /\ Sent[consumed + 1] # "malformed"
  BY DEF Dispatch, Parsable
<1>3. TypeOK' /\ ThreadOwned' /\ AnswersFollow'
  BY <1>1 DEF TypeOK, ThreadOwned, AnswersFollow, InClient
<1>4. Len(Sent) \in Nat
  BY ConnAssumption DEF TypeOK, Sent, Unused, ThreadOwned
<1>5. ParsedWhole'
  BY <1>1, <1>2, <1>4 DEF TypeOK, ParsedWhole, InClient
<1>6. QED
  BY <1>3, <1>5

\* The answer to the request in the handler is the next one.
LEMMA ReplyStep == IInv /\ Reply => IInv'
<1> SUFFICES ASSUME IInv, Reply PROVE IInv'
  OBVIOUS
<1> USE DEF IInv, serverVars, inputVars, clientVars
<1>1. /\ pc = "handle" /\ answers' = Append(answers, consumed)
      /\ pc' = IF Sent[consumed] = "close" THEN "close" ELSE "parse"
      /\ UNCHANGED <<running, listening, retained, spc, current, received, consumed,
                     script, backlog>>
      /\ Sent' = Sent
  BY DEF Reply, Sent
<1>2. /\ answers' \in Seq(Nat) /\ Len(answers') = Len(answers) + 1
      /\ answers'[Len(answers) + 1] = consumed
      /\ \A i \in 1..Len(answers) : answers'[i] = answers[i]
  BY <1>1 DEF TypeOK
<1>3. consumed = Len(answers) + 1
  BY <1>1 DEF AnswersFollow
<1>4. TypeOK' /\ ThreadOwned'
  BY <1>1, <1>2 DEF TypeOK, ThreadOwned, InClient
<1>5. AnswersFollow'
  <2>1. \A i \in 1..Len(answers') : answers'[i] = i
    <3> SUFFICES ASSUME NEW i \in 1..Len(answers') PROVE answers'[i] = i
      OBVIOUS
    <3>1. Len(answers) \in Nat
      BY DEF TypeOK
    <3>2. CASE i = Len(answers) + 1
      BY <1>2, <1>3, <3>2
    <3>3. CASE i \in 1..Len(answers)
      BY <1>2, <3>3 DEF AnswersFollow
    <3>4. QED
      BY <1>2, <3>1, <3>2, <3>3
  <2>2. QED
    BY <1>1, <1>2, <1>3, <2>1 DEF AnswersFollow
<1>6. ParsedWhole'
  BY <1>1 DEF TypeOK, ParsedWhole, InClient
<1>7. QED
  BY <1>4, <1>5, <1>6

\* A client that connects or hangs up does not change what the connection
\* being served has sent; it could only do so where nothing was sent at all.
LEMMA ClientStep == IInv /\ Clients => IInv'
<1> SUFFICES ASSUME IInv, Clients PROVE IInv'
  OBVIOUS
<1> USE DEF IInv, serverVars, inputVars
<1>1. ASSUME NEW c \in Conn, Connect(c) PROVE IInv'
  <2>1. PICK sent \in Script : script' = [script EXCEPT ![c] = sent]
    BY <1>1 DEF Connect
  <2>2. /\ script[c] = << >> /\ backlog' = Append(backlog, c)
        /\ UNCHANGED <<running, listening, retained, spc, pc, current, received,
                       consumed, answers>>
    BY <1>1 DEF Connect, Unused
  <2>3. TypeOK'
    BY <2>1, <2>2, ScriptAssumption DEF TypeOK
  <2>4. ThreadOwned' /\ AnswersFollow'
    BY <2>2 DEF ThreadOwned, AnswersFollow, InClient
  <2>5. ParsedWhole'
    <3>1. CASE c = current /\ InClient
      <4>1. consumed = 0
        BY <2>2, <3>1, ConnAssumption DEF ParsedWhole, Sent, TypeOK
      <4>2. Sent' \in Seq(Kind)
        BY <2>1, <2>2, <2>3, <3>1, ConnAssumption DEF Sent, TypeOK
      <4>3. QED
        BY <2>2, <4>1, <4>2 DEF ParsedWhole, TypeOK
    <3>2. CASE c # current \/ ~InClient
      <4>1. InClient => Sent' = Sent
        BY <2>1, <2>2, <3>2 DEF Sent, TypeOK, ThreadOwned
      <4>2. QED
        BY <2>2, <4>1 DEF ParsedWhole, InClient
    <3>3. QED
      BY <3>1, <3>2
  <2>6. QED
    BY <2>3, <2>4, <2>5
<1>2. ASSUME NEW c \in Conn, HangUp(c) PROVE IInv'
  BY <1>2 DEF HangUp, TypeOK, ThreadOwned, AnswersFollow, ParsedWhole, InClient, Sent
<1>3. QED
  BY <1>1, <1>2 DEF Clients

\* Every step of the application, the server's thread or a client keeps the
\* invariant.
THEOREM NextIInv == IInv /\ [Next]_vars => IInv'
<1> SUFFICES ASSUME IInv, [Next]_vars PROVE IInv'
  OBVIOUS
<1>1. CASE Application
  BY <1>1, ApplicationStep
<1>2. CASE ServerThread
  BY <1>2, AcceptStep, ReadStep, DispatchStep, ReplyStep DEF ServerThread
<1>3. CASE AcceptFails
  BY <1>3, AcceptStep
<1>4. CASE Clients
  BY <1>4, ClientStep
<1>5. CASE UNCHANGED vars
  BY <1>5 DEF vars, serverVars, inputVars, clientVars, IInv, TypeOK, ThreadOwned,
              AnswersFollow, ParsedWhole, InClient, Sent
<1>6. QED
  BY <1>1, <1>2, <1>3, <1>4, <1>5 DEF Next, Killed

\* The invariant holds however the server is started, stopped and used.
THEOREM Invariance == Spec => []IInv
BY InitIInv, NextIInv, PTL DEF Spec

-----------------------------------------------------------------------------
\* The requests of a connection are answered once each, in the order they were
\* sent, however their pieces arrive.
THEOREM Ordered == Spec => []AnsweredInOrder
<1>1. IInv => AnsweredInOrder
  BY DEF IInv, AnswersFollow, AnsweredInOrder
<1>2. QED
  BY <1>1, Invariance, PTL

\* No request is answered before all of it has come, nor is one that does not
\* parse or that follows one that ends the connection.
THEOREM Whole == Spec => []OnlyWholeRequests
<1>1. IInv => OnlyWholeRequests
  <2> SUFFICES ASSUME IInv, InClient, NEW i \in 1..Len(answers)
               PROVE  /\ 2 * i <= received
                      /\ \A j \in 1..i : Sent[j] # "malformed"
                      /\ \A j \in 1..i - 1 : Sent[j] # "close"
    BY DEF OnlyWholeRequests
  <2>1. Len(answers) <= consumed /\ Len(answers) \in Nat /\ consumed \in Nat
    BY DEF IInv, AnswersFollow, InClient, TypeOK
  <2>2. QED
    BY <2>1 DEF IInv, ParsedWhole, TypeOK
<1>2. QED
  BY <1>1, Invariance, PTL

\* While a connection is served its session exists, and the thread that serves
\* it belongs to a server that runs or is being stopped.
THEOREM SessionInUse == Spec => []SessionOutlivesUse
<1>1. IInv => SessionOutlivesUse
  BY DEF IInv, ThreadOwned, SessionOutlivesUse
<1>2. QED
  BY <1>1, Invariance, PTL

\* No step ends a session but those after which there is no thread: a session
\* outlives its connection, up to the end of stop.
THEOREM SessionKept == Spec => SessionOutlivesConnection
<1>1. IInv /\ [Next]_vars => [retained \subseteq retained' \/ pc' = "none"]_vars
  <2> SUFFICES ASSUME IInv, Next PROVE retained \subseteq retained' \/ pc' = "none"
    OBVIOUS
  <2>1. CASE Application
    BY <2>1 DEF Application, Start, StartFails, BeginStop, CloseListener, Join, IInv,
                ThreadOwned, inputVars, clientVars
  <2>2. CASE ServerThread
    BY <2>2 DEF ServerThread, Loop, Enter, Accept, Check, Receive, ReceiveEnd,
                NeedMore, Dispatch, Reply, ReplyFails, ReplyKills, CloseClient,
                serverVars
  <2>3. CASE Clients
    BY <2>3 DEF Clients, Connect, HangUp, serverVars
  <2>4. CASE AcceptFails \/ Killed
    BY <2>4 DEF AcceptFails, Killed, serverVars, vars
  <2>5. QED
    BY <2>1, <2>2, <2>3, <2>4 DEF Next
<1>2. QED
  BY <1>1, Invariance, PTL DEF Spec, SessionOutlivesConnection

=============================================================================
