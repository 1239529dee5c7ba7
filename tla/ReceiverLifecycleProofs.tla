---------------------- MODULE ReceiverLifecycleProofs ----------------------
(***************************************************************************)
(* AirPlayReceiver for every set of configurations and of client keys, and *)
(* any number of requests on a connection: what the mDNS responder         *)
(* announces, what start and stop leave behind, and what the two pairings  *)
(* of a connection accept.                                                 *)
(***************************************************************************)
EXTENDS ReceiverLifecycle, SequenceTheorems, TLAPS

-----------------------------------------------------------------------------
\* A name whose labels are neither empty nor too long, and which is not too long
\* itself, is read to its end: the only zero is the last.
LEMMA ReadToTheEnd ==
  ASSUME NEW labels \in Seq(Nat),
         \A i \in 1..Len(labels) : labels[i] >= 1 /\ labels[i] <= 63,
         WireLength(Append(labels, 0)) <= 255
  PROVE  Readable(Encoded(labels))
<1>1. Encoded(labels) = Append(labels, 0)
  BY DEF Encoded
<1>2. /\ Append(labels, 0) \in Seq(Nat)
      /\ Len(Append(labels, 0)) = Len(labels) + 1
      /\ Append(labels, 0)[Len(labels) + 1] = 0
      /\ \A i \in 1..Len(labels) : Append(labels, 0)[i] = labels[i]
  OBVIOUS
<1>3. ASSUME NEW i \in 1..(Len(labels) + 1)
      PROVE  Append(labels, 0)[i] = 0 <=> i = Len(labels) + 1
  <2>1. CASE i = Len(labels) + 1
    BY <1>2, <2>1
  <2>2. CASE i # Len(labels) + 1
    <3>1. i \in 1..Len(labels)
      BY <2>2
    <3>2. Append(labels, 0)[i] = labels[i] /\ labels[i] >= 1
      BY <1>2, <3>1
    <3>3. QED
      BY <2>2, <3>2
  <2>3. QED
    BY <2>1, <2>2
<1>4. Append(labels, 0) # <<>> /\ DOMAIN Append(labels, 0) = 1..(Len(labels) + 1)
  <2> DEFINE bytes == Append(labels, 0)
  <2>1. bytes \in Seq(Nat) /\ Len(bytes) = Len(labels) + 1 /\ Len(labels) \in Nat
    BY <1>2
  <2> HIDE DEF bytes
  <2>2. bytes # <<>> /\ DOMAIN bytes = 1..(Len(labels) + 1)
    BY <2>1
  <2>3. QED
    BY <2>2 DEF bytes
<1>5. QED
  BY <1>1, <1>2, <1>3, <1>4 DEF Readable

\* The labels of the service are those DNS can carry, after the instance's own.
LEMMA ServiceNameFits ==
  ASSUME NEW c \in Config, Nameable(c)
  PROVE  /\ ServiceName(c) \in Seq(Nat)
         /\ \A i \in 1..Len(ServiceName(c)) :
              ServiceName(c)[i] >= 1 /\ ServiceName(c)[i] <= 63
         /\ WireLength(Append(ServiceName(c), 0)) <= 255
<1> DEFINE own == c.name
           common == <<8, 4, 5>>
<1>1. own \in Seq(Nat) /\ \A i \in 1..Len(own) : own[i] >= 1 /\ own[i] <= 63
  <2>1. own \in Seq(Nat)
    BY ConfigAssumption
  <2>2. DOMAIN own = 1..Len(own)
    BY <2>1
  <2>3. \A i \in DOMAIN own : own[i] \in 1..63
    BY DEF Nameable
  <2> HIDE DEF own
  <2>4. ASSUME NEW i \in 1..Len(own) PROVE own[i] >= 1 /\ own[i] <= 63
    <3>1. own[i] \in 1..63
      BY <2>2, <2>3
    <3>2. \A n \in 1..63 : n >= 1 /\ n <= 63
      OBVIOUS
    <3>3. QED
      BY <3>1, <3>2, Zenon
  <2>5. QED
    BY <2>1, <2>4
<1>2. /\ common \in Seq(Nat) /\ Len(common) = 3
      /\ \A i \in 1..3 : common[i] >= 1 /\ common[i] <= 63
  OBVIOUS
<1>3. ServiceName(c) = own \o common
  BY DEF ServiceName
<1>7. WireLength(Append(ServiceName(c), 0)) <= 255
  BY DEF Nameable
<1> HIDE DEF own, common
<1>4. /\ own \o common \in Seq(Nat)
      /\ Len(own \o common) = Len(own) + 3
      /\ \A i \in 1..(Len(own) + 3) :
           (own \o common)[i] = IF i <= Len(own) THEN own[i]
                                ELSE common[i - Len(own)]
  <2>1. /\ own \o common \in Seq(Nat)
        /\ Len(own \o common) = Len(own) + Len(common)
        /\ \A i \in 1..(Len(own) + Len(common)) :
             (own \o common)[i] = IF i <= Len(own) THEN own[i]
                                  ELSE common[i - Len(own)]
    <3>1. own \in Seq(Nat)
      BY <1>1
    <3>2. common \in Seq(Nat)
      BY <1>2
    <3>3. QED
      BY ONLY <3>1, <3>2, ConcatProperties, ZenonT(60)
  <2>2. QED
    BY <1>2, <2>1
<1>5. ASSUME NEW i \in 1..(Len(own) + 3)
      PROVE  (own \o common)[i] >= 1 /\ (own \o common)[i] <= 63
  <2>1. CASE i <= Len(own)
    BY <1>1, <1>4, <2>1
  <2>2. CASE ~(i <= Len(own))
    <3>1. i - Len(own) \in 1..3
      BY <1>1, <2>2
    <3>2. QED
      BY <1>2, <1>4, <2>2, <3>1
  <2>3. QED
    BY <2>1, <2>2
<1>6. QED
  BY <1>3, <1>4, <1>5, <1>7

\* The port of a device whose name DNS can carry is found.
LEMMA NameableResolves ==
  ASSUME NEW c \in Config, Nameable(c)
  PROVE  ResolvedPort(c) = c.port
BY ServiceNameFits, ReadToTheEnd DEF ResolvedPort

-----------------------------------------------------------------------------
\* What is up at each point of start and stop.
Standing ==
    /\ apc = "idle" => AllOrNothing
    /\ apc \in {"publish", "activate"} =>
         /\ ~running /\ ~active /\ rpc = "none"
         /\ server \in Config /\ config = server /\ hpc # "none"
         /\ socket <=> apc = "activate"
    /\ apc = "announce" => /\ ~running /\ active /\ socket
                           /\ rpc # "none" /\ hpc # "none"
    /\ apc = "abort" => /\ server # NoConfig
                        /\ ~running /\ ~active /\ ~socket
                        /\ rpc = "none" /\ hpc # "none"
    /\ apc \in {"closeSocket", "join"} => ~active
    /\ apc = "join" => ~socket
    /\ apc \in {"closeSocket", "join", "stopServer"} =>
         (server # NoConfig <=> hpc # "none")
    /\ apc \in {"stopServer", "joinServer"} => ~active /\ ~socket /\ rpc = "none"
    /\ apc = "joinServer" => server = NoConfig
    /\ hpc = "done" => apc = "joinServer"
    /\ apc \in {"idle", "publish", "activate", "announce", "abort",
                "closeSocket", "join", "stopServer", "joinServer"}

\* While there is a responder, it announces the server that is up.
ResponderKnows ==
    rpc # "none" => /\ server \in Config
                    /\ advertised = server
                    /\ apc \in {"idle", "announce", "closeSocket", "join"}

\* A secret is that of the latest start, and an offer has the key of its start.
ExchangeIsLatest ==
    /\ shared # NoSecret => identity /\ x25519 = starts
    /\ \A offer \in offers : offer.keys.server = offer.start

IInv == /\ {running, active, socket} \subseteq BOOLEAN
        /\ Standing
        /\ ResponderKnows
        /\ ExchangeIsLatest
        /\ CompleteWasProved

LEMMA UnpairedIsSafe ==
  /\ Unpaired => ExchangeIsLatest /\ CompleteWasProved
  /\ Discard => ExchangeIsLatest' /\ CompleteWasProved'
BY DEF Unpaired, Discard, ExchangeIsLatest, CompleteWasProved

\* What a pairing relies on changes only with its variables.
LEMMA PairingUntouched ==
  ASSUME ExchangeIsLatest, CompleteWasProved, UNCHANGED pairingVars
  PROVE  ExchangeIsLatest' /\ CompleteWasProved'
BY DEF ExchangeIsLatest, CompleteWasProved, pairingVars, hkpVars, srpVars

LEMMA HkpUntouched ==
  ASSUME ExchangeIsLatest, UNCHANGED hkpVars
  PROVE  ExchangeIsLatest'
BY DEF ExchangeIsLatest, hkpVars

LEMMA SrpUntouched ==
  ASSUME CompleteWasProved, UNCHANGED srpVars
  PROVE  CompleteWasProved'
BY DEF CompleteWasProved, srpVars

\* No request of either pairing disturbs what the other relies on.
LEMMA PairingStep ==
  ASSUME ExchangeIsLatest, CompleteWasProved, PairingRequest
  PROVE  ExchangeIsLatest' /\ CompleteWasProved'
<1>1. CASE HkpSetup
  BY <1>1, SrpUntouched DEF HkpSetup, ExchangeIsLatest
<1>2. ASSUME NEW c \in Client, StartUnknown(c)
      PROVE  ExchangeIsLatest' /\ CompleteWasProved'
  BY <1>2, SrpUntouched DEF StartUnknown, ExchangeIsLatest
<1>3. ASSUME NEW c \in Client, StartDisagrees(c)
      PROVE  ExchangeIsLatest' /\ CompleteWasProved'
  BY <1>3, SrpUntouched DEF StartDisagrees, ExchangeIsLatest
<1>4. ASSUME NEW c \in Client, StartAgrees(c)
      PROVE  ExchangeIsLatest' /\ CompleteWasProved'
  <2>1. identity' /\ x25519' = starts'
    BY <1>4 DEF StartAgrees, Renewed
  <2>2. ASSUME NEW offer \in offers'
        PROVE  offer.keys.server = offer.start
    BY <1>4, <2>2 DEF StartAgrees, Renewed, ExchangeIsLatest
  <2>3. CompleteWasProved'
    BY <1>4, SrpUntouched DEF StartAgrees
  <2>4. QED
    BY <2>1, <2>2, <2>3 DEF ExchangeIsLatest
<1>5. CASE Finish
  BY <1>5, SrpUntouched DEF Finish, ExchangeIsLatest
<1>6. CASE SetUp
  BY <1>6, HkpUntouched DEF SetUp, CompleteWasProved
<1>7. ASSUME NEW c \in Client, NEW proof \in Told, ProofMatches(c, proof)
      PROVE  ExchangeIsLatest' /\ CompleteWasProved'
  BY <1>7, HkpUntouched DEF ProofMatches, Exchange, CompleteWasProved
<1>8. ASSUME NEW c \in Client, NEW proof \in Told, ProofDiffers(c, proof)
      PROVE  ExchangeIsLatest' /\ CompleteWasProved'
  BY <1>8, HkpUntouched DEF ProofDiffers, Exchange, CompleteWasProved
<1>9. QED
  BY PairingRequest, <1>1, <1>2, <1>3, <1>4, <1>5, <1>6, <1>7, <1>8
  DEF PairingRequest

-----------------------------------------------------------------------------
THEOREM InitIInv == Init => IInv
BY UnpairedIsSafe
DEF Init, IInv, Standing, AllOrNothing, ResponderKnows

\* The lifecycle's own steps: each moves apc, and none touches the objects of a
\* connection.
LEMMA LifecycleStep ==
  ASSUME IInv,
         \/ \E c \in Config : StartServer(c) \/ StartServerFails(c)
         \/ Stop \/ Application
  PROVE  IInv'
<1> USE DEF IInv, Standing, AllOrNothing, ResponderKnows, receiverVars,
            connectionVars, mdnsVars
<1>1. ASSUME NEW c \in Config, StartServer(c) PROVE IInv'
  BY <1>1, PairingUntouched, ConfigAssumption DEF StartServer
<1>2. ASSUME NEW c \in Config, StartServerFails(c) PROVE IInv'
  BY <1>2, PairingUntouched DEF StartServerFails
<1>3. CASE Stop
  BY <1>3, PairingUntouched DEF Stop
<1>4. CASE OpenResponder
  BY <1>4, PairingUntouched DEF OpenResponder
<1>5. CASE OpenResponderFails
  BY <1>5, PairingUntouched, ConfigAssumption DEF OpenResponderFails
<1>6. CASE Activate
  BY <1>6, PairingUntouched DEF Activate
<1>7. CASE Announce
  BY <1>7, PairingUntouched, ConfigAssumption DEF Announce
<1>8. CASE Abort
  BY <1>8, PairingUntouched DEF Abort
<1>9. CASE CloseSocket
  BY <1>9, PairingUntouched DEF CloseSocket
<1>10. CASE JoinResponder
  BY <1>10, PairingUntouched DEF JoinResponder
<1>11. CASE StopServer
  BY <1>11, PairingUntouched DEF StopServer
<1>12. CASE NoServer
  BY <1>12, PairingUntouched DEF NoServer
<1>13. CASE JoinServer
  BY <1>13, PairingUntouched DEF JoinServer
<1>14. QED
  BY <1>1, <1>2, <1>3, <1>4, <1>5, <1>6, <1>7, <1>8, <1>9, <1>10, <1>11,
     <1>12, <1>13
  DEF Application

\* The responder changes nothing but its position, and ends only once stopped.
LEMMA ResponderStep ==
  ASSUME IInv, Loop \/ QueryArrives \/ OtherArrives \/ TakeQuery \/ Answer
  PROVE  IInv'
<1> USE DEF IInv, Standing, AllOrNothing, ResponderKnows, receiverVars,
            connectionVars, mdnsVars
<1>1. CASE Loop
  BY <1>1, PairingUntouched DEF Loop
<1>2. CASE QueryArrives
  BY <1>2, PairingUntouched DEF QueryArrives
<1>3. CASE OtherArrives
  BY <1>3, PairingUntouched DEF OtherArrives
<1>4. CASE TakeQuery
  BY <1>4, PairingUntouched DEF TakeQuery
<1>5. CASE Answer
  BY <1>5, PairingUntouched DEF Answer
<1>6. QED
  BY <1>1, <1>2, <1>3, <1>4, <1>5

LEMMA ConnectionStep ==
  ASSUME IInv, Connect \/ Request \/ Disconnect \/ AcceptEnds
  PROVE  IInv'
<1> USE DEF IInv, Standing, AllOrNothing, ResponderKnows, receiverVars,
            mdnsVars
<1>1. CASE Connect
  BY <1>1, PairingUntouched DEF Connect
<1>2. CASE Disconnect
  BY <1>2, UnpairedIsSafe, ConfigAssumption DEF Disconnect
<1>3. CASE Request
  BY <1>3, PairingStep DEF Request
<1>4. CASE AcceptEnds
  BY <1>4, PairingUntouched, ConfigAssumption DEF AcceptEnds
<1>5. QED
  BY <1>1, <1>2, <1>3, <1>4

THEOREM Invariance == Spec => []IInv
<1>1. IInv /\ UNCHANGED vars => IInv'
  BY PairingUntouched
  DEF IInv, Standing, AllOrNothing, ResponderKnows, vars, receiverVars,
      connectionVars, mdnsVars
<1>2. IInv /\ [Next]_vars => IInv'
  BY <1>1, LifecycleStep, ResponderStep, ConnectionStep DEF Next
<1>3. QED
  BY InitIInv, <1>2, PTL DEF Spec

\* Every response resolves to the server of this start.
THEOREM ResponsesNameServer == Spec => []ResponseNamesServer
<1>1. IInv => ResponseNamesServer
  <2> SUFFICES ASSUME IInv, apc = "announce" \/ rpc = "answer"
               PROVE  /\ server # NoConfig
                      /\ advertised = server
                      /\ Nameable(server) => ResolvedPort(advertised) = server.port
    BY DEF ResponseNamesServer
  <2>1. server \in Config /\ advertised = server
    BY DEF IInv, Standing, ResponderKnows
  <2>2. QED
    BY <2>1, NameableResolves, ConfigAssumption
<1>2. QED
  BY <1>1, Invariance, PTL

\* Between calls everything is up, or nothing.
THEOREM UpOrDown == Spec => []AllOrNothing
<1>1. IInv => AllOrNothing
  BY DEF IInv, Standing, AllOrNothing
<1>2. QED
  BY <1>1, Invariance, PTL

\* A signature is accepted for the latest start only.
THEOREM LatestStartOnly == Spec => []VerifiesLatestStart
<1>1. IInv => VerifiesLatestStart
  BY DEF IInv, ExchangeIsLatest, VerifiesLatestStart, Accepts
<1>2. QED
  BY <1>1, Invariance, PTL

\* A set-up that is complete was proved with the parameters that are held.
THEOREM CompleteIsProved == Spec => []CompleteWasProved
<1>1. IInv => CompleteWasProved
  BY DEF IInv
<1>2. QED
  BY <1>1, Invariance, PTL
=============================================================================
