------------------------------ MODULE Pairing ------------------------------
(***************************************************************************)
(* The two pairings one connection may run: the transient SRP set-up       *)
(* (src/airplay_pairing.cpp, messages M1 to M4) and the HKP key exchange   *)
(* (src/airplay_hkp_pairing.cpp, /pair-setup and then /pair-verify in two  *)
(* phases).  Keys and secrets are symbolic: a key the receiver generates   *)
(* is the number of the request that made it, 0 is a null pointer, and a   *)
(* secret is the pair of keys it was agreed from.  Random numbers and      *)
(* memory are taken to be available.                                       *)
(***************************************************************************)
EXTENDS Naturals

CONSTANTS
    Client,           \* the keys clients come with
    LowOrder,         \* those of them X25519 agrees on nothing with
    NoClient,
    MaxStarts,        \* bound: phase 1 requests on one connection
    MaxSetups         \* bound: transient set-ups on one connection

ASSUME ClientAssumption == LowOrder \subseteq Client /\ NoClient \notin Client
ASSUME BoundAssumption == MaxStarts \in Nat /\ MaxSetups \in Nat

VARIABLES
    \* AirPlayHkpPairing
    identity,         \* ed25519 is generated
    x25519,           \* number of the start that generated it, or 0
    client,           \* client_curve_public and client_ed_public
    shared,           \* the secret agreed, or NoSecret
    verified,         \* verified_
    \* AirPlayTransientPairing
    srpKey,           \* number of the M1 that generated B and v, or 0
    secret,           \* shared_secret_, or NoSecret
    complete,         \* complete_
    \* history
    starts,           \* phase 1 requests so far
    offers,           \* those that were answered, with the keys of each
    proved            \* the SRP exchanges a client has proved to share

hkpVars == <<identity, x25519, client, shared, verified, starts, offers>>
srpVars == <<srpKey, secret, complete, proved>>
pairingVars == <<hkpVars, srpVars>>

Secret == [server : Nat, client : Client]
NoSecret == [server |-> 0, client |-> NoClient]

\* A connection begins with fresh objects.
Unpaired ==
    /\ identity = FALSE /\ x25519 = 0 /\ client = NoClient
    /\ shared = NoSecret /\ verified = FALSE
    /\ srpKey = 0 /\ secret = NoSecret /\ complete = FALSE
    /\ starts = 0 /\ offers = {} /\ proved = {}

\* No request can reach the objects any more; the next ones are fresh.
Discard ==
    /\ identity' = FALSE /\ x25519' = 0 /\ client' = NoClient
    /\ shared' = NoSecret /\ verified' = FALSE
    /\ srpKey' = 0 /\ secret' = NoSecret /\ complete' = FALSE
    /\ starts' = 0 /\ offers' = {} /\ proved' = {}

-----------------------------------------------------------------------------
\* POST /pair-setup with 32 bytes: the identity is generated once.
HkpSetup == /\ identity' = TRUE
            /\ UNCHANGED <<x25519, client, shared, verified, starts, offers,
                           srpVars>>

\* Faulty form: a key that is there serves the next exchange too.
RenewedWhenMissing == IF x25519 = 0 THEN starts' ELSE x25519

\* Every exchange has a key of its own.
Renewed == starts'

\* POST /pair-verify, phase 1.  The client's keys are stored before anything
\* is checked; without an identity that is all.
StartUnknown(c) == /\ starts < MaxStarts
                   /\ ~identity
                   /\ starts' = starts + 1
                   /\ client' = c
                   /\ UNCHANGED <<identity, x25519, shared, verified, offers,
                                  srpVars>>

\* The agreement fails after the key was renewed, and clears the secret.
StartDisagrees(c) == /\ starts < MaxStarts
                     /\ identity
                     /\ c \in LowOrder
                     /\ starts' = starts + 1
                     /\ client' = c
                     /\ x25519' = Renewed
                     /\ shared' = NoSecret
                     /\ UNCHANGED <<identity, verified, offers, srpVars>>

\* The answer carries the receiver's key and its signature of both.
StartAgrees(c) ==
    /\ starts < MaxStarts
    /\ identity
    /\ c \notin LowOrder
    /\ starts' = starts + 1
    /\ client' = c
    /\ x25519' = Renewed
    /\ shared' = [server |-> x25519', client |-> c]
    /\ offers' = offers \cup {[start |-> starts', keys |-> shared']}
    /\ UNCHANGED <<identity, verified, srpVars>>

\* Phase 2 in answer to the offer of some keys: the signature, encrypted with
\* their secret, is of the client's key and the receiver's.
Accepts(keys) == /\ shared # NoSecret
                 /\ keys = shared
                 /\ keys = [server |-> x25519, client |-> client]

Finish == /\ \E offer \in offers : Accepts(offer.keys)
          /\ verified' = TRUE
          /\ UNCHANGED <<identity, x25519, client, shared, starts, offers,
                         srpVars>>

-----------------------------------------------------------------------------
\* POST /pair-setup with a TLV, message M1 of a transient set-up: reset, then
\* new parameters, which M2 tells.
\* Faulty form: the outcome of the set-up before is kept.
SetUpKeepsOutcome == /\ srpKey < MaxSetups
                     /\ srpKey' = srpKey + 1
                     /\ secret' = NoSecret
                     /\ UNCHANGED <<complete, proved, hkpVars>>

SetUp == /\ srpKey < MaxSetups
         /\ srpKey' = srpKey + 1
         /\ secret' = NoSecret
         /\ complete' = FALSE
         /\ UNCHANGED <<proved, hkpVars>>

\* Message M3 with a client key in range and the proof of an exchange, which
\* may be that of an M2 since superseded.  The secret is stored before the
\* proof is compared, and stays if it does not match.
Exchange(c) == [server |-> srpKey, client |-> c]

ProofMatches(c, proof) == /\ srpKey # 0
                          /\ proof = Exchange(c)
                          /\ secret' = Exchange(c)
                          /\ complete' = TRUE
                          /\ proved' = proved \cup {proof}
                          /\ UNCHANGED <<srpKey, hkpVars>>

ProofDiffers(c, proof) == /\ srpKey # 0
                          /\ proof # Exchange(c)
                          /\ secret' = Exchange(c)
                          /\ UNCHANGED <<srpKey, complete, proved, hkpVars>>

\* The exchanges M2 has told of.
Told == [server : 1..srpKey, client : Client]

\* Requests that are malformed, in a wrong state or of another method or path
\* change nothing.
PairingRequest ==
    \/ HkpSetup
    \/ \E c \in Client : StartUnknown(c) \/ StartDisagrees(c) \/ StartAgrees(c)
    \/ Finish
    \/ SetUp
    \/ \E c \in Client, proof \in Told : ProofMatches(c, proof)
                                         \/ ProofDiffers(c, proof)

-----------------------------------------------------------------------------
\* A client's signature is accepted for the latest start only, whatever keys
\* it comes with again, whatever was answered before, and also when the latest
\* start failed half way: every start renews the key, and a failed agreement
\* leaves no secret (airplay_hkp_pairing.cpp:59-64).
VerifiesLatestStart ==
    \A offer \in offers : Accepts(offer.keys) => offer.start = starts

\* A transient set-up is complete only while the secret held and a proof that
\* was accepted are both of the last M1's parameters: a second M1 undoes the
\* first set-up, and a proof made for the earlier parameters does not bring it
\* back (airplay_pairing.cpp:39, 47-48).
CompleteWasProved ==
    complete => /\ secret.server = srpKey
                /\ \E exchange \in proved : exchange.server = srpKey
=============================================================================
