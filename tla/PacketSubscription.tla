------------------------- MODULE PacketSubscription -------------------------
(***************************************************************************)
(* What RtpReceiver promises its owner: packets are delivered to the       *)
(* registered handler, one at a time, while the receiver is bound; once    *)
(* the handler is removed or the receiver is closed, no delivery is in     *)
(* progress and none begins, so that the owner may destroy what the        *)
(* handler uses.                                                           *)
(***************************************************************************)
CONSTANTS Handler, NoHandler

VARIABLES bound, registered, delivering

vars == <<bound, registered, delivering>>

Init == /\ bound = FALSE
        /\ registered = NoHandler
        /\ delivering = NoHandler

Bind == bound' = TRUE /\ UNCHANGED <<registered, delivering>>

Register(h) == registered' = h /\ UNCHANGED <<bound, delivering>>

Close == /\ delivering = NoHandler
         /\ bound' = FALSE
         /\ UNCHANGED <<registered, delivering>>

Unregister == /\ delivering = NoHandler
              /\ registered' = NoHandler
              /\ UNCHANGED <<bound, delivering>>

\* A fresh receiver takes the place of a destroyed one.
Recreate == /\ ~bound
            /\ registered' = NoHandler
            /\ UNCHANGED <<bound, delivering>>

Begin == /\ bound
         /\ registered # NoHandler
         /\ delivering = NoHandler
         /\ delivering' = registered
         /\ UNCHANGED <<bound, registered>>

End == delivering' = NoHandler /\ UNCHANGED <<bound, registered>>

Next == \/ Bind
        \/ \E h \in Handler : Register(h)
        \/ Close
        \/ Unregister
        \/ Recreate
        \/ Begin
        \/ End

Spec == Init /\ [][Next]_vars
=============================================================================
