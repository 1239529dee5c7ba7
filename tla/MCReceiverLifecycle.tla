------------------------ MODULE MCReceiverLifecycle ------------------------
\* A name of one label, one as long as a name of the service may be, one longer
\* by an octet, one with a label that is too long after one that is not, and one
\* with an empty label.
EXTENDS ReceiverLifecycle

MCConfig == {[name |-> <<11>>, port |-> 7000],
             [name |-> <<63, 63, 63, 41>>, port |-> 7001],
             [name |-> <<63, 63, 63, 42>>, port |-> 7001],
             [name |-> <<5, 64>>, port |-> 7000],
             [name |-> <<7, 0>>, port |-> 7001]}
=============================================================================
