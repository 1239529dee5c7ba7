\* The sequence numbers wrap while a packet is missing and the map is full.
SPECIFICATION Spec
CONSTANTS
    SeqMod = 16
    Capacity = 2
    FirstIndex = 13
    LastIndex = 32
    Window = 2
    LossEnd = 32
    Draining = TRUE
    MaxReceived = 18
PROPERTIES DeliveredInOrder
