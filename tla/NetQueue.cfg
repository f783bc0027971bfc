SPECIFICATION FairSpec
CONSTANTS
    nq_maxlen = 2
    MaxPackets = 5
INVARIANTS HandlerNotReentered Conserved DeliveredInOrder QueueBounded WaiterHasPacket
PROPERTIES CallbackComes
