SPECIFICATION Spec
CONSTANTS
    ADDR = 3
    TAG = 2
    HDR_LEN = 6
    MIN_BUF_SIZE = 8
    FCS = 2
    rxbuf_size = 4
    N = 5
    Splits <- MCSplits
    NullSets <- MCNullSets
INVARIANTS StoredIsFrame DescribedExactly ReadsInside SenderKeepsItsBytes
PROPERTIES CallReturns
