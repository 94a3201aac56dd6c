\* Every interleaving of the calls on two rings of two bytes.
CONSTANTS
  FIFO_SIZE = 2
  Data <- MCData
SPECIFICATION FairSpec
INVARIANTS TypeOK MutualExclusion MaskedInside
PROPERTIES CallsAreAtomic RxIsQueue TxIsQueue Reenabled
