CONSTANTS
    Byte <- MCByte
    MaxTyped = 3
SPECIFICATION FairSpec
INVARIANTS
    ExactlyOnce
    NothingForgotten
    WrittenOnceInOrder
PROPERTIES
    ImplementsPipe
    AllDelivered
