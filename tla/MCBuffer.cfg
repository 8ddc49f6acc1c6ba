CONSTANTS
    x = x
    y = y
    Byte <- MCByte
    Zero = x
    cacheHeapPrepend_ = 1
    initialSize_ = 2
    ExtraSize = 2
    MaxReadable = 4
SPECIFICATION Spec
INVARIANTS
    TypeOK
    CapacityBounded
PROPERTY ImplementsQueue
