SPECIFICATION Spec
CONSTANTS
    Threads = {t, u}
    MaxSlot = 3
    SeqMax = 2
    TCache = 2
    ChunkSize = 2
    MaxPins = 1
INVARIANTS TypeOK Exclusive NoSlotForgotten CacheFits
PROPERTIES PinHonoured NeverRevived
CHECK_DEADLOCK FALSE
