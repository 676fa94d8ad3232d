SPECIFICATION Spec
CONSTANTS
    Room <- SmallRoom
    Literals <- OneLiteral
    Raw = Raw
    SwitchToOwners = FALSE
INVARIANTS
    MemorySafe
    EverySlotConstructed
    OwnedOnce
PROPERTIES
    ImplementsValues
VIEW UpToBlocks
