SPECIFICATION Spec
CONSTANTS
    SlaveId = 1
    Addresses <- MCAddresses
    Ops <- AllOps
    Memories <- MCMemories
    FirstIds <- FewIds
    HeapBytes <- MCHeapBytes
    Stacks <- MCStacks
    BusyCodes <- MCBusyCodes
    LinkFaults <- MCLinkFaults
    MaxCalls = 3
INVARIANTS
    TypeOK
    ReadsMatch
    NoStrayWrite
    DeadCallsRaise
    MultipleWritesFail
CHECK_DEADLOCK FALSE
