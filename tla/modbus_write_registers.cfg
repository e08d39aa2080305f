SPECIFICATION Spec
CONSTANTS
    SlaveId = 1
    Addresses <- MCAddresses
    Ops <- ManyRegs
    Memories <- MCMemories
    FirstIds <- FewIds
    HeapBytes <- MCHeapBytes
    Stacks <- MCStacks
    BusyCodes <- NoBusyCodes
    LinkFaults <- NoLinkFaults
    MaxCalls = 3
INVARIANT
    WritesSucceed
CHECK_DEADLOCK FALSE
