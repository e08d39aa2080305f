SPECIFICATION Spec
CONSTANTS
    SlaveId = 1
    Addresses <- MCAddresses
    Ops <- SingleOps
    Memories <- MCMemories
    FirstIds <- FewIds
    HeapBytes <- MCHeapBytes
    Stacks <- MCStacks
    BusyCodes <- ServerBusy
    LinkFaults <- NoLinkFaults
    MaxCalls = 3
INVARIANT
    WritesLand
CHECK_DEADLOCK FALSE
