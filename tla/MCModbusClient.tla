--------------------------- MODULE MCModbusClient ---------------------------
(* The instances of ModbusClient that TLC checks: twelve addresses on both *)
(* sides of 256, amounts on both sides of one byte of bits, values that    *)
(* use either byte of a word, amounts on both sides of what the buffer of  *)
(* a reply has room for, arguments the calls reject, and calls before,     *)
(* after and between connections.                                          *)
EXTENDS ModbusClient

MCAddresses == 250..261

Pattern(a) == IF a % 3 = 0 \/ a % 7 = 1 THEN 1 ELSE 0
Flip(f) == [a \in DOMAIN f |-> 1 - f[a]]
Bits == [a \in MCAddresses |-> Pattern(a)]
Regs == [a \in MCAddresses |-> (a * 4099 + 17) % 65536]

MCMemories ==
    {[coils |-> Bits, bits |-> Flip(Bits), regs |-> Regs, inputs |-> Bits],
     [coils |-> Flip(Bits), bits |-> Bits, regs |-> Bits, inputs |-> Regs]}

Op(fn, address, values) ==
    [fn |-> fn, address |-> address, amount |-> Len(values), values |-> values]
ReadOp(fn, address, amount) ==
    [fn |-> fn, address |-> address, amount |-> amount, values |-> <<>>]

ReadOps ==
    {ReadOp(fn, address, amount) : fn \in Reads, address \in {250, 255, 300}, amount \in {1, 3, 7}}
    \cup {ReadOp(fn, 250, amount) : fn \in BitReads, amount \in {8, 9, 12, 2041}}
    \cup {ReadOp(fn, 250, amount) : fn \in Reads \ BitReads, amount \in {125, 126}}
    \cup {ReadOp(fn, 250, amount) : fn \in BitReads, amount \in {2008, 2009, 2040}}
    \cup {ReadOp("ReadRegs", 65536, 1), ReadOp("ReadInputRegs", 250, 65536)}

SingleOps ==
    {Op("WriteReg", address, <<v>>) : address \in {250, 256, 300}, v \in {0, 255, 65280, 65535}}
    \cup {Op("WriteCoil", address, <<v>>) : address \in {255, 256}, v \in {0, 65280}}

ManyRegs == {Op("WriteRegs", 254, <<1, 65535>>), Op("WriteRegs", 256, <<258>>)}
ManyCoils == {Op("WriteCoils", 254, <<1, 0, 1, 1>>), Op("WriteCoils", 250, <<1, 1, 0, 0, 1, 1, 1, 0, 1>>)}

AllOps == ReadOps \cup SingleOps \cup ManyRegs \cup ManyCoils

FewIds == {1, 65535}
Zeros == [k \in Past |-> 0]
Leavings == [k \in Past |-> (k * 37) % 256]
MCStacks == {Zeros, Leavings}
MCHeapBytes == {0, 205}
NoBusyCodes == {}
NoLinkFaults == {}
MCLinkFaults == {"fin", "rst"}
ServerBusy == {6}
MCBusyCodes == {6, 8}
==============================================================================
