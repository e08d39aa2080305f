----------------------------- MODULE ModbusFrames -----------------------------
(***************************************************************************)
(* The bytes of Modbus/TCP as modbus.cpp builds and reads them, and a PLC  *)
(* that goes by the protocol (outside the repository: the code shows what  *)
(* it expects of it).  A frame is a sequence of bytes, so byte k of the    *)
(* code is element k + 1 here.                                             *)
(***************************************************************************)
EXTENDS Integers, Sequences

Byte == {n \in Nat : n < 256}       \* uint8_t
Uint16 == {n \in Nat : n < 65536}   \* uint16_t

CONSTANTS
    SlaveId,       \* _slaveid
    Addresses      \* the addresses the PLC has, in each of its tables

ASSUME FramesAssumption == SlaveId \in Byte /\ Addresses \subseteq Uint16

Code == [ReadCoils |-> 1, ReadInputBits |-> 2, ReadRegs |-> 3, ReadInputRegs |-> 4,
         WriteCoil |-> 5, WriteReg |-> 6, WriteCoils |-> 15, WriteRegs |-> 16]

Reads == {"ReadCoils", "ReadInputBits", "ReadRegs", "ReadInputRegs"}
BitReads == {"ReadCoils", "ReadInputBits"}
SingleWrites == {"WriteCoil", "WriteReg"}
MultipleWrites == {"WriteCoils", "WriteRegs"}

(* Variant: the high byte is not cut to eight bits.                        *)
WordUncut(x) == <<x \div 256, x % 256>>

Word(x) == <<(x \div 256) % 256, x % 256>>
Words(values) == [b \in 1..(2 * Len(values)) |-> Word(values[(b + 1) \div 2])[2 - (b % 2)]]

\* A byte of its eight bits (or of what is added to it in their places).
Octet(f) ==
    f[0] + 2 * f[1] + 4 * f[2] + 8 * f[3] + 16 * f[4] + 32 * f[5] + 64 * f[6] + 128 * f[7]

\* Bits packed eight to a byte, the first one lowest.
PackBits(bits) ==
    [b \in 1..((Len(bits) + 7) \div 8) |->
        Octet([j \in 0..7 |-> LET k == 8 * (b - 1) + j + 1
                              IN  IF k <= Len(bits) THEN bits[k] ELSE 0])]

------------------------------------------------------------------------------
(* Requests.  `length' is byte 5, which counts the bytes after it.         *)
BuildRequest(id, length, func, address) ==
    Word(id) \o <<0, 0, 0, length % 256, SlaveId, func>> \o Word(address)

ReadRequest(id, op) ==
    BuildRequest(id, 6, Code[op.fn], op.address) \o Word(op.amount)

(* Variant: value before address.                                          *)
WriteOneRequestSwapped(id, op) ==
    BuildRequest(id, 6, Code[op.fn], op.values[1]) \o Word(op.address)

WriteOneRequest(id, op) ==
    BuildRequest(id, 6, Code[op.fn], op.address) \o Word(op.values[1])

(* Variant: byte 5 counts every byte after it.                             *)
WriteRegsRequestCounted(id, op) ==
    BuildRequest(id, 7 + 2 * op.amount, Code[op.fn], op.address)
        \o Word(op.amount) \o <<(2 * op.amount) % 256>> \o Words(op.values)

WriteRegsRequest(id, op) ==
    BuildRequest(id, 5 + 2 * op.amount, Code[op.fn], op.address)
        \o Word(op.amount) \o <<(2 * op.amount) % 256>> \o Words(op.values)

\* (amount - 1) / 8 in C
LastByte(amount) == IF amount = 0 THEN 0 ELSE (amount - 1) \div 8

(* The data bytes are added to bits into memory fresh from new[], and only *)
(* the first four values are copied: `heap' is what all the indeterminate  *)
(* bytes and words hold.  Value i goes to byte (i - 1) / 8, 0 for i = 0,   *)
(* shifted by i % 8.                                                       *)
CoilBytes(op, heap) ==
    LET temp(i) == IF i < 4 THEN op.values[i + 1] ELSE heap
        Given(i) == IF i < op.amount THEN temp(i) ELSE 0
        Added(b) == [j \in 0..7 |-> IF j > 0 THEN Given(8 * (b - 1) + j)
                                    ELSE Given(8 * b) + (IF b = 1 THEN Given(0) ELSE 0)]
    IN  [b \in 1..(LastByte(op.amount) + 1) |-> (heap + Octet(Added(b))) % 256]

WriteCoilsRequest(id, op, heap) ==
    BuildRequest(id, 7 + LastByte(op.amount), Code[op.fn], op.address)
        \o <<(op.amount \div 256) % 256, (op.amount \div 256) % 256>>
        \o <<((op.amount + 7) \div 8) % 256>> \o CoilBytes(op, heap)

Request(id, op, heap) ==
    CASE op.fn \in Reads -> ReadRequest(id, op)
      [] op.fn \in SingleWrites -> WriteOneRequest(id, op)
      [] op.fn = "WriteRegs" -> WriteRegsRequest(id, op)
      [] op.fn = "WriteCoils" -> WriteCoilsRequest(id, op, heap)

------------------------------------------------------------------------------
(* Replies: the buffer they are received in started zeroed, and is shorter *)
(* than the largest amounts need.  What lies behind it on the stack is     *)
(* whatever was left there: `stack'.  A reply is never longer than it.     *)
BufferSize == 260   \* MAX_MSG_LENGTH
Furthest == 8 + 2 * 65535   \* the last byte of 65535 registers
Past == BufferSize..Furthest

ByteAt(reply, k) == IF k < Len(reply) THEN reply[k + 1] ELSE 0

ByteRead(reply, stack, k) == IF k < BufferSize THEN ByteAt(reply, k) ELSE stack[k]

(* ModbusErrorHandle: the codes that have an exception class.              *)
KnownErrors == {1, 2, 3, 4, 5, 6, 10, 11}

ErrorIn(reply, func) ==
    ByteAt(reply, 7) = func + 128 /\ ByteAt(reply, 8) \in KnownErrors

RegistersIn(reply, stack, amount) ==
    [k \in 1..amount |->
        256 * ByteRead(reply, stack, 7 + 2 * k) + ByteRead(reply, stack, 8 + 2 * k)]

(* Variant: the highest bit of a byte first.                               *)
BitsInReversed(reply, stack, amount) ==
    [k \in 1..amount |->
        (ByteRead(reply, stack, 9 + ((k - 1) \div 8)) \div 2 ^ (7 - ((k - 1) % 8))) % 2]

BitsIn(reply, stack, amount) ==
    [k \in 1..amount |->
        (ByteRead(reply, stack, 9 + ((k - 1) \div 8)) \div 2 ^ ((k - 1) % 8)) % 2]

------------------------------------------------------------------------------
(* The PLC.  Its memory has the four tables of the protocol.               *)
Table(fn) ==
    CASE fn \in {"ReadCoils", "WriteCoil", "WriteCoils"} -> "coils"
      [] fn = "ReadInputBits" -> "bits"
      [] fn \in {"ReadRegs", "WriteReg", "WriteRegs"} -> "regs"
      [] fn = "ReadInputRegs" -> "inputs"

Function(req) == CHOOSE fn \in DOMAIN Code : Code[fn] = req[8]
AddressOf(req) == 256 * req[9] + req[10]
Operand(req) == 256 * req[11] + req[12]
Quantity(req) == IF Function(req) \in SingleWrites THEN 1 ELSE Operand(req)
Span(req) == AddressOf(req)..(AddressOf(req) + Quantity(req) - 1)

(* A request whose length, quantity and byte count fit together.  A reply  *)
(* has room for 125 registers or 2000 bits.                                *)
WellFormed(req) ==
    /\ Len(req) = 6 + 256 * req[5] + req[6]
    /\ Quantity(req) >= 1
    /\ Function(req) \in Reads =>
          Quantity(req) <= IF Function(req) \in BitReads THEN 2000 ELSE 125
    /\ Function(req) = "WriteCoil" => Operand(req) \in {0, 65280}
    /\ Function(req) \in MultipleWrites =>
          /\ Len(req) = 13 + req[13]
          /\ req[13] = IF Function(req) = "WriteRegs" THEN 2 * Quantity(req)
                       ELSE (Quantity(req) + 7) \div 8

Answer(req, body) ==
    SubSeq(req, 1, 4) \o Word(Len(body) + 2) \o SubSeq(req, 7, 8) \o body

Refusal(req, code) ==
    SubSeq(req, 1, 4) \o Word(3) \o <<req[7], req[8] + 128, code>>

\* What a table holds from an address on.
Slice(table, address, amount) == [k \in 1..amount |-> table[address + k - 1]]

ReadBody(req, mem) ==
    LET values == Slice(mem[Table(Function(req))], AddressOf(req), Quantity(req))
        data == IF Function(req) \in BitReads THEN PackBits(values) ELSE Words(values)
    IN  <<Len(data)>> \o data

(* What a request writes at an address of its span.                        *)
Written(req, a) ==
    LET k == a - AddressOf(req)
    IN  CASE Function(req) = "WriteCoil" -> Operand(req) \div 65280
          [] Function(req) = "WriteReg" -> Operand(req)
          [] Function(req) = "WriteRegs" -> 256 * req[14 + 2 * k] + req[15 + 2 * k]
          [] Function(req) = "WriteCoils" -> (req[14 + (k \div 8)] \div 2 ^ (k % 8)) % 2
==============================================================================
