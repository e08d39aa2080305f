----------------------------- MODULE ModbusClient -----------------------------
(***************************************************************************)
(* The public calls of class Modbus against a PLC, one after the other:    *)
(* ModbusConnect and ModbusClose, and for the others the check of the flag *)
(* and of the arguments, the request, the PLC's answer, and what the       *)
(* caller gets.  The connection may end at any moment; as long as it lasts *)
(* a reply arrives whole (PlcPoller has the other case).                   *)
(***************************************************************************)
EXTENDS ModbusFrames

CONSTANTS
    Ops,           \* the calls: fn, address, amount, values
    Memories,      \* what the PLC's tables hold at the start
    FirstIds,      \* values _msg_id has reached
    HeapBytes,     \* what fresh memory from new[] holds
    Stacks,        \* what may lie behind the buffer of a reply
    BusyCodes,     \* exception codes the PLC gives for reasons of its own
    LinkFaults,    \* how the network or the PLC ends a connection: "fin", "rst"
    MaxCalls       \* bound on the calls of one behaviour

(* What callers give: a call of the class, an address and an amount that   *)
(* are not negative, one word to be written by a single write, one value   *)
(* for each register or coil to be written by a multiple one.              *)
SingleArguments(o) ==
    /\ o.amount = 1 /\ o.address \in Nat
    /\ o.values[1] \in Nat /\ o.values[1] <= 65535

MultipleArguments(o) ==
    /\ o.amount \in Nat /\ o.address \in Nat
    /\ o.values \in Seq(Uint16) /\ Len(o.values) = o.amount

ReadArguments(o) == o.address \in Nat /\ o.amount \in Nat

Arguments ==
    \A o \in Ops :
        /\ o.fn \in DOMAIN Code
        /\ o.fn \in SingleWrites => SingleArguments(o)
        /\ o.fn \in MultipleWrites => MultipleArguments(o)
        /\ o.fn \in Reads => ReadArguments(o)

\* Tables of words, and of bits.
Memory ==
    {m \in [{"coils", "bits", "regs", "inputs"} -> [Addresses -> Uint16]] :
        \A a \in Addresses : m["coils"][a] \in 0..1 /\ m["bits"][a] \in 0..1}

ASSUME ClientAssumption ==
    Arguments /\ LinkFaults \subseteq {"fin", "rst"} /\ 0 \notin BusyCodes

ASSUME ContentsAssumption ==
    /\ Ops # {} /\ \A m \in Memories : m \in Memory
    /\ FirstIds \subseteq Nat /\ HeapBytes \subseteq Byte /\ BusyCodes \subseteq Byte
    /\ \A stack \in Stacks : stack \in [Past -> Byte]

VARIABLES
    connected,     \* _connected
    link,          \* what _socket stands for: "none" (-1), "up", "fin" (closed
                   \* by the PLC), "rst" (broken), "closed" (by ModbusClose)
    mem,           \* the PLC's tables
    msg_id,        \* _msg_id
    phase,         \* of the call: "idle", "sent", "answered", "returned"
    op,            \* the call
    request, reply,
    refused,       \* the exception code the PLC gave, 0 if none
    outcome,       \* "ok", "raised" or, before the request, "rejected"
    buffer,        \* the values a read has stored
    before,        \* the PLC's tables when the call was made
    calls

frames == <<request, reply, refused>>
connection == <<connected, link>>
vars == <<connection, mem, msg_id, phase, op, frames, outcome, buffer, before, calls>>

TypeOK ==
    /\ connected \in BOOLEAN /\ link \in {"none", "up", "fin", "rst", "closed"}
    /\ mem \in [{"coils", "bits", "regs", "inputs"} -> [Addresses -> Uint16]]
    /\ msg_id \in Nat
    /\ phase \in {"idle", "sent", "answered", "returned"}
    /\ op \in Ops
    /\ request \in Seq(Byte) /\ reply \in Seq(Byte)
    /\ refused \in Byte
    /\ outcome \in {"ok", "raised", "rejected"}
    /\ buffer \in Seq(Uint16)

Init ==
    /\ connected = FALSE /\ link = "none"
    /\ mem \in Memories /\ before = mem
    /\ msg_id \in FirstIds
    /\ phase = "idle" /\ op = CHOOSE o \in Ops : TRUE
    /\ request = <<>> /\ reply = <<>> /\ refused = 0
    /\ outcome = "ok" /\ buffer = <<>> /\ calls = 0

(* The first lines of every call.                                          *)
TooMuch(o) ==
    \/ o.address > 65535
    \/ o.amount > IF o.fn \in BitReads THEN 2040 ELSE 65535

AtRest == phase \in {"idle", "returned"}

Counted == calls < MaxCalls /\ calls' = calls + 1

(* ModbusConnect: Connect gives a socket or -1; either takes the place of  *)
(* the old one.  Where no socket was asked for (no host, no port, no       *)
(* socket library) nothing changes.  A failure does not lower the flag.    *)
ModbusConnect ==
    /\ AtRest /\ Counted
    /\ phase' = "idle"
    /\ \/ link' = "up" /\ connected' = TRUE
       \/ link' = "none" /\ UNCHANGED connected
       \/ UNCHANGED connection
    /\ UNCHANGED <<mem, msg_id, op, frames, outcome, buffer, before>>

(* ModbusClose: nor does this.                                             *)
ModbusClose ==
    /\ AtRest /\ Counted
    /\ phase' = "idle"
    /\ link' = "closed"
    /\ UNCHANGED <<connected, mem, msg_id, op, frames, outcome, buffer, before>>

(* A call that ends before anything is sent.                               *)
Refused(how) ==
    /\ phase' = "returned" /\ outcome' = how /\ request' = <<>>
    /\ UNCHANGED msg_id

(* A call up to ModbusSend, which counts the id after it is in the frame   *)
(* and whose result is not looked at.                                      *)
Call(o) ==
    /\ AtRest /\ Counted
    /\ op' = o /\ before' = mem
    /\ buffer' = <<>> /\ reply' = <<>> /\ refused' = 0
    /\ CASE ~connected -> Refused("raised")
         [] connected /\ TooMuch(o) -> Refused("rejected")
         [] OTHER ->
              /\ phase' = "sent" /\ outcome' = "ok"
              /\ \E heap \in HeapBytes : request' = Request(msg_id, o, heap)
              /\ msg_id' = msg_id + 1
    /\ UNCHANGED <<connection, mem>>

------------------------------------------------------------------------------
(* The PLC (outside the repository).                                       *)
Refuse(code) ==
    /\ reply' = Refusal(request, code) /\ refused' = code
    /\ UNCHANGED mem

Serve ==
    /\ phase = "sent" /\ link = "up"
    /\ phase' = "answered"
    /\ CASE ~WellFormed(request) -> Refuse(3)
         [] WellFormed(request) /\ ~(Span(request) \subseteq Addresses) -> Refuse(2)
         [] OTHER ->
              /\ reply' = IF Function(request) \in Reads
                            THEN Answer(request, ReadBody(request, mem))
                            ELSE Answer(request, SubSeq(request, 9, 12))
              /\ mem' = IF Function(request) \in Reads THEN mem
                        ELSE [mem EXCEPT ![Table(Function(request))] =
                                [a \in Addresses |-> IF a \in Span(request)
                                    THEN Written(request, a) ELSE @[a]]]
              /\ UNCHANGED refused
    /\ UNCHANGED <<connection, msg_id, op, request, outcome, buffer, before, calls>>

Busy ==
    /\ phase = "sent" /\ link = "up"
    /\ phase' = "answered"
    /\ \E code \in BusyCodes : Refuse(code)
    /\ UNCHANGED <<connection, msg_id, op, request, outcome, buffer, before, calls>>

(* The connection ends, between calls or in one, before or after the PLC   *)
(* has done what it was asked.                                             *)
LinkEnds ==
    /\ link = "up"
    /\ link' \in LinkFaults
    /\ phase' = IF phase = "returned" THEN "idle" ELSE phase
    /\ UNCHANGED <<connected, mem, msg_id, op, frames, outcome, buffer, before, calls>>

------------------------------------------------------------------------------
(* The function code whose error is looked for: ModbusWriteRegister gives  *)
(* the one of WRITE_COIL.                                                  *)
Expected(fn) == IF fn = "WriteReg" THEN Code["WriteCoil"] ELSE Code[fn]

(* Variant of Return: the result of recv() is not looked at.               *)
ReturnUnchecked ==
    /\ phase = "answered" \/ (phase = "sent" /\ link # "up")
    /\ phase' = "returned"
    /\ outcome' = IF ErrorIn(reply, Expected(op.fn)) THEN "raised" ELSE "ok"
    /\ \E stack \in Stacks :
          buffer' = IF op.fn \notin Reads \/ outcome' = "raised" THEN <<>>
                    ELSE IF op.fn \in BitReads THEN BitsIn(reply, stack, op.amount)
                    ELSE RegistersIn(reply, stack, op.amount)
    /\ UNCHANGED <<connection, mem, msg_id, op, frames, before, calls>>

(* The call from ModbusReceive on: recv() waits for the reply; it gives -1 *)
(* on a socket that is broken, closed or none, and 0 bytes once a PLC that *)
(* closed has nothing more to say.  Of the largest amounts, values are     *)
(* taken from behind the buffer; a read of the stack so far off that it    *)
(* ends the process is left out.                                           *)
Return ==
    /\ phase = "answered" \/ (phase = "sent" /\ link # "up")
    /\ phase' = "returned"
    /\ outcome' = IF link \in {"none", "rst", "closed"} \/ ErrorIn(reply, Expected(op.fn))
                  THEN "raised" ELSE "ok"
    /\ \E stack \in Stacks :
          buffer' = IF op.fn \notin Reads \/ outcome' = "raised" THEN <<>>
                    ELSE IF op.fn \in BitReads THEN BitsIn(reply, stack, op.amount)
                    ELSE RegistersIn(reply, stack, op.amount)
    /\ UNCHANGED <<connection, mem, msg_id, op, frames, before, calls>>

Next ==
    \/ ModbusConnect \/ ModbusClose
    \/ \E o \in Ops : Call(o)
    \/ Serve \/ Busy \/ LinkEnds
    \/ Return

Spec == Init /\ [][Next]_vars

------------------------------------------------------------------------------
InMemory(o) == o.address..(o.address + o.amount - 1) \subseteq Addresses

(* What the caller wrote, at each address it wrote to.                     *)
Intended ==
    LET written == [a \in Addresses |->
                      IF a \in op.address..(op.address + op.amount - 1)
                        THEN op.values[a - op.address + 1]
                        ELSE before[Table(op.fn)][a]]
    IN  [before EXCEPT ![Table(op.fn)] =
            IF op.fn = "WriteCoil" THEN [a \in Addresses |-> IF a = op.address THEN op.values[1] \div 65280 ELSE @[a]]
            ELSE written]

(* Whatever bytes addresses, amounts and values are split into, a read     *)
(* that returns has stored what the PLC's table held, in order.  There are *)
(* two ways to take something else for an answer: a refusal with a code    *)
(* that has no exception class, and the end of a connection the PLC has    *)
(* closed.  Both give zeros, as many as there is room for in the buffer of *)
(* a reply; past 125 registers or 2008 bits, which the calls accept, what  *)
(* lies behind the buffer is given.  A read the PLC cannot serve never     *)
(* returns a value of its tables.                                          *)
NoAnswer == refused \notin KnownErrors \cup {0} \/ (reply = <<>> /\ link = "fin")
Room(fn) == IF fn \in BitReads THEN 8 * (BufferSize - 9) ELSE (BufferSize - 9) \div 2
ReadsMatch ==
    phase = "returned" /\ outcome = "ok" /\ op.fn \in Reads =>
        IF refused # 0 \/ reply = <<>>
          THEN /\ NoAnswer /\ Len(buffer) = op.amount
               /\ \A k \in 1..op.amount : k <= Room(op.fn) => buffer[k] = 0
          ELSE InMemory(op) /\ buffer = Slice(before[Table(op.fn)], op.address, op.amount)

(* No call but a write to the table it names changes the PLC, and one that *)
(* raises or is rejected changes nothing, unless the connection broke      *)
(* after the PLC had written: then the caller of a write cannot know.      *)
NoStrayWrite ==
    phase = "returned" =>
        \/ mem = before
        \/ /\ op.fn \notin Reads /\ mem = Intended
           /\ outcome = "ok" \/ (outcome = "raised" /\ link = "rst")

(* _connected says that a connection was made once, no more: it survives   *)
(* ModbusClose, a broken connection and a failed ModbusConnect.  No call   *)
(* returns a result without a connection for all that: what the flag does  *)
(* not say, the -1 of recv() does.  Before the first connection nothing is *)
(* sent.                                                                   *)
DeadCallsRaise ==
    phase = "returned" /\ link \notin {"up", "fin"} =>
        /\ outcome # "ok" /\ buffer = <<>>
        /\ request # <<>> => connected

(* Writes of several registers or several coils never reach the tables of  *)
(* a PLC that checks lengths: byte 5 of the request is too small, by two   *)
(* or by one, and the coils' quantity is twice its high byte.  The caller  *)
(* is told by an exception, unless the PLC's code has no class or the PLC  *)
(* has closed the connection.                                              *)
MultipleWritesFail ==
    phase = "returned" /\ op.fn \in MultipleWrites =>
        mem = before /\ (outcome = "ok" => NoAnswer)

(* What modbus.cpp:399-404 and 440-446 and 485-490 document for writes,    *)
(* `Value to Write': a write that returns has left its values in the PLC.  *)
WritesLand ==
    phase = "returned" /\ outcome = "ok" /\ op.fn \notin Reads => mem = Intended

(* The same comments, from the other side: a write that is sent, that the  *)
(* PLC could serve and was not too busy for does not raise while the       *)
(* connection lasts.                                                       *)
WritesSucceed ==
    phase = "returned" /\ link = "up" /\ request # <<>> /\ op.fn \notin Reads
    /\ InMemory(op) /\ refused \notin BusyCodes
        => outcome = "ok"
==============================================================================
