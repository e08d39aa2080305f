------------------------------ MODULE ModbusTcp ------------------------------
(***************************************************************************)
(* What one ModbusReadHoldingRegisters(address, 1, &value) makes of the    *)
(* bytes its single recv() returned (modbus.cpp).                          *)
(*                                                                         *)
(* A reply to a one-register read is 11 bytes; they are kept as two units: *)
(* the nine bytes before the value (transaction id, protocol, length,      *)
(* unit, function 0x03, byte count) and the two bytes of the value.  An    *)
(* exception reply is nine bytes, one unit.  TCP may cut the stream        *)
(* between any two bytes; the model cuts it between units only.            *)
(***************************************************************************)
EXTENDS Integers, Sequences

CONSTANTS
    Vals,      \* the values a holding register takes; 0 is one of them
    Junk       \* what bytes 9 and 10 hold when the reply is misframed

ASSUME ValsAssumption == 0 \in Vals /\ Junk \notin Vals

Header == [kind |-> "head"]
DataUnit(v) == [kind |-> "data", val |-> v]
ExcUnit(known) == [kind |-> "exc", known |-> known]

Unit == {Header} \cup {DataUnit(v) : v \in Vals} \cup {ExcUnit(k) : k \in BOOLEAN}

\* What a read can leave in `*buffer'.
Reading == Vals \cup {Junk}

(* The device's answers to "read one holding register".                    *)
ValueReply(v) == <<Header, DataUnit(v)>>
ExcReply(known) == <<ExcUnit(known)>>

(* ModbusErrorHandle: byte 7 is the function code with the high bit set,   *)
(* and byte 8 is one of the codes with an exception class; any other code  *)
(* leaves the switch through `default' as if the reply were good.          *)
Raises(bytes) ==
    /\ bytes # <<>>
    /\ bytes[1].kind = "exc"
    /\ bytes[1].known

(* The value computed from bytes 9 and 10 of a buffer that started zeroed: *)
(*  - the whole reply: the register's value;                               *)
(*  - nine bytes or fewer (nothing because the peer closed, a reply cut    *)
(*    before the value, the two value bytes alone, an exception with an    *)
(*    unknown code): 0;                                                    *)
(*  - left-over bytes with the next reply behind them: other bytes.        *)
ValueOf(bytes) ==
    CASE Len(bytes) <= 1 -> 0
      [] Len(bytes) > 1 /\ bytes[1] = Header /\ bytes[2].kind = "data" -> bytes[2].val
      [] OTHER -> Junk
==============================================================================
