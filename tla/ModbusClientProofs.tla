-------------------------- MODULE ModbusClientProofs --------------------------
(* For any calls, addresses and contents of the PLC's tables: no call returns  *)
(* a result without a connection, whatever _connected says; no write of        *)
(* several registers or coils reaches the PLC's tables; and a single write     *)
(* changes what it names, to what it gives, and nothing else.                  *)
EXTENDS ModbusClient, SequenceTheorems, TLAPS

Typed ==
    /\ connected \in BOOLEAN /\ link \in {"none", "up", "fin", "rst", "closed"}
    /\ phase \in {"idle", "sent", "answered", "returned"}

\* _connected is never lowered, so what was once sent was sent with it raised.
SentConnected == request # <<>> => connected

CallInv == Typed /\ SentConnected /\ DeadCallsRaise

LEMMA InitHolds == Init => CallInv
BY DEF Init, CallInv, Typed, SentConnected, DeadCallsRaise

LEMMA CallKeeps ==
    ASSUME CallInv, NEW o \in Ops, Call(o)
    PROVE  CallInv'
<1> USE DEF CallInv
<1>1. UNCHANGED connection /\ buffer' = <<>>
  BY DEF Call
<1>2. CASE \E how \in {"raised", "rejected"} : Refused(how)
  <2>1. phase' = "returned" /\ outcome' # "ok" /\ request' = <<>>
    BY <1>2 DEF Refused
  <2> QED
    BY <1>1, <2>1 DEF Typed, SentConnected, DeadCallsRaise, connection
<1>3. CASE connected /\ phase' = "sent"
  BY <1>1, <1>3 DEF Typed, SentConnected, DeadCallsRaise, connection
<1>4. connected \in BOOLEAN
  BY DEF Typed
<1>5. \/ \E how \in {"raised", "rejected"} : Refused(how)
      \/ connected /\ phase' = "sent"
  <2>1. CASE ~connected
    BY <2>1 DEF Call
  <2>2. CASE connected /\ TooMuch(o)
    BY <2>2 DEF Call
  <2>3. CASE connected /\ ~TooMuch(o)
    BY <2>3 DEF Call
  <2> QED
    BY <1>4, <2>1, <2>2, <2>3
<1> QED
  BY <1>2, <1>3, <1>5

LEMMA ReturnKeeps ==
    ASSUME CallInv, Return
    PROVE  CallInv'
<1> USE DEF CallInv
<1>1. phase' = "returned" /\ UNCHANGED <<connected, link, request>>
  BY DEF Return, connection, frames
<1>2. ASSUME link \notin {"up", "fin"} PROVE outcome' = "raised" /\ buffer' = <<>>
  <2>1. link \in {"none", "rst", "closed"}
    BY <1>2 DEF Typed
  <2>2. outcome' = "raised"
    BY <2>1 DEF Return
  <2> QED
    BY <2>2 DEF Return
<1> QED
  BY <1>1, <1>2 DEF Typed, SentConnected, DeadCallsRaise

LEMMA OthersKeep ==
    ASSUME LinkFaults \subseteq {"fin", "rst"}, CallInv,
           \/ ModbusConnect \/ ModbusClose \/ Serve \/ Busy \/ LinkEnds \/ UNCHANGED vars
    PROVE  CallInv'
<1> USE DEF CallInv
<1>1. CASE ModbusConnect \/ ModbusClose
  BY <1>1 DEF ModbusConnect, ModbusClose, Typed, SentConnected, DeadCallsRaise, connection, frames
<1>2. CASE Serve \/ Busy
  BY <1>2 DEF Serve, Busy, Typed, SentConnected, DeadCallsRaise, connection
<1>3. CASE LinkEnds
  BY <1>3 DEF LinkEnds, Typed, SentConnected, DeadCallsRaise, frames
<1>4. CASE UNCHANGED vars
  BY <1>4 DEF vars, Typed, SentConnected, DeadCallsRaise, connection, frames
<1> QED
  BY <1>1, <1>2, <1>3, <1>4

\* Before the first connection, after ModbusClose, after the connection broke and
\* after a ModbusConnect that failed, no call returns a result, although
\* _connected stays true for ever: the -1 of recv() raises the exception.
THEOREM DeadCallsRaiseHolds == Spec => []DeadCallsRaise
<1>1. CallInv /\ [Next]_vars => CallInv'
  BY ClientAssumption, CallKeeps, ReturnKeeps, OthersKeep DEF Next
<1>2. CallInv => DeadCallsRaise
  BY DEF CallInv
<1> QED
  BY InitHolds, <1>1, <1>2, PTL DEF Spec

------------------------------------------------------------------------------
(* Multiple writes.                                                           *)

\* Sequences of a given length.
OfLength(S, n) == {w \in Seq(S) : Len(w) = n}

\* Where the bytes that matter are in a request put together of its parts.
InPlace(req, S, w2, data) ==
    /\ req \in Seq(S) /\ Len(req) = 13 + Len(data)
    /\ req[5] = w2[3] /\ req[6] = w2[4] /\ req[8] = w2[6]

LEMMA Assembled ==
    ASSUME NEW S, NEW w1 \in OfLength(S, 2), NEW w2 \in OfLength(S, 6), NEW w3 \in OfLength(S, 2),
           NEW w4 \in OfLength(S, 2), NEW w5 \in OfLength(S, 1), NEW data \in Seq(S)
    PROVE  InPlace(w1 \o w2 \o w3 \o w4 \o w5 \o data, S, w2, data)
<1>1. /\ w1 \in Seq(S) /\ w2 \in Seq(S) /\ w3 \in Seq(S) /\ w4 \in Seq(S) /\ w5 \in Seq(S)
      /\ Len(w1) = 2 /\ Len(w2) = 6 /\ Len(w3) = 2 /\ Len(w4) = 2 /\ Len(w5) = 1
  BY DEF OfLength
<1>2. PICK r2 \in Seq(S) :
        /\ r2 = w1 \o w2 /\ Len(r2) = 8
        /\ r2[5] = w2[3] /\ r2[6] = w2[4] /\ r2[8] = w2[6]
  <2> DEFINE r2 == w1 \o w2
  <2>1. /\ r2 \in Seq(S) /\ Len(r2) = Len(w1) + Len(w2)
        /\ \A i \in 1..Len(w1) + Len(w2) :
              r2[i] = IF i <= Len(w1) THEN w1[i] ELSE w2[i - Len(w1)]
    BY <1>1, ConcatProperties
  <2> HIDE DEF r2
  <2>2. r2 \in Seq(S) /\ Len(r2) = 8 /\ r2[5] = w2[3] /\ r2[6] = w2[4] /\ r2[8] = w2[6]
    BY <1>1, <2>1
  <2> QED
    BY <2>2 DEF r2
<1>3. PICK r3 \in Seq(S) :
        /\ r3 = r2 \o w3 /\ Len(r3) = 10
        /\ r3[5] = r2[5] /\ r3[6] = r2[6] /\ r3[8] = r2[8]
  <2> DEFINE q == r2 \o w3
  <2>1. /\ q \in Seq(S) /\ Len(q) = Len(r2) + Len(w3)
        /\ \A i \in 1..Len(r2) + Len(w3) :
              q[i] = IF i <= Len(r2) THEN r2[i] ELSE w3[i - Len(r2)]
    BY <1>1, ConcatProperties
  <2>2. Len(r2) = 8
    BY <1>2
  <2> HIDE DEF q
  <2>3. q \in Seq(S) /\ Len(q) = 10 /\ q[5] = r2[5] /\ q[6] = r2[6] /\ q[8] = r2[8]
    BY <1>1, <2>1, <2>2
  <2> QED
    BY <2>3 DEF q
<1>4. PICK r4 \in Seq(S) :
        /\ r4 = r3 \o w4 /\ Len(r4) = 12
        /\ r4[5] = r3[5] /\ r4[6] = r3[6] /\ r4[8] = r3[8]
  <2> DEFINE q == r3 \o w4
  <2>1. /\ q \in Seq(S) /\ Len(q) = Len(r3) + Len(w4)
        /\ \A i \in 1..Len(r3) + Len(w4) :
              q[i] = IF i <= Len(r3) THEN r3[i] ELSE w4[i - Len(r3)]
    BY <1>1, ConcatProperties
  <2>2. Len(r3) = 10
    BY <1>3
  <2> HIDE DEF q
  <2>3. q \in Seq(S) /\ Len(q) = 12 /\ q[5] = r3[5] /\ q[6] = r3[6] /\ q[8] = r3[8]
    BY <1>1, <2>1, <2>2
  <2> QED
    BY <2>3 DEF q
<1>5. PICK r5 \in Seq(S) :
        /\ r5 = r4 \o w5 /\ Len(r5) = 13
        /\ r5[5] = r4[5] /\ r5[6] = r4[6] /\ r5[8] = r4[8]
  <2> DEFINE q == r4 \o w5
  <2>1. /\ q \in Seq(S) /\ Len(q) = Len(r4) + Len(w5)
        /\ \A i \in 1..Len(r4) + Len(w5) :
              q[i] = IF i <= Len(r4) THEN r4[i] ELSE w5[i - Len(r4)]
    BY <1>1, ConcatProperties
  <2>2. Len(r4) = 12
    BY <1>4
  <2> HIDE DEF q
  <2>3. q \in Seq(S) /\ Len(q) = 13 /\ q[5] = r4[5] /\ q[6] = r4[6] /\ q[8] = r4[8]
    BY <1>1, <2>1, <2>2
  <2> QED
    BY <2>3 DEF q
<1>6. PICK req \in Seq(S) :
        /\ req = r5 \o data /\ Len(req) = 13 + Len(data)
        /\ req[5] = r5[5] /\ req[6] = r5[6] /\ req[8] = r5[8]
  <2> DEFINE q == r5 \o data
  <2>1. /\ q \in Seq(S) /\ Len(q) = Len(r5) + Len(data)
        /\ \A i \in 1..Len(r5) + Len(data) :
              q[i] = IF i <= Len(r5) THEN r5[i] ELSE data[i - Len(r5)]
    BY <1>1, ConcatProperties
  <2>2. Len(r5) = 13 /\ Len(data) \in Nat
    BY <1>5, LenProperties
  <2> HIDE DEF q
  <2>3. q \in Seq(S) /\ Len(q) = 13 + Len(data) /\ q[5] = r5[5] /\ q[6] = r5[6] /\ q[8] = r5[8]
    BY <1>1, <2>1, <2>2
  <2> QED
    BY <2>3 DEF q
<1>7. req = w1 \o w2 \o w3 \o w4 \o w5 \o data
  BY <1>2, <1>3, <1>4, <1>5, <1>6
<1>8. req[5] = w2[3] /\ req[6] = w2[4] /\ req[8] = w2[6]
  BY <1>2, <1>3, <1>4, <1>5, <1>6
<1> QED
  BY <1>6, <1>7, <1>8 DEF InPlace

\* A request that carries data: thirteen bytes and the data.
Indexed(data, n) == data = [b \in 1..n |-> data[b]]

Framed(req, length, func, n) ==
    /\ \E S : req \in Seq(S)
    /\ Len(req) = 13 + n
    /\ req[5] = 0 /\ req[6] = length % 256 /\ req[8] = func

LEMMA MultipleRequest ==
    ASSUME NEW id, NEW length, NEW func, NEW address, NEW q1, NEW q2, NEW count,
           NEW n \in Nat, NEW data, Indexed(data, n)
    PROVE  Framed(BuildRequest(id, length, func, address) \o <<q1, q2>> \o <<count>> \o data,
                  length, func, n)
<1> DEFINE w1 == Word(id)
           w2 == <<0, 0, 0, length % 256, SlaveId, func>>
           w3 == Word(address)
           w4 == <<q1, q2>>
           w5 == <<count>>
           S == {w1[1], w1[2], w3[1], w3[2], q1, q2, count, 0, length % 256, SlaveId, func}
                    \cup {data[b] : b \in 1..n}
<1>1. w1 \in OfLength(S, 2)
  BY DEF Word, OfLength
<1>2. /\ w2 \in OfLength(S, 6)
      /\ w2[3] = 0 /\ w2[4] = length % 256 /\ w2[6] = func
  BY DEF OfLength
<1>3. w3 \in OfLength(S, 2)
  BY DEF Word, OfLength
<1>4. w4 \in OfLength(S, 2) /\ w5 \in OfLength(S, 1)
  BY DEF OfLength
<1>5. data \in Seq(S) /\ Len(data) = n
  <2>1. data \in [1..n -> S]
    BY DEF Indexed
  <2> HIDE DEF S
  <2> QED
    BY <2>1, IsASeq
<1> DEFINE req == BuildRequest(id, length, func, address) \o <<q1, q2>> \o <<count>> \o data
<1>6. req = w1 \o w2 \o w3 \o w4 \o w5 \o data
  BY DEF BuildRequest
<1> HIDE DEF w1, w2, w3, w4, w5, S, req
<1>7. InPlace(req, S, w2, data)
  <2>1. InPlace(w1 \o w2 \o w3 \o w4 \o w5 \o data, S, w2, data)
    BY <1>1, <1>2, <1>3, <1>4, <1>5, Assembled, Zenon
  <2> QED
    BY <1>6, <2>1, Zenon
<1>8. Framed(req, length, func, n)
  BY <1>2, <1>5, <1>7 DEF InPlace, Framed
<1> QED
  BY <1>8 DEF req

\* Byte 5 of a multiple write never agrees with the bytes after it, whatever the
\* amount: it starts too small and can only lose more by being cut to a byte.
LEMMA NeverWellFormed ==
    ASSUME Arguments, NEW o \in Ops, o.fn \in MultipleWrites, NEW id, NEW heap,
           NEW req, req = Request(id, o, heap)
    PROVE  /\ ~WellFormed(req)
           /\ Len(req) >= 13 /\ req[8] = Code[o.fn] /\ \E S : req \in Seq(S)
<1> DEFINE a == o.amount
<1>0. MultipleArguments(o)
  BY Zenon DEF Arguments
<1>1. a \in Nat
  BY <1>0 DEF MultipleArguments
<1>2. CASE o.fn = "WriteRegs"
  <2> DEFINE data == Words(o.values)
  <2>1. req = BuildRequest(id, 5 + 2 * a, Code[o.fn], o.address)
                \o <<(a \div 256) % 256, a % 256>> \o <<(2 * a) % 256>> \o data
    BY <1>2 DEF Request, Reads, SingleWrites, WriteRegsRequest, Word
  <2>2. data = [b \in 1..(2 * a) |-> data[b]]
    <3>1. Len(o.values) = a
      BY <1>0, <1>2 DEF MultipleArguments
    <3> QED
      BY <3>1 DEF Words
  <2>3. 2 * a \in Nat
    BY <1>1
  <2>4. /\ \E S : req \in Seq(S)
        /\ Len(req) = 13 + 2 * a
        /\ req[5] = 0 /\ req[6] = (5 + 2 * a) % 256 /\ req[8] = Code[o.fn]
    <3>1. Indexed(data, 2 * a)
      BY <2>2 DEF Indexed
    <3> DEFINE length == 5 + 2 * a
               func == Code[o.fn]
               address == o.address
               q1 == (a \div 256) % 256
               q2 == a % 256
               count == (2 * a) % 256
               n == 2 * a
    <3> HIDE DEF data, length, func, address, q1, q2, count, n
    <3>2. Framed(BuildRequest(id, length, func, address)
                   \o <<q1, q2>> \o <<count>> \o data, length, func, n)
      <4>1. n \in Nat /\ Indexed(data, n)
        BY <2>3, <3>1 DEF n
      <4> QED
        BY <4>1, MultipleRequest, Zenon
    <3>3. Framed(req, 5 + 2 * a, Code[o.fn], 2 * a)
      BY <2>1, <3>2 DEF length, func, address, q1, q2, count, n
    <3> HIDE DEF a
    <3> QED
      BY <3>3 DEF Framed
  <2>5. (5 + 2 * a) % 256 <= 5 + 2 * a /\ (5 + 2 * a) % 256 \in Int
    BY <1>1
  <2>6. ~WellFormed(req)
    <3>1. Len(req) # 6 + 256 * req[5] + req[6]
      <4> HIDE DEF a
      <4> QED
        BY <1>1, <2>4, <2>5
    <3> QED
      BY <3>1 DEF WellFormed
  <2>7. Len(req) >= 13
    <3> HIDE DEF a
    <3> QED
      BY <1>1, <2>4
  <2> QED
    BY <2>4, <2>6, <2>7
<1>3. CASE o.fn = "WriteCoils"
  <2> DEFINE q == LastByte(a)
             data == CoilBytes(o, heap)
             p == (a \div 256) % 256
  <2>1. req = BuildRequest(id, 7 + q, Code[o.fn], o.address)
                \o <<p, p>> \o <<((a + 7) \div 8) % 256>> \o data
    BY <1>3 DEF Request, Reads, SingleWrites, WriteCoilsRequest
  <2>2. data = [b \in 1..(q + 1) |-> data[b]]
    BY DEF CoilBytes
  <2>3. q \in Nat
    BY <1>1 DEF LastByte
  <2>4. /\ \E S : req \in Seq(S)
        /\ Len(req) = 13 + (q + 1)
        /\ req[5] = 0 /\ req[6] = (7 + q) % 256 /\ req[8] = Code[o.fn]
    <3>1. q + 1 \in Nat
      BY <2>3
    <3>2. Indexed(data, q + 1)
      BY <2>2 DEF Indexed
    <3> DEFINE length == 7 + q
               func == Code[o.fn]
               address == o.address
               count == ((a + 7) \div 8) % 256
               n == q + 1
    <3> HIDE DEF data, p, length, func, address, count, n
    <3>3. Framed(BuildRequest(id, length, func, address)
                   \o <<p, p>> \o <<count>> \o data, length, func, n)
      <4>1. n \in Nat /\ Indexed(data, n)
        BY <3>1, <3>2 DEF n
      <4> QED
        BY <4>1, MultipleRequest, Zenon
    <3>4. Framed(req, 7 + q, Code[o.fn], q + 1)
      BY <2>1, <3>3 DEF length, func, address, p, count, n
    <3> HIDE DEF a, q
    <3> QED
      BY <3>4 DEF Framed
  <2> HIDE DEF q
  <2>5. (7 + q) % 256 <= 7 + q /\ (7 + q) % 256 \in Int
    BY <2>3
  <2>6. ~WellFormed(req)
    BY <2>3, <2>4, <2>5 DEF WellFormed
  <2> QED
    BY <2>3, <2>4, <2>6
<1> QED
  BY <1>2, <1>3 DEF MultipleWrites

LEMMA RefusalBytes ==
    ASSUME NEW T, NEW req \in Seq(T), Len(req) >= 12, NEW code
    PROVE  /\ Len(Refusal(req, code)) = 9
           /\ Refusal(req, code)[8] = req[8] + 128 /\ Refusal(req, code)[9] = code
<1> DEFINE w3 == <<req[7], req[8] + 128, code>>
           S == T \cup {0, 3, req[7], req[8] + 128, code}
<1>1. req \in Seq(S) /\ Len(req) \in Nat
  BY SeqMonotonic, LenProperties
<1>2. Word(3) \in Seq(S) /\ Len(Word(3)) = 2
  BY DEF Word
<1>3. w3 \in Seq(S) /\ Len(w3) = 3 /\ w3[2] = req[8] + 128 /\ w3[3] = code
  OBVIOUS
<1> HIDE DEF w3, S
<1>4. PICK w1 \in Seq(S) : w1 = SubSeq(req, 1, 4) /\ Len(w1) = 4
  <2> DEFINE q == SubSeq(req, 1, 4)
  <2>1. q \in Seq(S) /\ Len(q) = IF 1 <= 4 THEN 4 - 1 + 1 ELSE 0
    BY <1>1, SubSeqProperties
  <2> HIDE DEF q
  <2>2. Len(q) = 4
    BY <2>1
  <2> QED
    BY <2>1, <2>2 DEF q
<1>5. PICK w2 \in Seq(S) : w2 = Word(3) /\ Len(w2) = 2
  BY <1>2
<1>6. PICK r2 \in Seq(S) : r2 = w1 \o w2 /\ Len(r2) = 6
  <2> DEFINE q == w1 \o w2
  <2>1. q \in Seq(S) /\ Len(q) = Len(w1) + Len(w2)
    BY ConcatProperties
  <2>2. Len(w1) = 4 /\ Len(w2) = 2
    BY <1>4, <1>5
  <2> HIDE DEF q
  <2>3. Len(q) = 6
    BY <2>1, <2>2
  <2> QED
    BY <2>1, <2>3 DEF q
<1>7. PICK r3 \in Seq(S) : r3 = w3
  BY <1>3
<1>8. Len(r2 \o r3) = 9 /\ (r2 \o r3)[8] = r3[2] /\ (r2 \o r3)[9] = r3[3]
  <2> DEFINE q == r2 \o r3
  <2>1. /\ Len(q) = Len(r2) + Len(r3)
        /\ \A i \in 1..Len(r2) + Len(r3) :
              q[i] = IF i <= Len(r2) THEN r2[i] ELSE r3[i - Len(r2)]
    BY ConcatProperties
  <2>2. Len(r2) = 6 /\ Len(r3) = 3
    BY <1>3, <1>6, <1>7
  <2> HIDE DEF q
  <2>3. Len(q) = 9 /\ q[8] = r3[2] /\ q[9] = r3[3]
    BY <2>1, <2>2
  <2> QED
    BY <2>3 DEF q
<1>9. Refusal(req, code) = r2 \o r3
  BY <1>4, <1>5, <1>6, <1>7 DEF Refusal, w3
<1> QED
  BY <1>3, <1>7, <1>8, <1>9

\* A multiple write on its way: what the PLC is given, and the refusal it gives.
Unanswered ==
    phase = "sent" /\ op.fn \in MultipleWrites =>
        /\ mem = before /\ reply = <<>>
        /\ ~WellFormed(request) /\ Len(request) >= 13 /\ request[8] = Code[op.fn]
        /\ \E S : request \in Seq(S)

RefusedWrite ==
    phase = "answered" /\ op.fn \in MultipleWrites =>
        /\ mem = before /\ refused # 0
        /\ Len(reply) = 9 /\ reply[8] = Code[op.fn] + 128 /\ reply[9] = refused

Writes == Unanswered /\ RefusedWrite /\ MultipleWritesFail
WriteInv == CallInv /\ Writes

LEMMA CallWrites ==
    ASSUME Arguments, CallInv, NEW o \in Ops, Call(o)
    PROVE  Writes'
<1>1. op' = o /\ before' = mem /\ mem' = mem /\ reply' = <<>>
  BY DEF Call
<1>2. CASE \E how \in {"raised", "rejected"} : Refused(how)
  <2>1. phase' = "returned" /\ outcome' # "ok"
    BY <1>2 DEF Refused
  <2> QED
    BY <1>1, <2>1 DEF Writes, Unanswered, RefusedWrite, MultipleWritesFail
<1>3. CASE phase' = "sent" /\ \E heap \in HeapBytes : request' = Request(msg_id, o, heap)
  <2>1. o.fn \in MultipleWrites =>
          /\ ~WellFormed(request') /\ Len(request') >= 13 /\ request'[8] = Code[o.fn]
          /\ \E S : request' \in Seq(S)
    BY <1>3, NeverWellFormed
  <2>2. Unanswered'
    <3>1. WellFormed(request)' = WellFormed(request')
      BY DEF WellFormed, Quantity, Operand, Function
    <3> QED
      BY <1>1, <2>1, <3>1 DEF Unanswered
  <2> QED
    BY <1>3, <2>2 DEF Writes, RefusedWrite, MultipleWritesFail
<1>4. connected \in BOOLEAN
  BY DEF CallInv, Typed
<1>5. CASE ~connected
  BY <1>2, <1>5 DEF Call
<1>6. CASE connected /\ TooMuch(o)
  BY <1>2, <1>6 DEF Call
<1>7. CASE connected /\ ~TooMuch(o)
  BY <1>3, <1>7 DEF Call
<1> QED
  BY <1>4, <1>5, <1>6, <1>7

LEMMA PlcWrites ==
    ASSUME 0 \notin BusyCodes, WriteInv, Serve \/ Busy
    PROVE  Writes'
<1>1. phase = "sent" /\ phase' = "answered" /\ UNCHANGED <<op, before>>
  BY DEF Serve, Busy
<1>2. ASSUME op.fn \in MultipleWrites
      PROVE  \E code : code # 0 /\ Refuse(code)
  <2>1. ~WellFormed(request)
    BY <1>1, <1>2 DEF WriteInv, Writes, Unanswered
  <2>2. CASE Serve
    <3>1. Refuse(3)
      BY <2>1, <2>2 DEF Serve
    <3> QED
      BY <3>1
  <2>3. CASE Busy
    BY <2>3 DEF Busy
  <2> QED
    BY <2>2, <2>3
<1>3. RefusedWrite'
  <2> SUFFICES ASSUME op.fn \in MultipleWrites
               PROVE  /\ mem' = before /\ refused' # 0
                      /\ Len(reply') = 9 /\ reply'[8] = Code[op.fn] + 128 /\ reply'[9] = refused'
    BY <1>1 DEF RefusedWrite
  <2>1. PICK code : code # 0 /\ Refuse(code)
    BY <1>2
  <2>2. /\ mem = before /\ Len(request) >= 13 /\ request[8] = Code[op.fn]
        /\ \E S : request \in Seq(S)
    BY <1>1 DEF WriteInv, Writes, Unanswered
  <2>3. reply' = Refusal(request, code) /\ refused' = code /\ mem' = mem
    BY <2>1 DEF Refuse
  <2>4. /\ Len(Refusal(request, code)) = 9
        /\ Refusal(request, code)[8] = request[8] + 128 /\ Refusal(request, code)[9] = code
    BY <2>2, RefusalBytes
  <2> QED
    BY <2>1, <2>2, <2>3, <2>4
<1> QED
  BY <1>1, <1>3 DEF Writes, Unanswered, MultipleWritesFail

LEMMA ReturnWrites ==
    ASSUME WriteInv, Return
    PROVE  Writes'
<1>1. phase' = "returned" /\ UNCHANGED <<link, mem, op, before, reply, refused>>
  BY DEF Return, connection, frames
<1>2. ASSUME op.fn \in MultipleWrites
      PROVE  mem = before /\ (outcome' = "ok" => NoAnswer)
  <2>1. CASE phase = "answered"
    <3>1. /\ mem = before /\ refused # 0
          /\ Len(reply) = 9 /\ reply[8] = Code[op.fn] + 128 /\ reply[9] = refused
      BY <1>2, <2>1 DEF WriteInv, Writes, RefusedWrite
    <3>2. Expected(op.fn) = Code[op.fn]
      BY <1>2 DEF MultipleWrites, Expected
    <3>3. ByteAt(reply, 7) = Code[op.fn] + 128 /\ ByteAt(reply, 8) = refused
      BY <3>1 DEF ByteAt
    <3>4. ErrorIn(reply, Expected(op.fn)) <=> refused \in KnownErrors
      BY <3>2, <3>3 DEF ErrorIn
    <3>5. outcome' = "ok" => ~ErrorIn(reply, Expected(op.fn))
      BY DEF Return
    <3> QED
      BY <3>1, <3>4, <3>5 DEF NoAnswer
  <2>2. CASE phase = "sent" /\ link # "up"
    <3>1. mem = before /\ reply = <<>>
      BY <1>2, <2>2 DEF WriteInv, Writes, Unanswered
    <3>2. link \in {"none", "fin", "rst", "closed"}
      BY <2>2 DEF WriteInv, CallInv, Typed
    <3>3. outcome' = "ok" => link = "fin"
      BY <3>2 DEF Return
    <3> QED
      BY <3>1, <3>3 DEF NoAnswer
  <2> QED
    BY <2>1, <2>2 DEF Return
<1> QED
  BY <1>1, <1>2 DEF Writes, Unanswered, RefusedWrite, MultipleWritesFail, NoAnswer

LEMMA OthersWrite ==
    ASSUME WriteInv, ModbusConnect \/ ModbusClose \/ LinkEnds \/ UNCHANGED vars
    PROVE  Writes'
<1> USE DEF WriteInv, Writes, Unanswered, RefusedWrite, MultipleWritesFail
<1>1. CASE ModbusConnect \/ ModbusClose
  BY <1>1 DEF ModbusConnect, ModbusClose
<1>2. CASE LinkEnds
  <2>1. /\ phase' # "returned" /\ (phase # "returned" => phase' = phase)
        /\ phase = "returned" => phase' = "idle"
        /\ UNCHANGED <<mem, before, op, request, reply, refused>>
    BY <1>2 DEF LinkEnds, frames, CallInv, Typed
  <2> QED
    BY <2>1
<1>3. CASE UNCHANGED vars
  BY <1>3 DEF vars, connection, frames, NoAnswer
<1> QED
  BY <1>1, <1>2, <1>3

LEMMA WriteStep ==
    ASSUME Arguments, LinkFaults \subseteq {"fin", "rst"}, 0 \notin BusyCodes,
           WriteInv, [Next]_vars
    PROVE  WriteInv'
<1>1. CallInv'
  BY CallKeeps, ReturnKeeps, OthersKeep DEF Next, WriteInv
<1>2. Writes'
  BY CallWrites, PlcWrites, ReturnWrites, OthersWrite DEF Next, WriteInv
<1> QED
  BY <1>1, <1>2 DEF WriteInv

\* A write of several registers or coils never reaches the tables of a PLC that
\* checks lengths, for any amount, address, values and state of the connection;
\* it returns only if the PLC's code has no class or the PLC has closed.
THEOREM MultipleWritesFailHolds == Spec => []MultipleWritesFail
<1>1. Init => WriteInv
  BY InitHolds DEF Init, WriteInv, Writes, Unanswered, RefusedWrite, MultipleWritesFail
<1>2. WriteInv /\ [Next]_vars => WriteInv'
  BY ClientAssumption, WriteStep
<1>3. WriteInv => MultipleWritesFail
  BY DEF WriteInv, Writes
<1> QED
  BY <1>1, <1>2, <1>3, PTL DEF Spec

------------------------------------------------------------------------------
(* Reads and single writes.                                                    *)

LEMMA Halves == \A x \in Int : x = 256 * (x \div 256) + (x % 256)
OBVIOUS

LEMMA WordBack ==
    ASSUME NEW x \in Nat, x <= 65535
    PROVE  256 * Word(x)[1] + Word(x)[2] = x
<1>1. x \div 256 \in Int /\ x \div 256 >= 0
  OBVIOUS
<1>2. x \div 256 <= 255
  OBVIOUS
<1>3. PICK q \in Int : q = x \div 256 /\ 0 <= q /\ q <= 255
  BY <1>1, <1>2
<1>4. q % 256 = q
  BY <1>3
<1>5. x = 256 * q + (x % 256)
  BY <1>3, Halves
<1>6. Word(x)[1] = q /\ Word(x)[2] = x % 256
  BY <1>3, <1>4 DEF Word
<1> QED
  BY <1>5, <1>6

LEMMA FunctionOf ==
    ASSUME NEW fn \in DOMAIN Code, NEW req, req[8] = Code[fn]
    PROVE  Function(req) = fn
<1>1. \A g \in DOMAIN Code : Code[g] = Code[fn] => g = fn
  BY DEF Code
<1> QED
  BY <1>1 DEF Function

\* A request without data, in its parts.
Short(req, func, address, x) ==
    /\ \E S : req \in Seq(S)
    /\ Len(req) = 12 /\ req[8] = func
    /\ req[9] = Word(address)[1] /\ req[10] = Word(address)[2]
    /\ req[11] = Word(x)[1] /\ req[12] = Word(x)[2]

ShortFrom(req, S, w2, w3, w4) ==
    /\ req \in Seq(S) /\ Len(req) = 12 /\ req[8] = w2[6]
    /\ req[9] = w3[1] /\ req[10] = w3[2] /\ req[11] = w4[1] /\ req[12] = w4[2]

LEMMA ShortParts ==
    ASSUME NEW S, NEW w1 \in OfLength(S, 2), NEW w2 \in OfLength(S, 6),
           NEW w3 \in OfLength(S, 2), NEW w4 \in OfLength(S, 2)
    PROVE  ShortFrom(w1 \o w2 \o w3 \o w4, S, w2, w3, w4)
<1>1. /\ w1 \in Seq(S) /\ w2 \in Seq(S) /\ w3 \in Seq(S) /\ w4 \in Seq(S)
      /\ Len(w1) = 2 /\ Len(w2) = 6 /\ Len(w3) = 2 /\ Len(w4) = 2
  BY DEF OfLength
<1>2. PICK r2 \in Seq(S) : r2 = w1 \o w2 /\ Len(r2) = 8 /\ r2[8] = w2[6]
  <2> DEFINE q == w1 \o w2
  <2>1. /\ q \in Seq(S) /\ Len(q) = Len(w1) + Len(w2)
        /\ \A i \in 1..Len(w1) + Len(w2) :
              q[i] = IF i <= Len(w1) THEN w1[i] ELSE w2[i - Len(w1)]
    BY <1>1, ConcatProperties
  <2> HIDE DEF q
  <2>2. q \in Seq(S) /\ Len(q) = 8 /\ q[8] = w2[6]
    BY <1>1, <2>1
  <2> QED
    BY <2>2 DEF q
<1>3. PICK r3 \in Seq(S) :
        /\ r3 = r2 \o w3 /\ Len(r3) = 10
        /\ r3[8] = r2[8] /\ r3[9] = w3[1] /\ r3[10] = w3[2]
  <2> DEFINE q == r2 \o w3
  <2>1. /\ q \in Seq(S) /\ Len(q) = Len(r2) + Len(w3)
        /\ \A i \in 1..Len(r2) + Len(w3) :
              q[i] = IF i <= Len(r2) THEN r2[i] ELSE w3[i - Len(r2)]
    BY <1>1, ConcatProperties
  <2>2. Len(r2) = 8
    BY <1>2
  <2> HIDE DEF q
  <2>3. /\ q \in Seq(S) /\ Len(q) = 10
        /\ q[8] = r2[8] /\ q[9] = w3[1] /\ q[10] = w3[2]
    BY <1>1, <2>1, <2>2
  <2> QED
    BY <2>3 DEF q
<1>4. PICK r4 \in Seq(S) :
        /\ r4 = r3 \o w4 /\ Len(r4) = 12
        /\ r4[8] = r3[8] /\ r4[9] = r3[9] /\ r4[10] = r3[10]
        /\ r4[11] = w4[1] /\ r4[12] = w4[2]
  <2> DEFINE q == r3 \o w4
  <2>1. /\ q \in Seq(S) /\ Len(q) = Len(r3) + Len(w4)
        /\ \A i \in 1..Len(r3) + Len(w4) :
              q[i] = IF i <= Len(r3) THEN r3[i] ELSE w4[i - Len(r3)]
    BY <1>1, ConcatProperties
  <2>2. Len(r3) = 10
    BY <1>3
  <2> HIDE DEF q
  <2>3. /\ q \in Seq(S) /\ Len(q) = 12
        /\ q[8] = r3[8] /\ q[9] = r3[9] /\ q[10] = r3[10]
        /\ q[11] = w4[1] /\ q[12] = w4[2]
    BY <1>1, <2>1, <2>2
  <2> QED
    BY <2>3 DEF q
<1>5. r4 = w1 \o w2 \o w3 \o w4
  BY <1>2, <1>3, <1>4
<1>6. /\ r4 \in Seq(S) /\ Len(r4) = 12 /\ r4[8] = w2[6]
      /\ r4[9] = w3[1] /\ r4[10] = w3[2] /\ r4[11] = w4[1] /\ r4[12] = w4[2]
  BY <1>2, <1>3, <1>4
<1> QED
  BY <1>5, <1>6 DEF ShortFrom

LEMMA ShortRequest ==
    ASSUME NEW id, NEW length, NEW func, NEW address, NEW x
    PROVE  Short(BuildRequest(id, length, func, address) \o Word(x), func, address, x)
<1> DEFINE w1 == Word(id)
           w2 == <<0, 0, 0, length % 256, SlaveId, func>>
           w3 == Word(address)
           w4 == Word(x)
           S == {w1[1], w1[2], w3[1], w3[2], w4[1], w4[2], 0, length % 256, SlaveId, func}
           req == BuildRequest(id, length, func, address) \o Word(x)
<1>1. w1 \in OfLength(S, 2) /\ w3 \in OfLength(S, 2) /\ w4 \in OfLength(S, 2)
  BY DEF Word, OfLength
<1>2. w2 \in OfLength(S, 6) /\ w2[6] = func
  BY DEF OfLength
<1>3. req = w1 \o w2 \o w3 \o w4
  BY DEF BuildRequest
<1>4. w3 = Word(address) /\ w4 = Word(x)
  OBVIOUS
<1> HIDE DEF w1, w2, w3, w4, S, req
<1>5. ShortFrom(req, S, w2, w3, w4)
  <2>1. ShortFrom(w1 \o w2 \o w3 \o w4, S, w2, w3, w4)
    BY <1>1, <1>2, ShortParts, Zenon
  <2> QED
    BY <1>3, <2>1, Zenon
<1>6. Short(req, func, address, x)
  BY <1>2, <1>4, <1>5 DEF ShortFrom, Short
<1> QED
  BY <1>6 DEF req

\* The echo a write is answered with keeps the function code.
LEMMA AnswerCode ==
    ASSUME NEW T, NEW req \in Seq(T), Len(req) = 12
    PROVE  Answer(req, SubSeq(req, 9, 12))[8] = req[8]
<1> DEFINE body == SubSeq(req, 9, 12)
           w2 == Word(Len(body) + 2)
           S == T \cup {w2[1], w2[2]}
<1>1. \A i \in 1..12 : req[i] \in S
  <2>1. \A i \in 1..Len(req) : req[i] \in T
    BY ElementOfSeq
  <2> QED
    BY <2>1
<1>2. w2 \in Seq(S) /\ Len(w2) = 2
  BY DEF Word
<1> HIDE DEF S, w2
<1>3. PICK w1 \in Seq(S) : w1 = SubSeq(req, 1, 4) /\ Len(w1) = 4
  <2> DEFINE q == SubSeq(req, 1, 4)
  <2>1. q \in Seq(S) /\ Len(q) = IF 1 <= 4 THEN 4 - 1 + 1 ELSE 0
    BY <1>1, SubSeqProperties
  <2> HIDE DEF q
  <2>2. Len(q) = 4
    BY <2>1
  <2> QED
    BY <2>1, <2>2 DEF q
<1>4. PICK w3 \in Seq(S) : w3 = SubSeq(req, 7, 8) /\ Len(w3) = 2 /\ w3[2] = req[8]
  <2> DEFINE q == SubSeq(req, 7, 8)
  <2>1. /\ q \in Seq(S) /\ Len(q) = IF 7 <= 8 THEN 8 - 7 + 1 ELSE 0
        /\ \A i \in 1..8 - 7 + 1 : q[i] = req[7 + i - 1]
    BY <1>1, SubSeqProperties
  <2> HIDE DEF q
  <2>2. Len(q) = 2 /\ q[2] = req[8]
    BY <2>1
  <2> QED
    BY <2>1, <2>2 DEF q
<1>5. PICK w4 \in Seq(S) : w4 = body
  <2>1. body \in Seq(S)
    BY <1>1, SubSeqProperties
  <2> HIDE DEF body
  <2> QED
    BY <2>1
<1>6. PICK r2 \in Seq(S) : r2 = w1 \o w2 /\ Len(r2) = 6
  <2> DEFINE q == w1 \o w2
  <2>1. q \in Seq(S) /\ Len(q) = Len(w1) + Len(w2)
    BY <1>2, ConcatProperties
  <2>2. Len(w1) = 4
    BY <1>3
  <2> HIDE DEF q
  <2>3. Len(q) = 6
    BY <1>2, <2>1, <2>2
  <2> QED
    BY <2>1, <2>3 DEF q
<1>7. PICK r3 \in Seq(S) : r3 = r2 \o w3 /\ Len(r3) = 8 /\ r3[8] = w3[2]
  <2> DEFINE q == r2 \o w3
  <2>1. /\ q \in Seq(S) /\ Len(q) = Len(r2) + Len(w3)
        /\ \A i \in 1..Len(r2) + Len(w3) :
              q[i] = IF i <= Len(r2) THEN r2[i] ELSE w3[i - Len(r2)]
    BY ConcatProperties
  <2>2. Len(r2) = 6 /\ Len(w3) = 2
    BY <1>4, <1>6
  <2> HIDE DEF q
  <2>3. Len(q) = 8 /\ q[8] = w3[2]
    BY <2>1, <2>2
  <2> QED
    BY <2>1, <2>3 DEF q
<1>8. (r3 \o w4)[8] = r3[8]
  <2> DEFINE q == r3 \o w4
  <2>1. \A i \in 1..Len(r3) + Len(w4) :
            q[i] = IF i <= Len(r3) THEN r3[i] ELSE w4[i - Len(r3)]
    BY ConcatProperties
  <2>2. Len(r3) = 8
    BY <1>7
  <2>3. Len(w4) \in Nat
    BY LenProperties
  <2> HIDE DEF q
  <2>4. q[8] = r3[8]
    BY <2>1, <2>2, <2>3
  <2> QED
    BY <2>4 DEF q
<1>9. Answer(req, SubSeq(req, 9, 12)) = r3 \o w4
  BY <1>3, <1>4, <1>5, <1>6, <1>7 DEF Answer, w2
<1> QED
  BY <1>4, <1>7, <1>8, <1>9

\* What a call that carries no data puts last.
LastWord(o) == IF o.fn \in Reads THEN o.amount ELSE o.values[1]

\* The address is within the sixteen bits of the frame.
Fits(o) == o.address <= 65535

\* What is so while a request is on its way, and once the PLC has answered.
Asked ==
    phase = "sent" =>
        /\ op \in Ops /\ mem = before
        /\ op.fn \in SingleWrites => Fits(op)
        /\ op.fn \notin MultipleWrites =>
              Short(request, Code[op.fn], op.address, LastWord(op))

Answered ==
    phase = "answered" =>
        \/ mem = before
        \/ /\ op.fn \notin Reads /\ mem = Intended
           /\ link \in {"up", "fin", "rst"} /\ ~ErrorIn(reply, Expected(op.fn))

Single == Asked /\ Answered /\ NoStrayWrite
Inv == WriteInv /\ Single

\* A function code is of one kind.
Kind(fn) ==
    \/ fn \in Reads /\ fn \notin SingleWrites /\ fn \notin MultipleWrites
    \/ fn \in SingleWrites /\ fn \notin Reads /\ fn \notin MultipleWrites
    \/ fn \in MultipleWrites /\ fn \notin Reads /\ fn \notin SingleWrites

LEMMA Kinds == \A fn \in Reads \cup SingleWrites \cup MultipleWrites : Kind(fn)
BY DEF Kind, Reads, SingleWrites, MultipleWrites

LEMMA Coded == DOMAIN Code = Reads \cup SingleWrites \cup MultipleWrites
BY DEF Code, Reads, SingleWrites, MultipleWrites

\* What Arguments says of one call.
Sane(o) ==
    /\ o.fn \in DOMAIN Code /\ Kind(o.fn)
    /\ o.fn \in SingleWrites => SingleArguments(o)

LEMMA SaneOps == ASSUME Arguments, NEW o \in Ops PROVE Sane(o)
<1>1. o.fn \in DOMAIN Code /\ (o.fn \in SingleWrites => SingleArguments(o))
  BY Zenon DEF Arguments
<1>2. Kind(o.fn)
  BY <1>1, Kinds, Coded, Zenon
<1> QED
  BY <1>1, <1>2, Zenon DEF Sane

LEMMA AddressFits ==
    ASSUME NEW o, Sane(o), ~TooMuch(o), o.fn \in SingleWrites
    PROVE  Fits(o)
<1>1. o.address \in Nat
  BY DEF Sane, SingleArguments
<1>2. ~(o.address > 65535)
  BY DEF TooMuch
<1> QED
  BY <1>1, <1>2 DEF Fits

LEMMA CallSingle ==
    ASSUME Arguments, CallInv, NEW o \in Ops, Call(o)
    PROVE  Single'
<1>0. Sane(o)
  BY SaneOps, Zenon
<1>1. op' = o /\ before' = mem /\ mem' = mem
  BY DEF Call
<1>2. CASE phase' = "returned"
  BY <1>1, <1>2 DEF Single, Asked, Answered, NoStrayWrite
<1>3. CASE /\ phase' = "sent" /\ ~TooMuch(o)
           /\ \E heap \in HeapBytes : request' = Request(msg_id, o, heap)
  <2>1. o.fn \in SingleWrites => Fits(o)
    <3>1. ~TooMuch(o)
      BY <1>3, Zenon
    <3> QED
      BY <1>0, <3>1, AddressFits, Zenon
  <2>2. ASSUME o.fn \notin MultipleWrites
        PROVE  Short(request', Code[o.fn], o.address, LastWord(o))
    <3>1. o.fn \in Reads \/ o.fn \in SingleWrites
      BY <1>0, <2>2, Zenon DEF Sane, Kind
    <3>2. CASE o.fn \in Reads
      <4>1. request' = BuildRequest(msg_id, 6, Code[o.fn], o.address) \o Word(o.amount)
        <5>1. \A heap : Request(msg_id, o, heap) = ReadRequest(msg_id, o)
          <6>1. o.fn \notin SingleWrites /\ o.fn # "WriteRegs" /\ o.fn # "WriteCoils"
            BY <3>2 DEF Reads, SingleWrites
          <6> QED
            BY <3>2, <6>1, Zenon DEF Request
        <5> QED
          BY <1>3, <5>1, Zenon DEF ReadRequest
      <4>2. Short(BuildRequest(msg_id, 6, Code[o.fn], o.address) \o Word(o.amount),
                  Code[o.fn], o.address, o.amount)
        BY ShortRequest, Zenon
      <4> QED
        BY <3>2, <4>1, <4>2, Zenon DEF LastWord
    <3>3. CASE o.fn \in SingleWrites
      <4>1. request' = BuildRequest(msg_id, 6, Code[o.fn], o.address) \o Word(o.values[1])
        <5>1. \A heap : Request(msg_id, o, heap) = WriteOneRequest(msg_id, o)
          <6>1. o.fn \notin Reads /\ o.fn # "WriteRegs" /\ o.fn # "WriteCoils"
            BY <3>3 DEF Reads, SingleWrites
          <6> QED
            BY <3>3, <6>1, Zenon DEF Request
        <5> QED
          BY <1>3, <5>1, Zenon DEF WriteOneRequest
      <4>2. Short(BuildRequest(msg_id, 6, Code[o.fn], o.address) \o Word(o.values[1]),
                  Code[o.fn], o.address, o.values[1])
        BY ShortRequest, Zenon
      <4>3. o.fn \notin Reads
        BY <1>0, <3>3, Zenon DEF Sane, Kind
      <4> QED
        BY <4>1, <4>2, <4>3, Zenon DEF LastWord
    <3> QED
      BY <3>1, <3>2, <3>3
  <2>3. Asked'
    <3>1. Short(request, Code[op.fn], op.address, LastWord(op))'
            <=> Short(request', Code[o.fn], o.address, LastWord(o))
      BY <1>1 DEF Short, LastWord
    <3> QED
      BY <1>1, <2>1, <2>2, <3>1 DEF Asked
  <2> QED
    BY <1>3, <2>3 DEF Single, Answered, NoStrayWrite
<1>4. connected \in BOOLEAN
  BY DEF CallInv, Typed
<1>5. CASE ~connected
  BY <1>2, <1>5 DEF Call, Refused
<1>6. CASE connected /\ TooMuch(o)
  BY <1>2, <1>6 DEF Call, Refused
<1>7. CASE connected /\ ~TooMuch(o)
  BY <1>3, <1>7 DEF Call
<1> QED
  BY <1>4, <1>5, <1>6, <1>7

\* What a single write that is served does is what its caller meant.
LEMMA ServedAsMeant ==
    ASSUME Arguments, Asked, phase = "sent", op.fn \in SingleWrites
    PROVE  /\ Function(request) = op.fn
           /\ [mem EXCEPT ![Table(Function(request))] =
                  [a \in Addresses |-> IF a \in Span(request)
                      THEN Written(request, a) ELSE @[a]]] = Intended
<1>1. /\ op \in Ops /\ mem = before /\ Fits(op)
      /\ Short(request, Code[op.fn], op.address, op.values[1])
  <2>1. op.fn \notin Reads /\ op.fn \notin MultipleWrites
    BY DEF Reads, SingleWrites, MultipleWrites
  <2> QED
    BY <2>1, Zenon DEF Asked, LastWord
<1>2. /\ op.amount = 1 /\ op.address \in Nat /\ op.address <= 65535
      /\ op.values[1] \in Nat /\ op.values[1] <= 65535
  <2>1. SingleArguments(op)
    BY <1>1, SaneOps, Zenon DEF Sane
  <2> QED
    BY <1>1, <2>1 DEF SingleArguments, Fits
<1>3. op.fn \in DOMAIN Code
  BY Coded, Zenon
<1>4. Function(request) = op.fn
  BY <1>1, <1>3, FunctionOf, Zenon DEF Short
<1>5. AddressOf(request) = op.address
  BY <1>1, <1>2, WordBack DEF Short, AddressOf
<1>6. Operand(request) = op.values[1]
  BY <1>1, <1>2, WordBack DEF Short, Operand
<1>7. Span(request) = {op.address}
  <2>1. Quantity(request) = 1
    BY <1>4 DEF Quantity
  <2> QED
    BY <1>2, <1>5, <2>1 DEF Span
<1>8. CASE op.fn = "WriteReg"
  <2>1. \A a : Written(request, a) = op.values[1]
    BY <1>4, <1>6, <1>8 DEF Written
  <2>2. Intended = [before EXCEPT ![Table(op.fn)] =
            [a \in Addresses |-> IF a \in op.address..(op.address + op.amount - 1)
                THEN op.values[a - op.address + 1] ELSE before[Table(op.fn)][a]]]
    BY <1>8 DEF Intended
  <2>3. op.address..(op.address + op.amount - 1) = {op.address}
    BY <1>2
  <2>4. \A a \in {op.address} : a - op.address + 1 = 1
    BY <1>2
  <2> QED
    BY <1>1, <1>4, <1>7, <2>1, <2>2, <2>3, <2>4
<1>9. CASE op.fn = "WriteCoil"
  <2> DEFINE value == op.values[1] \div 65280
  <2>1. \A a : Written(request, a) = value
    BY <1>4, <1>6, <1>9 DEF Written
  <2>2. Intended = [before EXCEPT ![Table(op.fn)] =
            [a \in Addresses |-> IF a = op.address THEN value ELSE @[a]]]
    BY <1>9 DEF Intended
  <2> HIDE DEF value
  <2> QED
    BY <1>1, <1>4, <1>7, <2>1, <2>2
<1> QED
  BY <1>4, <1>8, <1>9 DEF SingleWrites

LEMMA PlcSingle ==
    ASSUME Arguments, 0 \notin BusyCodes, Inv, Serve \/ Busy
    PROVE  Single'
<1>1. /\ phase = "sent" /\ phase' = "answered" /\ link = "up"
      /\ UNCHANGED <<link, op, before>>
  BY DEF Serve, Busy, connection
<1>2. op \in Ops /\ mem = before
  BY <1>1 DEF Inv, Single, Asked
<1>3. CASE mem' = mem
  BY <1>1, <1>2, <1>3 DEF Single, Asked, Answered, NoStrayWrite
<1>4. CASE op.fn \in MultipleWrites
  <2>1. RefusedWrite'
    BY PlcWrites DEF Inv, Writes
  <2> QED
    BY <1>1, <1>2, <1>3, <1>4, <2>1 DEF RefusedWrite
<1>5. CASE op.fn \in Reads
  <2>0. op.fn \notin MultipleWrites
    BY <1>5 DEF Reads, MultipleWrites
  <2>1. request[8] = Code[op.fn]
    BY <1>1, <2>0, Zenon DEF Inv, Single, Asked, Short
  <2>2. Function(request) \in Reads
    <3>1. op.fn \in DOMAIN Code
      BY <1>5, Coded, Zenon
    <3>2. Function(request) = op.fn
      BY <2>1, <3>1, FunctionOf, Zenon
    <3> QED
      BY <1>5, <3>2, Zenon
  <2>3. mem' = mem
    BY <2>2 DEF Serve, Busy, Refuse
  <2> QED
    BY <1>3, <2>3
<1>6. CASE op.fn \in SingleWrites
  <2>1. Function(request) = op.fn
    BY <1>1, <1>6, ServedAsMeant, Zenon DEF Inv, Single
  <2>2. op.fn \notin Reads /\ op.fn \notin MultipleWrites
    BY <1>6 DEF Reads, SingleWrites, MultipleWrites
  <2>3. \/ mem' = mem
        \/ /\ mem' = Intended
           /\ reply' = Answer(request, SubSeq(request, 9, 12))
    <3>1. CASE Busy
      BY <3>1 DEF Busy, Refuse
    <3>2. CASE Serve
      <4>1. CASE ~WellFormed(request)
        BY <3>2, <4>1 DEF Serve, Refuse
      <4>2. CASE WellFormed(request) /\ ~(Span(request) \subseteq Addresses)
        BY <3>2, <4>2 DEF Serve, Refuse
      <4>3. CASE WellFormed(request) /\ Span(request) \subseteq Addresses
        <5>1. /\ reply' = Answer(request, SubSeq(request, 9, 12))
              /\ mem' = [mem EXCEPT ![Table(Function(request))] =
                            [a \in Addresses |-> IF a \in Span(request)
                                THEN Written(request, a) ELSE @[a]]]
          BY <2>1, <2>2, <3>2, <4>3 DEF Serve
        <5> QED
          BY <1>1, <1>6, <5>1, ServedAsMeant DEF Inv, Single
      <4> QED
        BY <4>1, <4>2, <4>3
    <3> QED
      BY <3>1, <3>2
  <2>4. ASSUME reply' = Answer(request, SubSeq(request, 9, 12))
        PROVE  ~ErrorIn(reply', Expected(op.fn))
    <3>1. /\ \E S : request \in Seq(S)
          /\ Len(request) = 12 /\ request[8] = Code[op.fn]
      BY <1>1, <2>2, Zenon DEF Inv, Single, Asked, Short
    <3>2. reply'[8] = Code[op.fn]
      BY <2>4, <3>1, AnswerCode
    <3>3. ByteAt(reply', 7) \in {Code[op.fn], 0}
      BY <3>2 DEF ByteAt
    <3>4. Code[op.fn] \in {5, 6} /\ Expected(op.fn) = 5
      BY <1>6 DEF SingleWrites, Code, Expected
    <3> QED
      BY <3>3, <3>4 DEF ErrorIn
  <2>5. CASE mem' = Intended /\ reply' = Answer(request, SubSeq(request, 9, 12))
    <3>1. Intended' = Intended
      BY <1>1 DEF Intended
    <3>2. ErrorIn(reply, Expected(op.fn))' = ErrorIn(reply', Expected(op.fn))
      BY <1>1 DEF ErrorIn, ByteAt, Expected
    <3>3. Answered'
      BY <1>1, <2>2, <2>4, <2>5, <3>1, <3>2 DEF Answered
    <3> QED
      BY <1>1, <3>3 DEF Single, Asked, NoStrayWrite
  <2> QED
    BY <1>3, <2>3, <2>5
<1> QED
  <2>1. Kind(op.fn)
    BY <1>2, SaneOps, Zenon DEF Sane
  <2> QED
    BY <1>4, <1>5, <1>6, <2>1, Zenon DEF Kind

LEMMA OthersSingle ==
    ASSUME LinkFaults \subseteq {"fin", "rst"}, Inv,
           ModbusConnect \/ ModbusClose \/ LinkEnds \/ Return \/ UNCHANGED vars
    PROVE  Single'
<1> USE DEF Inv, Single, Asked, Answered, NoStrayWrite
<1>1. CASE ModbusConnect \/ ModbusClose
  BY <1>1 DEF ModbusConnect, ModbusClose
<1>2. UNCHANGED <<op, before>> => Intended' = Intended
  BY DEF Intended
<1>3. UNCHANGED <<op, reply>> =>
        ErrorIn(reply, Expected(op.fn))' = ErrorIn(reply, Expected(op.fn))
  BY DEF ErrorIn, ByteAt, Expected
<1>4. UNCHANGED <<op, request>> =>
        Short(request, Code[op.fn], op.address, LastWord(op))'
          = Short(request, Code[op.fn], op.address, LastWord(op))
  BY DEF Short, LastWord
<1>5. CASE LinkEnds
  <2>1. /\ phase' # "returned" /\ (phase # "returned" => phase' = phase)
        /\ phase = "returned" => phase' = "idle"
        /\ link' \in {"fin", "rst"}
        /\ UNCHANGED <<mem, before, op, request, reply>>
    BY <1>5 DEF LinkEnds, frames, WriteInv, CallInv, Typed
  <2> QED
    BY <1>2, <1>3, <1>4, <2>1
<1>6. CASE Return
  <2>1. phase' = "returned" /\ UNCHANGED <<link, mem, op, before>>
    BY <1>6 DEF Return, connection
  <2>2. CASE phase = "sent"
    BY <2>1, <2>2
  <2>3. CASE phase = "answered"
    <3>1. CASE mem = before
      BY <2>1, <3>1
    <3>2. CASE /\ op.fn \notin Reads /\ mem = Intended
               /\ link \in {"up", "fin", "rst"} /\ ~ErrorIn(reply, Expected(op.fn))
      <4>1. outcome' = "ok" \/ (outcome' = "raised" /\ link = "rst")
        BY <1>6, <3>2 DEF Return
      <4> QED
        BY <1>2, <2>1, <3>2, <4>1
    <3> QED
      BY <2>3, <3>1, <3>2
  <2> QED
    BY <1>6, <2>2, <2>3 DEF Return
<1>7. CASE UNCHANGED vars
  BY <1>2, <1>3, <1>4, <1>7 DEF vars, connection, frames
<1> QED
  BY <1>1, <1>5, <1>6, <1>7

LEMMA InvInit == Init => Inv
BY InitHolds DEF Init, Inv, Single, Asked, Answered, NoStrayWrite,
                 WriteInv, Writes, Unanswered, RefusedWrite, MultipleWritesFail

LEMMA InvStep == Inv /\ [Next]_vars => Inv'
<1>1. Inv /\ [Next]_vars => WriteInv'
  BY ClientAssumption, WriteStep DEF Inv
<1>2. Inv /\ [Next]_vars => Single'
  BY ClientAssumption, CallSingle, PlcSingle, OthersSingle DEF Next, Inv, WriteInv
<1> QED
  BY <1>1, <1>2 DEF Inv

\* Whatever the address and the value of a single write: the bytes they are split
\* into name the same register or coil to the PLC and carry the same value.
\* Nothing else in its tables is changed by any call, and a call that changed
\* something raises only if the connection broke afterwards.
THEOREM NoStrayWriteHolds == Spec => []NoStrayWrite
<1>1. Inv => NoStrayWrite
  BY DEF Inv, Single
<1> QED
  BY InvInit, InvStep, <1>1, PTL DEF Spec


------------------------------------------------------------------------------
(* Types: what is on the line are bytes, and bits stay bits.                   *)

LEMMA WordBytes ==
    ASSUME NEW x \in Int
    PROVE  /\ Word(x) \in Seq(Byte) /\ Len(Word(x)) = 2
           /\ Word(x)[1] \in Byte /\ Word(x)[2] \in Byte
<1>1. (x \div 256) % 256 \in Byte /\ x % 256 \in Byte
  BY DEF Byte
<1> QED
  BY <1>1 DEF Word

LEMMA ByteMod == \A x \in Int : x % 256 \in Byte
BY DEF Byte

LEMMA CodeRange == \A fn \in DOMAIN Code : Code[fn] \in 1..16
BY DEF Code

LEMMA Powers == \A j \in 0..7 : 2 ^ j \in {1, 2, 4, 8, 16, 32, 64, 128}
<1>1. /\ 2 ^ 0 = 1 /\ 2 ^ 1 = 2 /\ 2 ^ 2 = 4 /\ 2 ^ 3 = 8
      /\ 2 ^ 4 = 16 /\ 2 ^ 5 = 32 /\ 2 ^ 6 = 64 /\ 2 ^ 7 = 128
  OBVIOUS
<1> DEFINE Digits == 0..7
<1>2. \A j \in Digits :
         j = 0 \/ j = 1 \/ j = 2 \/ j = 3 \/ j = 4 \/ j = 5 \/ j = 6 \/ j = 7
  OBVIOUS
<1> HIDE DEF Digits
<1>3. \A j \in Digits : 2 ^ j \in {1, 2, 4, 8, 16, 32, 64, 128}
  BY <1>1, <1>2, ZenonT(60)
<1> QED
  BY <1>3 DEF Digits

LEMMA BuildBytes ==
    ASSUME NEW id \in Int, NEW length \in Int, NEW func \in Byte, NEW address \in Int
    PROVE  BuildRequest(id, length, func, address) \in Seq(Byte)
<1> DEFINE w2 == <<0, 0, 0, length % 256, SlaveId, func>>
<1>1. w2 \in Seq(Byte)
  <2>1. SlaveId \in Byte
    BY FramesAssumption DEF Byte
  <2>2. length % 256 \in Byte /\ 0 \in Byte
    BY DEF Byte
  <2> QED
    BY <2>1, <2>2
<1>2. Word(id) \in Seq(Byte) /\ Word(address) \in Seq(Byte)
  BY WordBytes
<1> HIDE DEF w2
<1>3. Word(id) \o w2 \in Seq(Byte)
  BY <1>1, <1>2, ConcatProperties
<1>4. (Word(id) \o w2) \o Word(address) \in Seq(Byte)
  BY <1>2, <1>3, ConcatProperties
<1> QED
  BY <1>4 DEF BuildRequest, w2

LEMMA WordsBytes ==
    ASSUME NEW values, NEW n \in Nat, Len(values) = n, \A k \in 1..n : values[k] \in Int
    PROVE  Words(values) \in Seq(Byte) /\ Len(Words(values)) = 2 * n
<1>1. \A b \in 1..(2 * n) : (b + 1) \div 2 \in 1..n /\ 2 - (b % 2) \in {1, 2}
  OBVIOUS
<1>2. ASSUME NEW b \in 1..(2 * n) PROVE Word(values[(b + 1) \div 2])[2 - (b % 2)] \in Byte
  <2>1. values[(b + 1) \div 2] \in Int
    BY <1>1
  <2> DEFINE x == values[(b + 1) \div 2]
             i == 2 - (b % 2)
  <2>2. x \in Int /\ i \in {1, 2}
    BY <1>1, <2>1
  <2> HIDE DEF x, i
  <2>3. Word(x)[i] \in Byte
    BY <2>2, WordBytes
  <2> QED
    BY <2>3 DEF x, i
<1>3. Words(values) \in [1..(2 * n) -> Byte]
  BY <1>2 DEF Words
<1>4. 2 * n \in Nat
  OBVIOUS
<1> HIDE DEF Words
<1>5. Words(values) \in Seq(Byte)
  BY <1>3, <1>4, IsASeq
<1> QED
  BY <1>3, <1>4, <1>5, LenProperties

LEMMA ManyValues ==
    ASSUME NEW o, MultipleArguments(o)
    PROVE  /\ o.amount \in Nat /\ o.address \in Nat /\ Len(o.values) = o.amount
           /\ \A k \in 1..o.amount : o.values[k] \in Int
<1>1. /\ o.amount \in Nat /\ o.address \in Nat /\ Len(o.values) = o.amount
      /\ o.values \in Seq(Uint16)
  BY Zenon DEF MultipleArguments
<1>2. \A k \in 1..Len(o.values) : o.values[k] \in Uint16
  BY <1>1, ElementOfSeq, Zenon
<1>3. \A x \in Uint16 : x \in Int
  BY DEF Uint16
<1> QED
  BY <1>1, <1>2, <1>3, Zenon

LEMMA LastByteNat == ASSUME NEW n \in Nat PROVE LastByte(n) \in Nat
BY DEF LastByte

LEMMA CoilsBytes ==
    ASSUME NEW o, MultipleArguments(o), NEW heap \in Byte
    PROVE  CoilBytes(o, heap) \in Seq(Byte)
<1> DEFINE temp(i) == IF i < 4 THEN o.values[i + 1] ELSE heap
           Given(i) == IF i < o.amount THEN temp(i) ELSE 0
           Added(b) == [j \in 0..7 |-> IF j > 0 THEN Given(8 * (b - 1) + j)
                                       ELSE Given(8 * b) + (IF b = 1 THEN Given(0) ELSE 0)]
           n == LastByte(o.amount) + 1
<1>1. o.amount \in Nat /\ \A k \in 1..o.amount : o.values[k] \in Int
  BY ManyValues
<1>2. n \in Nat
  <2>1. LastByte(o.amount) \in Nat
    BY <1>1, LastByteNat
  <2> QED
    BY <2>1
<1>3. \A i \in Nat : Given(i) \in Int
  <2>1. ASSUME NEW i \in Nat PROVE Given(i) \in Int
    <3>1. heap \in Int
      BY DEF Byte
    <3>2. i < o.amount => o.values[i + 1] \in Int
      BY <1>1
    <3> QED
      BY <3>1, <3>2
  <2> QED
    BY <2>1
<1> HIDE DEF Given
<1>4. ASSUME NEW b \in 1..n PROVE (heap + Octet(Added(b))) % 256 \in Byte
  <2>1. 8 * b \in Nat /\ 8 * (b - 1) \in Nat /\ \A j \in 0..7 : 8 * (b - 1) + j \in Nat
    BY <1>2
  <2>2. Given(8 * b) \in Int /\ Given(0) \in Int /\ \A j \in 0..7 : Given(8 * (b - 1) + j) \in Int
    BY <1>3, <2>1
  <2>3. \A j \in 0..7 : Added(b)[j] \in Int
    BY <2>2
  <2> DEFINE f == Added(b)
  <2> HIDE DEF f
  <2>4. \A j \in 0..7 : f[j] \in Int
    BY <2>3 DEF f
  <2>5. Octet(f) \in Int
    BY <2>4 DEF Octet
  <2>6. (heap + Octet(f)) % 256 \in Byte
    BY <2>5 DEF Byte
  <2> QED
    BY <2>6 DEF f
<1>5. CoilBytes(o, heap) = [b \in 1..n |-> (heap + Octet(Added(b))) % 256]
  BY DEF CoilBytes, Given
<1> HIDE DEF n
<1>6. CoilBytes(o, heap) \in [1..n -> Byte]
  BY <1>4, <1>5
<1> QED
  BY <1>2, <1>6, IsASeq

LEMMA ShortBytes ==
    ASSUME NEW id \in Int, NEW func \in Byte, NEW address \in Int, NEW x \in Int
    PROVE  BuildRequest(id, 6, func, address) \o Word(x) \in Seq(Byte)
<1>1. 6 \in Int
  OBVIOUS
<1>2. BuildRequest(id, 6, func, address) \in Seq(Byte)
  BY <1>1, BuildBytes
<1>3. Word(x) \in Seq(Byte)
  BY WordBytes
<1> QED
  BY <1>2, <1>3, ConcatProperties

\* Which request a call builds.
LEMMA RequestKinds ==
    ASSUME NEW id, NEW o, NEW heap
    PROVE  /\ o.fn \in Reads => Request(id, o, heap) = ReadRequest(id, o)
           /\ o.fn \in SingleWrites => Request(id, o, heap) = WriteOneRequest(id, o)
           /\ o.fn = "WriteRegs" => Request(id, o, heap) = WriteRegsRequest(id, o)
           /\ o.fn = "WriteCoils" => Request(id, o, heap) = WriteCoilsRequest(id, o, heap)
<1>1. ASSUME o.fn \in Reads PROVE Request(id, o, heap) = ReadRequest(id, o)
  <2>1. o.fn \notin SingleWrites /\ o.fn # "WriteRegs" /\ o.fn # "WriteCoils"
    BY <1>1 DEF Reads, SingleWrites
  <2> QED
    BY <1>1, <2>1, Zenon DEF Request
<1>2. ASSUME o.fn \in SingleWrites PROVE Request(id, o, heap) = WriteOneRequest(id, o)
  <2>1. o.fn \notin Reads /\ o.fn # "WriteRegs" /\ o.fn # "WriteCoils"
    BY <1>2 DEF Reads, SingleWrites
  <2> QED
    BY <1>2, <2>1, Zenon DEF Request
<1>3. ASSUME o.fn = "WriteRegs" PROVE Request(id, o, heap) = WriteRegsRequest(id, o)
  BY <1>3 DEF Request, Reads, SingleWrites
<1>4. ASSUME o.fn = "WriteCoils" PROVE Request(id, o, heap) = WriteCoilsRequest(id, o, heap)
  BY <1>4 DEF Request, Reads, SingleWrites
<1> QED
  BY <1>1, <1>2, <1>3, <1>4

\* Whatever the call, its request is made of bytes.
LEMMA RequestBytes ==
    ASSUME Arguments, NEW o \in Ops, NEW id \in Int, NEW heap \in Byte
    PROVE  Request(id, o, heap) \in Seq(Byte)
<1>1. /\ o.fn \in DOMAIN Code
      /\ o.fn \in SingleWrites => SingleArguments(o)
      /\ o.fn \in MultipleWrites => MultipleArguments(o)
      /\ o.fn \in Reads => ReadArguments(o)
  BY Zenon DEF Arguments
<1>2. Code[o.fn] \in Byte
  BY <1>1, CodeRange DEF Byte
<1>3. CASE o.fn \in Reads
  <2>1. o.address \in Int /\ o.amount \in Int
    BY <1>1, <1>3 DEF ReadArguments
  <2>2. BuildRequest(id, 6, Code[o.fn], o.address) \o Word(o.amount) \in Seq(Byte)
    BY <1>2, <2>1, ShortBytes, Zenon
  <2> QED
    BY <1>3, <2>2, RequestKinds, Zenon DEF ReadRequest
<1>4. CASE o.fn \in SingleWrites
  <2>1. o.address \in Int /\ o.values[1] \in Int
    BY <1>1, <1>4 DEF SingleArguments
  <2>2. BuildRequest(id, 6, Code[o.fn], o.address) \o Word(o.values[1]) \in Seq(Byte)
    BY <1>2, <2>1, ShortBytes, Zenon
  <2> QED
    BY <1>4, <2>2, RequestKinds, Zenon DEF WriteOneRequest
<1>5. CASE o.fn = "WriteRegs"
  <2>1. MultipleArguments(o)
    BY <1>1, <1>5 DEF MultipleWrites
  <2>2. /\ o.address \in Nat /\ o.amount \in Nat /\ Len(o.values) = o.amount
        /\ \A k \in 1..o.amount : o.values[k] \in Int
    BY <2>1, ManyValues, Zenon
  <2>3. \A n \in Nat : n \in Int /\ 2 * n \in Int /\ 5 + 2 * n \in Int
    OBVIOUS
  <2> DEFINE w5 == <<(2 * o.amount) % 256>>
             head == BuildRequest(id, 5 + 2 * o.amount, Code[o.fn], o.address)
  <2>4. w5 \in Seq(Byte)
    <3>1. (2 * o.amount) % 256 \in Byte
      BY <2>2, <2>3, ByteMod, Zenon
    <3> QED
      BY <3>1
  <2>5. head \in Seq(Byte)
    BY <1>2, <2>2, <2>3, BuildBytes, Zenon
  <2>6. Words(o.values) \in Seq(Byte)
    BY <2>2, WordsBytes, Zenon
  <2>7. Word(o.amount) \in Seq(Byte)
    BY <2>2, <2>3, WordBytes, Zenon
  <2>8. Request(id, o, heap) = head \o Word(o.amount) \o w5 \o Words(o.values)
    <3>1. Request(id, o, heap) = WriteRegsRequest(id, o)
      BY <1>5, RequestKinds, Zenon
    <3> QED
      BY <3>1 DEF WriteRegsRequest
  <2> HIDE DEF head, w5
  <2>9. head \o Word(o.amount) \o w5 \o Words(o.values) \in Seq(Byte)
    <3>1. head \o Word(o.amount) \in Seq(Byte)
      BY <2>5, <2>7, ConcatProperties, Zenon
    <3>2. head \o Word(o.amount) \o w5 \in Seq(Byte)
      BY <2>4, <3>1, ConcatProperties, Zenon
    <3> QED
      BY <2>6, <3>2, ConcatProperties, Zenon
  <2> QED
    BY <2>8, <2>9, Zenon
<1>6. CASE o.fn = "WriteCoils"
  <2>1. MultipleArguments(o)
    BY <1>1, <1>6 DEF MultipleWrites
  <2>2. o.address \in Nat /\ o.amount \in Nat
    BY <2>1, ManyValues, Zenon
  <2>3. \A n \in Nat : /\ n \in Int /\ n \div 256 \in Int /\ (n + 7) \div 8 \in Int
                       /\ 7 + n \in Int
    OBVIOUS
  <2> DEFINE p == (o.amount \div 256) % 256
             r == ((o.amount + 7) \div 8) % 256
             w4 == <<p, p>>
             w5 == <<r>>
             head == BuildRequest(id, 7 + LastByte(o.amount), Code[o.fn], o.address)
  <2>4. w4 \in Seq(Byte) /\ w5 \in Seq(Byte)
    <3>1. p \in Byte /\ r \in Byte
      BY <2>2, <2>3, ByteMod, ZenonT(60)
    <3> HIDE DEF p, r
    <3> QED
      BY <3>1
  <2>5. head \in Seq(Byte)
    <3>1. 7 + LastByte(o.amount) \in Int
      BY <2>2, <2>3, LastByteNat, Zenon
    <3> QED
      BY <1>2, <2>2, <2>3, <3>1, BuildBytes, Zenon
  <2>6. CoilBytes(o, heap) \in Seq(Byte)
    BY <2>1, CoilsBytes, Zenon
  <2>7. Request(id, o, heap) = head \o w4 \o w5 \o CoilBytes(o, heap)
    <3>1. Request(id, o, heap) = WriteCoilsRequest(id, o, heap)
      BY <1>6, RequestKinds, Zenon
    <3> QED
      BY <3>1 DEF WriteCoilsRequest
  <2> HIDE DEF head, w4, w5
  <2>8. head \o w4 \o w5 \o CoilBytes(o, heap) \in Seq(Byte)
    <3>1. head \o w4 \in Seq(Byte)
      BY <2>4, <2>5, ConcatProperties, Zenon
    <3>2. head \o w4 \o w5 \in Seq(Byte)
      BY <2>4, <3>1, ConcatProperties, Zenon
    <3> QED
      BY <2>6, <3>2, ConcatProperties, Zenon
  <2> QED
    BY <2>7, <2>8, Zenon
<1>7. o.fn \in Reads \/ o.fn \in SingleWrites \/ o.fn = "WriteRegs" \/ o.fn = "WriteCoils"
  BY <1>1, Coded DEF MultipleWrites
<1> QED
  BY <1>3, <1>4, <1>5, <1>6, <1>7

------------------------------------------------------------------------------
(* Answers, and what a read makes of them.                                     *)

\* Where the bytes of a reply are.
LEMMA AnswerPlaces ==
    ASSUME NEW req \in Seq(Byte), Len(req) = 12, NEW body \in Seq(Byte)
    PROVE  /\ Answer(req, body) \in Seq(Byte) /\ Len(Answer(req, body)) = 8 + Len(body)
           /\ Answer(req, body)[8] = req[8]
           /\ \A i \in 1..Len(body) : Answer(req, body)[8 + i] = body[i]
<1>0. Len(body) \in Nat
  BY LenProperties
<1>1. \A i \in 1..12 : req[i] \in Byte
  <2>1. \A i \in 1..Len(req) : req[i] \in Byte
    BY ElementOfSeq
  <2> QED
    BY <2>1
<1> DEFINE w1 == SubSeq(req, 1, 4)
           w2 == Word(Len(body) + 2)
           w3 == SubSeq(req, 7, 8)
<1>2. w1 \in Seq(Byte) /\ Len(w1) = 4
  <2>1. /\ w1 \in Seq(Byte) /\ Len(w1) = IF 1 <= 4 THEN 4 - 1 + 1 ELSE 0
    BY <1>1, SubSeqProperties
  <2> HIDE DEF w1
  <2> QED
    BY <2>1
<1>3. w2 \in Seq(Byte) /\ Len(w2) = 2
  <2>1. Len(body) + 2 \in Int
    BY <1>0
  <2> QED
    BY <2>1, WordBytes, Zenon
<1>4. w3 \in Seq(Byte) /\ Len(w3) = 2 /\ w3[2] = req[8]
  <2>1. /\ w3 \in Seq(Byte) /\ Len(w3) = IF 7 <= 8 THEN 8 - 7 + 1 ELSE 0
        /\ \A i \in 1..8 - 7 + 1 : w3[i] = req[7 + i - 1]
    BY <1>1, SubSeqProperties
  <2> HIDE DEF w3
  <2> QED
    BY <2>1
<1> HIDE DEF w1, w2, w3
<1> DEFINE r2 == w1 \o w2
           r3 == r2 \o w3
           r4 == r3 \o body
<1>5. r2 \in Seq(Byte) /\ Len(r2) = 6
  <2>1. r2 \in Seq(Byte) /\ Len(r2) = Len(w1) + Len(w2)
    BY <1>2, <1>3, ConcatProperties
  <2> HIDE DEF r2
  <2> QED
    BY <1>2, <1>3, <2>1
<1> HIDE DEF r2
<1>6. r3 \in Seq(Byte) /\ Len(r3) = 8 /\ r3[8] = req[8]
  <2>1. /\ r3 \in Seq(Byte) /\ Len(r3) = Len(r2) + Len(w3)
        /\ \A i \in 1..Len(r2) + Len(w3) : r3[i] = IF i <= Len(r2) THEN r2[i] ELSE w3[i - Len(r2)]
    BY <1>4, <1>5, ConcatProperties
  <2> HIDE DEF r3
  <2> QED
    BY <1>4, <1>5, <2>1
<1> HIDE DEF r3
<1>7. /\ r4 \in Seq(Byte) /\ Len(r4) = 8 + Len(body) /\ r4[8] = req[8]
      /\ \A i \in 1..Len(body) : r4[8 + i] = body[i]
  <2>1. /\ r4 \in Seq(Byte) /\ Len(r4) = Len(r3) + Len(body)
        /\ \A i \in 1..Len(r3) + Len(body) :
              r4[i] = IF i <= Len(r3) THEN r3[i] ELSE body[i - Len(r3)]
    BY <1>6, ConcatProperties
  <2> HIDE DEF r4
  <2>2. r4[8] = req[8]
    BY <1>0, <1>6, <2>1
  <2>3. ASSUME NEW i \in 1..Len(body) PROVE r4[8 + i] = body[i]
    <3>1. 8 + i \in 1..Len(r3) + Len(body) /\ ~(8 + i <= Len(r3)) /\ (8 + i) - Len(r3) = i
      BY <1>0, <1>6
    <3> QED
      BY <2>1, <3>1
  <2> QED
    BY <1>6, <2>1, <2>2, <2>3
<1>8. Answer(req, body) = r4
  BY DEF Answer, r2, r3, w1, w2, w3
<1> HIDE DEF r4
<1> QED
  BY <1>7, <1>8

LEMMA ExceptionByte == \A x \in 1..16 : x + 128 \in Byte
BY DEF Byte

LEMMA RefusalTyped ==
    ASSUME NEW req \in Seq(Byte), Len(req) >= 12, req[8] \in 1..16, NEW code \in Byte
    PROVE  Refusal(req, code) \in Seq(Byte)
<1>1. \A i \in 1..12 : req[i] \in Byte
  <2>1. Len(req) \in Nat /\ \A i \in 1..Len(req) : req[i] \in Byte
    BY LenProperties, ElementOfSeq
  <2> QED
    BY <2>1
<1> DEFINE w1 == SubSeq(req, 1, 4)
           w3 == <<req[7], req[8] + 128, code>>
<1>2. w1 \in Seq(Byte)
  BY <1>1, SubSeqProperties
<1>3. w3 \in Seq(Byte)
  <2>1. req[8] + 128 \in Byte
    BY ExceptionByte, Zenon
  <2>2. req[7] \in Byte
    BY <1>1
  <2> QED
    BY <2>1, <2>2
<1>4. Word(3) \in Seq(Byte)
  BY WordBytes
<1> HIDE DEF w1, w3
<1>5. w1 \o Word(3) \in Seq(Byte)
  BY <1>2, <1>4, ConcatProperties
<1>6. w1 \o Word(3) \o w3 \in Seq(Byte)
  BY <1>3, <1>5, ConcatProperties
<1> QED
  BY <1>6 DEF Refusal, w1, w3

LEMMA OctetByte ==
    ASSUME NEW f, \A j \in 0..7 : f[j] \in 0..1
    PROVE  Octet(f) \in Byte
<1>1. f[0] \in 0..1 /\ f[1] \in 0..1 /\ f[2] \in 0..1 /\ f[3] \in 0..1
      /\ f[4] \in 0..1 /\ f[5] \in 0..1 /\ f[6] \in 0..1 /\ f[7] \in 0..1
  OBVIOUS
<1> QED
  BY <1>1 DEF Octet, Byte

\* A bit comes out of its byte as it went in.
LEMMA OctetDigit ==
    ASSUME NEW f, \A j \in 0..7 : f[j] \in 0..1, NEW j \in 0..7
    PROVE  (Octet(f) \div 2 ^ j) % 2 = f[j]
<1>1. f[0] \in 0..1 /\ f[1] \in 0..1 /\ f[2] \in 0..1 /\ f[3] \in 0..1
      /\ f[4] \in 0..1 /\ f[5] \in 0..1 /\ f[6] \in 0..1 /\ f[7] \in 0..1
  OBVIOUS
<1>2. /\ 2 ^ 0 = 1 /\ 2 ^ 1 = 2 /\ 2 ^ 2 = 4 /\ 2 ^ 3 = 8
      /\ 2 ^ 4 = 16 /\ 2 ^ 5 = 32 /\ 2 ^ 6 = 64 /\ 2 ^ 7 = 128
  OBVIOUS
<1>3. /\ (Octet(f) \div 1) % 2 = f[0] /\ (Octet(f) \div 2) % 2 = f[1]
      /\ (Octet(f) \div 4) % 2 = f[2] /\ (Octet(f) \div 8) % 2 = f[3]
      /\ (Octet(f) \div 16) % 2 = f[4] /\ (Octet(f) \div 32) % 2 = f[5]
      /\ (Octet(f) \div 64) % 2 = f[6] /\ (Octet(f) \div 128) % 2 = f[7]
  BY <1>1 DEF Octet
<1>4. j \in {0, 1, 2, 3, 4, 5, 6, 7}
  OBVIOUS
<1> HIDE DEF Octet
<1>5. CASE j = 0
  BY <1>2, <1>3, <1>5
<1>6. CASE j = 1
  BY <1>2, <1>3, <1>6
<1>7. CASE j = 2
  BY <1>2, <1>3, <1>7
<1>8. CASE j = 3
  BY <1>2, <1>3, <1>8
<1>9. CASE j = 4
  BY <1>2, <1>3, <1>9
<1>10. CASE j = 5
  BY <1>2, <1>3, <1>10
<1>11. CASE j = 6
  BY <1>2, <1>3, <1>11
<1>12. CASE j = 7
  BY <1>2, <1>3, <1>12
<1> QED
  BY <1>4, <1>5, <1>6, <1>7, <1>8, <1>9, <1>10, <1>11, <1>12

LEMMA PackedBits ==
    ASSUME NEW bits, NEW n \in Nat, Len(bits) = n, \A k \in 1..n : bits[k] \in 0..1
    PROVE  /\ PackBits(bits) \in Seq(Byte) /\ Len(PackBits(bits)) = (n + 7) \div 8
           /\ \A k \in 1..n :
                 (PackBits(bits)[1 + ((k - 1) \div 8)] \div 2 ^ ((k - 1) % 8)) % 2 = bits[k]
<1> DEFINE eight(b) == [j \in 0..7 |-> LET k == 8 * (b - 1) + j + 1
                                       IN  IF k <= Len(bits) THEN bits[k] ELSE 0]
           m == (n + 7) \div 8
<1>1. PackBits(bits) = [b \in 1..m |-> Octet(eight(b))]
  BY DEF PackBits
<1>2. m \in Nat
  OBVIOUS
<1>3. ASSUME NEW b \in 1..m PROVE \A j \in 0..7 : eight(b)[j] \in 0..1
  <2>1. ASSUME NEW j \in 0..7, 8 * (b - 1) + j + 1 <= n PROVE bits[8 * (b - 1) + j + 1] \in 0..1
    <3>1. 8 * (b - 1) + j + 1 \in 1..n
      BY <2>1
    <3> QED
      BY <3>1
  <2> QED
    BY <2>1
<1>4. \A b \in 1..m : Octet(eight(b)) \in Byte
  <2> HIDE DEF eight, m
  <2> QED
    BY <1>3, OctetByte
<1>5. PackBits(bits) \in [1..m -> Byte]
  <2> HIDE DEF eight, m
  <2> QED
    BY <1>1, <1>4
<1>6. PackBits(bits) \in Seq(Byte) /\ Len(PackBits(bits)) = m
  <2> HIDE DEF m
  <2>1. PackBits(bits) \in Seq(Byte)
    BY <1>2, <1>5, IsASeq
  <2> QED
    BY <1>2, <1>5, <2>1, LenProperties
<1>7. ASSUME NEW k \in 1..n
      PROVE  (PackBits(bits)[1 + ((k - 1) \div 8)] \div 2 ^ ((k - 1) % 8)) % 2 = bits[k]
  <2> DEFINE b == 1 + ((k - 1) \div 8)
             j == (k - 1) % 8
  <2>1. b \in 1..m /\ j \in 0..7 /\ 8 * (b - 1) + j + 1 = k
    OBVIOUS
  <2>2. eight(b)[j] = bits[k]
    <3> HIDE DEF b, j
    <3>1. eight(b)[j] = IF 8 * (b - 1) + j + 1 <= Len(bits) THEN bits[8 * (b - 1) + j + 1] ELSE 0
      BY <2>1
    <3> QED
      BY <2>1, <3>1, SMTT(30)
  <2>3. PackBits(bits)[b] = Octet(eight(b))
    <3> HIDE DEF b, j, eight, m
    <3> QED
      BY <1>1, <2>1
  <2>4. (Octet(eight(b)) \div 2 ^ j) % 2 = eight(b)[j]
    <3> HIDE DEF b, j, eight, m
    <3> QED
      BY <1>3, <2>1, OctetDigit
  <2> HIDE DEF eight, m
  <2> QED
    BY <2>2, <2>3, <2>4
<1> QED
  BY <1>6, <1>7

LEMMA WordsPlaces ==
    ASSUME NEW values, NEW n \in Nat, Len(values) = n, NEW k \in 1..n
    PROVE  /\ Words(values)[2 * k - 1] = Word(values[k])[1]
           /\ Words(values)[2 * k] = Word(values[k])[2]
<1>1. /\ 2 * k - 1 \in 1..(2 * n) /\ 2 * k \in 1..(2 * n)
      /\ ((2 * k - 1) + 1) \div 2 = k /\ (2 * k + 1) \div 2 = k
      /\ 2 - ((2 * k - 1) % 2) = 1 /\ 2 - ((2 * k) % 2) = 2
  OBVIOUS
<1>2. \A b \in 1..(2 * n) : Words(values)[b] = Word(values[(b + 1) \div 2])[2 - (b % 2)]
  BY DEF Words
<1>3. Words(values)[2 * k - 1] = Word(values[((2 * k - 1) + 1) \div 2])[2 - ((2 * k - 1) % 2)]
  BY <1>1, <1>2
<1>4. Words(values)[2 * k] = Word(values[(2 * k + 1) \div 2])[2 - ((2 * k) % 2)]
  BY <1>1, <1>2
<1> QED
  BY <1>1, <1>3, <1>4

LEMMA CountedData ==
    ASSUME NEW data \in Seq(Byte), Len(data) \in Byte
    PROVE  /\ <<Len(data)>> \o data \in Seq(Byte)
           /\ Len(<<Len(data)>> \o data) = 1 + Len(data)
           /\ \A i \in 1..Len(data) : (<<Len(data)>> \o data)[1 + i] = data[i]
<1> DEFINE w == <<Len(data)>>
           r == w \o data
<1>1. w \in Seq(Byte) /\ Len(w) = 1
  OBVIOUS
<1>2. Len(data) \in Nat
  BY LenProperties
<1> HIDE DEF w
<1>3. /\ r \in Seq(Byte) /\ Len(r) = Len(w) + Len(data)
      /\ \A i \in 1..Len(w) + Len(data) : r[i] = IF i <= Len(w) THEN w[i] ELSE data[i - Len(w)]
  BY <1>1, ConcatProperties
<1> HIDE DEF r
<1>4. ASSUME NEW i \in 1..Len(data) PROVE r[1 + i] = data[i]
  <2>1. 1 + i \in 1..Len(w) + Len(data) /\ ~(1 + i <= Len(w)) /\ (1 + i) - Len(w) = i
    BY <1>1, <1>2
  <2> QED
    BY <1>3, <2>1
<1> QED
  BY <1>1, <1>3, <1>4 DEF r, w

\* What is kept of the types: bits stay bits.
TypeInv == TypeOK /\ mem \in Memory

LEMMA TypeInit == Init => TypeInv
<1> SUFFICES ASSUME Init PROVE TypeInv
  OBVIOUS
<1>1. op \in Ops
  BY ContentsAssumption DEF Init
<1>2. mem \in Memory
  BY ContentsAssumption DEF Init
<1>3. msg_id \in Nat
  BY ContentsAssumption DEF Init
<1>4. 0 \in Byte
  BY DEF Byte
<1>5. mem \in [{"coils", "bits", "regs", "inputs"} -> [Addresses -> Uint16]]
  BY <1>2 DEF Memory
<1>6. request \in Seq(Byte) /\ reply \in Seq(Byte) /\ buffer \in Seq(Uint16)
  BY DEF Init
<1>7. /\ connected \in BOOLEAN /\ link \in {"none", "up", "fin", "rst", "closed"}
      /\ phase \in {"idle", "sent", "answered", "returned"}
      /\ outcome \in {"ok", "raised", "rejected"} /\ refused = 0
  BY DEF Init
<1> QED
  BY <1>1, <1>2, <1>3, <1>4, <1>5, <1>6, <1>7 DEF TypeInv, TypeOK

\* A request on its way names the function of the call.
LEMMA SentRequest ==
    ASSUME Inv, phase = "sent"
    PROVE  /\ op \in Ops /\ mem = before /\ Sane(op)
           /\ Len(request) >= 12 /\ request[8] = Code[op.fn] /\ request[8] \in 1..16
           /\ Function(request) = op.fn
<1>1. op \in Ops /\ mem = before
  BY DEF Inv, Single, Asked
<1>2. Arguments
  BY ClientAssumption
<1>3. Sane(op)
  BY <1>1, <1>2, SaneOps, Zenon
<1>4. CASE op.fn \in MultipleWrites
  <2>1. Len(request) >= 13 /\ request[8] = Code[op.fn] /\ \E S : request \in Seq(S)
    BY <1>4 DEF Inv, WriteInv, Writes, Unanswered
  <2>2. Len(request) \in Nat
    BY <2>1, LenProperties
  <2> QED
    BY <1>1, <1>3, <2>1, <2>2, CodeRange, FunctionOf DEF Sane
<1>5. CASE op.fn \notin MultipleWrites
  <2>1. Len(request) = 12 /\ request[8] = Code[op.fn]
    BY <1>5, Zenon DEF Inv, Single, Asked, Short
  <2> QED
    BY <1>1, <1>3, <2>1, CodeRange, FunctionOf DEF Sane
<1> QED
  BY <1>4, <1>5

LEMMA OperandWord ==
    ASSUME NEW req, req[11] \in Byte, req[12] \in Byte
    PROVE  Operand(req) \in Uint16
BY DEF Operand, Byte, Uint16

LEMMA Rewritten ==
    ASSUME NEW m \in Memory, NEW T \in {"coils", "regs"}, NEW f \in [Addresses -> Uint16],
           T = "coils" => \A a \in Addresses : f[a] \in 0..1
    PROVE  [m EXCEPT ![T] = f] \in Memory
BY DEF Memory

\* What a served write leaves are words, and bits where bits were.
LEMMA ServedTyped ==
    ASSUME Inv, TypeInv, phase = "sent", WellFormed(request), Function(request) \notin Reads
    PROVE  [mem EXCEPT ![Table(Function(request))] =
                [a \in Addresses |-> IF a \in Span(request) THEN Written(request, a) ELSE @[a]]]
              \in Memory
<1>1. op \in Ops /\ Sane(op) /\ Len(request) >= 12 /\ Function(request) = op.fn
  BY SentRequest, Zenon
<1>2. op.fn \notin MultipleWrites
  BY DEF Inv, WriteInv, Writes, Unanswered
<1>3. op.fn \in SingleWrites
  BY <1>1, <1>2, Zenon DEF Sane, Kind
<1>4. mem \in Memory /\ request \in Seq(Byte)
  BY DEF TypeInv, TypeOK
<1>5. Operand(request) \in Uint16
  <2>1. Len(request) \in Nat /\ \A i \in 1..Len(request) : request[i] \in Byte
    BY <1>4, LenProperties, ElementOfSeq
  <2>2. request[11] \in Byte /\ request[12] \in Byte
    BY <1>1, <2>1
  <2> QED
    BY <2>2, OperandWord, Zenon
<1> DEFINE T == Table(op.fn)
           f == [a \in Addresses |-> IF a \in Span(request) THEN Written(request, a) ELSE mem[T][a]]
<1>6. mem[T] \in [Addresses -> Uint16] /\ T \in {"coils", "regs"}
  <2>1. T \in {"coils", "regs"}
    BY <1>3 DEF SingleWrites, Table
  <2> QED
    BY <1>4, <2>1 DEF Memory
<1>7. CASE op.fn = "WriteReg"
  <2>1. \A a : Written(request, a) = Operand(request)
    BY <1>1, <1>7 DEF Written
  <2>2. f \in [Addresses -> Uint16] /\ T = "regs"
    BY <1>5, <1>6, <1>7, <2>1 DEF Table
  <2>3. [mem EXCEPT ![T] = f] \in Memory
    <3> HIDE DEF f, T
    <3> QED
      BY <1>4, <2>2, Rewritten
  <2> QED
    BY <1>1, <1>6, <2>3
<1>8. CASE op.fn = "WriteCoil"
  <2>1. \A a : Written(request, a) = Operand(request) \div 65280
    BY <1>1, <1>8 DEF Written
  <2>2. Operand(request) \in {0, 65280}
    BY <1>1, <1>8 DEF WellFormed
  <2>3. Operand(request) \div 65280 \in 0..1 /\ \A x \in 0..1 : x \in Uint16
    BY <2>2 DEF Uint16
  <2>4. T = "coils"
    BY <1>8 DEF Table
  <2>5. \A a \in Addresses : mem[T][a] \in 0..1
    BY <1>4, <2>4 DEF Memory
  <2>6. f \in [Addresses -> Uint16] /\ \A a \in Addresses : f[a] \in 0..1
    BY <1>6, <2>1, <2>3, <2>5
  <2>7. [mem EXCEPT ![T] = f] \in Memory
    <3> HIDE DEF f, T
    <3> QED
      BY <1>4, <1>6, <2>6, Rewritten
  <2> QED
    BY <1>1, <1>6, <2>7
<1> QED
  BY <1>3, <1>7, <1>8 DEF SingleWrites

LEMMA ByteAtByte ==
    ASSUME NEW r \in Seq(Byte), NEW k \in Nat
    PROVE  ByteAt(r, k) \in Byte
<1>1. Len(r) \in Nat /\ 0 \in Byte
  BY LenProperties DEF Byte
<1>2. \A i \in 1..Len(r) : r[i] \in Byte
  BY ElementOfSeq
<1>3. k < Len(r) => k + 1 \in 1..Len(r)
  BY <1>1
<1> QED
  BY <1>1, <1>2, <1>3 DEF ByteAt

\* Within the buffer of a reply, and as far behind it as any amount reaches.
LEMMA ByteReadByte ==
    ASSUME NEW r \in Seq(Byte), NEW stack \in Stacks, NEW k \in Nat, k <= Furthest
    PROVE  ByteRead(r, stack, k) \in Byte
<1>0. Furthest \in Nat /\ BufferSize \in Nat
  BY DEF Furthest, BufferSize
<1>1. CASE k < BufferSize
  <2>1. ByteAt(r, k) \in Byte
    BY ByteAtByte
  <2> QED
    BY <1>1, <2>1 DEF ByteRead
<1>2. CASE ~(k < BufferSize)
  <2>1. k \in Past
    BY <1>0, <1>2 DEF Past
  <2>2. stack \in [Past -> Byte]
    BY ContentsAssumption
  <2> HIDE DEF Past
  <2>3. stack[k] \in Byte
    BY <2>1, <2>2
  <2> QED
    BY <1>2, <2>3 DEF ByteRead
<1> QED
  BY <1>1, <1>2

\* What a read stores are bits or words.
LEMMA StoredTyped ==
    ASSUME NEW r \in Seq(Byte), NEW stack \in Stacks, NEW n \in Uint16
    PROVE  RegistersIn(r, stack, n) \in Seq(Uint16) /\ BitsIn(r, stack, n) \in Seq(Uint16)
<1>0. n \in Nat /\ Furthest \in Nat /\ 8 + 2 * n <= Furthest
  BY DEF Uint16, Furthest
<1>1. ASSUME NEW k \in 1..n
      PROVE  256 * ByteRead(r, stack, 7 + 2 * k) + ByteRead(r, stack, 8 + 2 * k) \in Uint16
  <2>1. /\ 7 + 2 * k \in Nat /\ 7 + 2 * k <= Furthest
        /\ 8 + 2 * k \in Nat /\ 8 + 2 * k <= Furthest
    BY <1>0
  <2>2. ByteRead(r, stack, 7 + 2 * k) \in Byte /\ ByteRead(r, stack, 8 + 2 * k) \in Byte
    BY <2>1, ByteReadByte
  <2>3. \A x, y \in Byte : 256 * x + y \in Uint16
    BY DEF Byte, Uint16
  <2> QED
    BY <2>2, <2>3
<1>2. ASSUME NEW k \in 1..n
      PROVE  (ByteRead(r, stack, 9 + ((k - 1) \div 8)) \div 2 ^ ((k - 1) % 8)) % 2 \in Uint16
  <2>1. /\ 9 + ((k - 1) \div 8) \in Nat /\ 9 + ((k - 1) \div 8) <= Furthest
        /\ (k - 1) % 8 \in 0..7
    BY <1>0
  <2> DEFINE x == ByteRead(r, stack, 9 + ((k - 1) \div 8))
             y == 2 ^ ((k - 1) % 8)
  <2>2. x \in Byte
    BY <2>1, ByteReadByte
  <2>3. y \in {1, 2, 4, 8, 16, 32, 64, 128}
    BY <2>1, Powers
  <2>4. \A b \in Byte : \A p \in {1, 2, 4, 8, 16, 32, 64, 128} : (b \div p) % 2 \in Uint16
    BY DEF Byte, Uint16
  <2> HIDE DEF x, y
  <2>5. (x \div y) % 2 \in Uint16
    BY <2>2, <2>3, <2>4
  <2> QED
    BY <2>5 DEF x, y
<1>3. RegistersIn(r, stack, n) \in [1..n -> Uint16]
  BY <1>1 DEF RegistersIn
<1>4. BitsIn(r, stack, n) \in [1..n -> Uint16]
  BY <1>2 DEF BitsIn
<1> QED
  BY <1>0, <1>3, <1>4, IsASeq

LEMMA CallTyped ==
    ASSUME Inv, TypeInv, NEW o \in Ops, Call(o)
    PROVE  TypeInv'
<1>1. /\ op' = o /\ mem' = mem /\ buffer' = <<>> /\ reply' = <<>> /\ refused' = 0
      /\ UNCHANGED <<connected, link>>
  BY DEF Call, connection
<1>2. /\ phase' \in {"returned", "sent"} /\ outcome' \in {"ok", "raised", "rejected"}
      /\ request' \in Seq(Byte) /\ msg_id' \in Nat
  <2>0. msg_id \in Nat /\ connected \in BOOLEAN
    BY DEF TypeInv, TypeOK
  <2>1. ASSUME NEW how \in {"raised", "rejected"}, Refused(how)
        PROVE  /\ phase' = "returned" /\ outcome' \in {"ok", "raised", "rejected"}
               /\ request' \in Seq(Byte) /\ msg_id' \in Nat
    BY <2>0, <2>1 DEF Refused
  <2>2. CASE ~connected \/ TooMuch(o)
    <3>1. Refused("raised") \/ Refused("rejected")
      BY <2>0, <2>2 DEF Call
    <3> QED
      BY <2>1, <3>1
  <2>3. CASE connected /\ ~TooMuch(o)
    <3>1. /\ phase' = "sent" /\ outcome' = "ok" /\ msg_id' = msg_id + 1
          /\ \E heap \in HeapBytes : request' = Request(msg_id, o, heap)
      BY <2>3 DEF Call
    <3>2. PICK heap \in HeapBytes : request' = Request(msg_id, o, heap)
      BY <3>1
    <3>3. heap \in Byte /\ msg_id \in Int /\ Arguments
      BY <2>0, ContentsAssumption, ClientAssumption
    <3>4. request' \in Seq(Byte)
      BY <3>2, <3>3, RequestBytes, Zenon
    <3>5. msg_id' \in Nat
      BY <2>0, <3>1
    <3> QED
      BY <3>1, <3>4, <3>5
  <2> QED
    BY <2>0, <2>2, <2>3
<1>3. 0 \in Byte
  BY DEF Byte
<1>4. /\ connected' \in BOOLEAN /\ link' \in {"none", "up", "fin", "rst", "closed"}
      /\ mem' \in [{"coils", "bits", "regs", "inputs"} -> [Addresses -> Uint16]]
      /\ mem' \in Memory
  BY <1>1 DEF TypeInv, TypeOK
<1>5. buffer' \in Seq(Uint16) /\ reply' \in Seq(Byte)
  BY <1>1
<1> QED
  BY <1>1, <1>2, <1>3, <1>4, <1>5 DEF TypeInv, TypeOK

\* A read on its way, and once the PLC has answered: it was refused, or it has
\* the values of the table in its bytes.
Decoded(o, r, stack) ==
    IF o.fn \in BitReads THEN BitsIn(r, stack, o.amount) ELSE RegistersIn(r, stack, o.amount)

Turned == refused # 0 /\ Len(reply) = 9 /\ reply[8] = Code[op.fn] + 128 /\ reply[9] = refused
Served ==
    /\ refused = 0 /\ reply # <<>> /\ ~ErrorIn(reply, Code[op.fn])
    /\ InMemory(op)
    /\ \A stack \in Stacks :
          Decoded(op, reply, stack) = Slice(before[Table(op.fn)], op.address, op.amount)

AskedRead ==
    phase = "sent" /\ op.fn \in Reads =>
        reply = <<>> /\ refused = 0 /\ op.address \in Uint16 /\ op.amount \in Uint16
AnsweredRead ==
    phase = "answered" /\ op.fn \in Reads =>
        op \in Ops /\ op.amount \in Uint16 /\ (Turned \/ Served)
ReadInv == AskedRead /\ AnsweredRead /\ ReadsMatch
Whole == Inv /\ TypeInv /\ ReadInv

LEMMA WordValue == \A x \in Uint16 : 256 * Word(x)[1] + Word(x)[2] = x
<1> TAKE x \in Uint16
<1>1. x \in Nat /\ x <= 65535
  BY DEF Uint16
<1> QED
  BY <1>1, WordBack

\* What the PLC takes from its tables for a read it serves: as many values as were
\* asked for, from the address that was meant.
LEMMA ReadTaken ==
    ASSUME Whole, phase = "sent", op.fn \in Reads, WellFormed(request),
           Span(request) \subseteq Addresses
    PROVE  /\ op.address \in Nat /\ op.amount \in Nat
           /\ Function(request) = op.fn
           /\ AddressOf(request) = op.address /\ Quantity(request) = op.amount
           /\ op.amount <= IF op.fn \in BitReads THEN 2000 ELSE 125
           /\ InMemory(op)
<1>1. op \in Ops /\ Function(request) = op.fn
  BY SentRequest, Zenon DEF Whole
<1>2. op.address \in Nat /\ op.amount \in Nat
  <2>1. ReadArguments(op)
    BY <1>1, ClientAssumption, Zenon DEF Arguments
  <2> QED
    BY <2>1 DEF ReadArguments
<1>3. op.address \in Uint16 /\ op.amount \in Uint16
  BY DEF Whole, ReadInv, AskedRead
<1>4. /\ request[9] = Word(op.address)[1] /\ request[10] = Word(op.address)[2]
      /\ request[11] = Word(op.amount)[1] /\ request[12] = Word(op.amount)[2]
  <2>1. op.fn \notin MultipleWrites
    BY DEF Reads, MultipleWrites
  <2>2. LastWord(op) = op.amount
    BY Zenon DEF LastWord
  <2> QED
    BY <2>1, <2>2, Zenon DEF Whole, Inv, Single, Asked, Short
<1>5. AddressOf(request) = op.address
  <2>1. 256 * Word(op.address)[1] + Word(op.address)[2] = op.address
    BY <1>3, WordValue, Zenon
  <2> QED
    BY <1>4, <2>1, Zenon DEF AddressOf
<1>6. Operand(request) = op.amount
  <2>1. 256 * Word(op.amount)[1] + Word(op.amount)[2] = op.amount
    BY <1>3, WordValue, Zenon
  <2> QED
    BY <1>4, <2>1, Zenon DEF Operand
<1>7. Quantity(request) = op.amount
  <2>1. op.fn \notin SingleWrites
    BY DEF Reads, SingleWrites
  <2> QED
    BY <1>1, <1>6, <2>1, Zenon DEF Quantity
<1>8. op.amount <= IF op.fn \in BitReads THEN 2000 ELSE 125
  <2> DEFINE Limit(fn) == IF fn \in BitReads THEN 2000 ELSE 125
  <2>1. Quantity(request) <= Limit(Function(request))
    BY <1>1 DEF WellFormed
  <2> QED
    BY <1>1, <1>7, <2>1
<1>9. InMemory(op)
  BY <1>5, <1>7, Zenon DEF InMemory, Span
<1> QED
  BY <1>1, <1>2, <1>5, <1>7, <1>8, <1>9

\* What a slice of a table holds.
LEMMA SliceHolds ==
    ASSUME NEW table, NEW S, \A a \in Addresses : table[a] \in S, NEW address \in Nat,
           NEW n \in Nat, address..(address + n - 1) \subseteq Addresses
    PROVE  /\ Len(Slice(table, address, n)) = n
           /\ Slice(table, address, n) = [k \in 1..n |-> Slice(table, address, n)[k]]
           /\ \A k \in 1..n : Slice(table, address, n)[k] \in S
<1>1. ASSUME NEW k \in 1..n PROVE address + k - 1 \in Addresses
  <2>1. address + k - 1 \in address..(address + n - 1)
    OBVIOUS
  <2> QED
    BY <2>1
<1>2. \A k \in 1..n : table[address + k - 1] \in S
  BY <1>1
<1>3. Slice(table, address, n) = [k \in 1..n |-> table[address + k - 1]]
  BY DEF Slice
<1>4. Len(Slice(table, address, n)) = n
  BY <1>3
<1> QED
  BY <1>2, <1>3, <1>4

\* A reply with data: the function code, so no exception, and the data from the
\* tenth byte on.
LEMMA DataReply ==
    ASSUME NEW req \in Seq(Byte), Len(req) = 12, NEW func \in 1..16, req[8] = func,
           NEW data \in Seq(Byte), Len(data) \in Byte
    PROVE  LET r == Answer(req, <<Len(data)>> \o data)
           IN
           /\ r \in Seq(Byte) /\ r # <<>> /\ ~ErrorIn(r, func)
           /\ \A i \in 1..Len(data) : ByteAt(r, 8 + i) = data[i]
<1> DEFINE body == <<Len(data)>> \o data
           r == Answer(req, body)
<1>1. /\ body \in Seq(Byte) /\ Len(body) = 1 + Len(data)
      /\ \A i \in 1..Len(data) : body[1 + i] = data[i]
  BY CountedData
<1> HIDE DEF body
<1>2. /\ r \in Seq(Byte) /\ Len(r) = 8 + Len(body) /\ r[8] = req[8]
      /\ \A i \in 1..Len(body) : r[8 + i] = body[i]
  BY <1>1, AnswerPlaces
<1> HIDE DEF r
<1>3. Len(data) \in Nat /\ Len(r) = 9 + Len(data)
  BY <1>1, <1>2, LenProperties
<1>4. ByteAt(r, 7) = func
  BY <1>2, <1>3 DEF ByteAt
<1>5. ~ErrorIn(r, func)
  <2>1. func # func + 128
    OBVIOUS
  <2> QED
    BY <1>4, <2>1 DEF ErrorIn
<1>6. ASSUME NEW i \in 1..Len(data) PROVE ByteAt(r, 8 + i) = data[i]
  <2>1. 8 + i < Len(r) /\ 1 + i \in 1..Len(body) /\ (8 + i) + 1 = 8 + (1 + i)
    BY <1>1, <1>3
  <2>2. ByteAt(r, 8 + i) = r[8 + (1 + i)]
    BY <2>1 DEF ByteAt
  <2> QED
    BY <1>1, <1>2, <2>1, <2>2
<1>7. r # <<>>
  BY <1>3
<1> QED
  BY <1>2, <1>5, <1>6, <1>7 DEF r, body

\* A read that the PLC serves: whatever address, amount and values, the bytes of
\* the answer give the values of the table, in order.
LEMMA ServedRead ==
    ASSUME Whole, phase = "sent", op.fn \in Reads, WellFormed(request),
           Span(request) \subseteq Addresses, NEW r, r = Answer(request, ReadBody(request, mem))
    PROVE  /\ r \in Seq(Byte) /\ r # <<>> /\ ~ErrorIn(r, Code[op.fn])
           /\ \A stack \in Stacks :
                 Decoded(op, r, stack) = Slice(before[Table(op.fn)], op.address, op.amount)
<1> DEFINE n == op.amount
           T == Table(op.fn)
           values == Slice(mem[T], op.address, n)
<1>1. /\ op.address \in Nat /\ n \in Nat
      /\ Function(request) = op.fn /\ AddressOf(request) = op.address /\ Quantity(request) = n
      /\ n <= IF op.fn \in BitReads THEN 2000 ELSE 125
      /\ op.address..(op.address + n - 1) \subseteq Addresses
  BY ReadTaken DEF InMemory
<1>2. /\ mem = before /\ request \in Seq(Byte) /\ mem \in Memory
      /\ request[8] = Code[op.fn] /\ Code[op.fn] \in 1..16
  BY SentRequest DEF Whole, TypeInv, TypeOK
<1>3. Len(request) = 12
  <2>1. op.fn \notin MultipleWrites
    BY DEF Reads, MultipleWrites
  <2> QED
    BY <2>1, Zenon DEF Whole, Inv, Single, Asked, Short
<1>4. CASE op.fn \in BitReads
  <2> DEFINE data == PackBits(values)
  <2>1. T \in {"coils", "bits"}
    BY <1>4 DEF BitReads, Table
  <2>2. \A a \in Addresses : mem[T][a] \in 0..1
    BY <1>2, <2>1 DEF Memory
  <2>3. /\ Len(values) = n /\ values = [k \in 1..n |-> values[k]]
        /\ \A k \in 1..n : values[k] \in 0..1
    <3> DEFINE table == mem[T]
               S == 0..1
               address == op.address
    <3>1. \A a \in Addresses : table[a] \in S
      BY <2>2
    <3>2. address \in Nat /\ n \in Nat /\ address..(address + n - 1) \subseteq Addresses
      BY <1>1
    <3> HIDE DEF table, S, address, n
    <3>3. /\ Len(Slice(table, address, n)) = n
          /\ Slice(table, address, n) = [k \in 1..n |-> Slice(table, address, n)[k]]
          /\ \A k \in 1..n : Slice(table, address, n)[k] \in S
      BY <3>1, <3>2, SliceHolds, Zenon
    <3> QED
      BY <3>3 DEF table, S, address, n
  <2> HIDE DEF values
  <2>4. /\ data \in Seq(Byte) /\ Len(data) = (n + 7) \div 8
        /\ \A k \in 1..n : (data[1 + ((k - 1) \div 8)] \div 2 ^ ((k - 1) % 8)) % 2 = values[k]
    BY <1>1, <2>3, PackedBits
  <2> HIDE DEF data
  <2>5. Len(data) \in Byte
    BY <1>1, <1>4, <2>4 DEF Byte
  <2>6. r = Answer(request, <<Len(data)>> \o data)
    BY <1>1, <1>4 DEF ReadBody, data, values
  <2>7. /\ r \in Seq(Byte) /\ r # <<>> /\ ~ErrorIn(r, Code[op.fn])
        /\ \A i \in 1..Len(data) : ByteAt(r, 8 + i) = data[i]
    <3> DEFINE func == Code[op.fn]
    <3>1. func \in 1..16 /\ request[8] = func
      BY <1>2
    <3> HIDE DEF func
    <3>2. /\ r \in Seq(Byte) /\ r # <<>> /\ ~ErrorIn(r, func)
          /\ \A i \in 1..Len(data) : ByteAt(r, 8 + i) = data[i]
      <4>1. request \in Seq(Byte) /\ data \in Seq(Byte)
        BY <1>2, <2>4
      <4> DEFINE answer == Answer(request, <<Len(data)>> \o data)
      <4>2. /\ answer \in Seq(Byte) /\ answer # <<>> /\ ~ErrorIn(answer, func)
            /\ \A i \in 1..Len(data) : ByteAt(answer, 8 + i) = data[i]
        BY <1>3, <3>1, <4>1, <2>5, DataReply
      <4>3. r = answer
        BY <2>6
      <4> HIDE DEF answer
      <4> QED
        BY <4>2, <4>3
    <3> QED
      BY <3>2 DEF func
  <2>8. ASSUME NEW stack \in Stacks, NEW k \in 1..n
        PROVE  (ByteRead(r, stack, 9 + ((k - 1) \div 8)) \div 2 ^ ((k - 1) % 8)) % 2 = values[k]
    <3> DEFINE i == 1 + ((k - 1) \div 8)
    <3>1. i \in 1..Len(data) /\ 9 + ((k - 1) \div 8) = 8 + i /\ 8 + i < BufferSize
      BY <1>1, <1>4, <2>4 DEF BufferSize
    <3>2. ByteRead(r, stack, 9 + ((k - 1) \div 8)) = data[i]
      <4> HIDE DEF i
      <4> QED
        BY <2>7, <3>1 DEF ByteRead
    <3> QED
      BY <2>4, <3>2
  <2>9. \A stack \in Stacks : BitsIn(r, stack, n) = values
    BY <2>3, <2>8 DEF BitsIn
  <2>10. \A stack \in Stacks : Decoded(op, r, stack) = values
    BY <1>4, <2>9 DEF Decoded
  <2> QED
    BY <1>2, <2>7, <2>10 DEF values
<1>5. CASE op.fn \notin BitReads
  <2> DEFINE data == Words(values)
  <2>1. T \in {"regs", "inputs"}
    BY <1>5 DEF Reads, BitReads, Table
  <2>2. \A a \in Addresses : mem[T][a] \in Uint16
    BY <1>2, <2>1 DEF Memory
  <2>3. /\ Len(values) = n /\ values = [k \in 1..n |-> values[k]]
        /\ \A k \in 1..n : values[k] \in Uint16
    <3> DEFINE table == mem[T]
               S == Uint16
               address == op.address
    <3>1. \A a \in Addresses : table[a] \in S
      BY <2>2
    <3>2. address \in Nat /\ n \in Nat /\ address..(address + n - 1) \subseteq Addresses
      BY <1>1
    <3> HIDE DEF table, S, address, n
    <3>3. /\ Len(Slice(table, address, n)) = n
          /\ Slice(table, address, n) = [k \in 1..n |-> Slice(table, address, n)[k]]
          /\ \A k \in 1..n : Slice(table, address, n)[k] \in S
      BY <3>1, <3>2, SliceHolds, Zenon
    <3> QED
      BY <3>3 DEF table, S, address, n
  <2>4. \A k \in 1..n : values[k] \in Int
    <3>1. \A x \in Uint16 : x \in Int
      BY DEF Uint16
    <3> HIDE DEF n, values
    <3> QED
      BY <2>3, <3>1, Zenon
  <2> HIDE DEF values
  <2>5. data \in Seq(Byte) /\ Len(data) = 2 * n
    <3> HIDE DEF n
    <3> QED
      BY <1>1, <2>3, <2>4, WordsBytes
  <2>6. \A k \in 1..n : data[2 * k - 1] = Word(values[k])[1] /\ data[2 * k] = Word(values[k])[2]
    BY <1>1, <2>3, WordsPlaces
  <2> HIDE DEF data
  <2>7. Len(data) \in Byte
    BY <1>1, <1>5, <2>5 DEF Byte
  <2>8. r = Answer(request, <<Len(data)>> \o data)
    BY <1>1, <1>5 DEF ReadBody, data, values
  <2>9. /\ r \in Seq(Byte) /\ r # <<>> /\ ~ErrorIn(r, Code[op.fn])
        /\ \A i \in 1..Len(data) : ByteAt(r, 8 + i) = data[i]
    <3> DEFINE func == Code[op.fn]
    <3>1. func \in 1..16 /\ request[8] = func
      BY <1>2
    <3> HIDE DEF func
    <3>2. /\ r \in Seq(Byte) /\ r # <<>> /\ ~ErrorIn(r, func)
          /\ \A i \in 1..Len(data) : ByteAt(r, 8 + i) = data[i]
      <4>1. request \in Seq(Byte) /\ data \in Seq(Byte)
        BY <1>2, <2>5
      <4> DEFINE answer == Answer(request, <<Len(data)>> \o data)
      <4>2. /\ answer \in Seq(Byte) /\ answer # <<>> /\ ~ErrorIn(answer, func)
            /\ \A i \in 1..Len(data) : ByteAt(answer, 8 + i) = data[i]
        BY <1>3, <3>1, <4>1, <2>7, DataReply
      <4>3. r = answer
        BY <2>8
      <4> HIDE DEF answer
      <4> QED
        BY <4>2, <4>3
    <3> QED
      BY <3>2 DEF func
  <2>10. ASSUME NEW stack \in Stacks, NEW k \in 1..n
         PROVE  256 * ByteRead(r, stack, 7 + 2 * k) + ByteRead(r, stack, 8 + 2 * k) = values[k]
    <3>1. /\ 2 * k - 1 \in 1..Len(data) /\ 2 * k \in 1..Len(data)
          /\ 8 + (2 * k - 1) = 7 + 2 * k
          /\ 7 + 2 * k < BufferSize /\ 8 + 2 * k < BufferSize
      BY <1>1, <1>5, <2>5 DEF BufferSize
    <3>2. ByteAt(r, 8 + (2 * k - 1)) = data[2 * k - 1] /\ ByteAt(r, 8 + 2 * k) = data[2 * k]
      <4> DEFINE i == 2 * k - 1
                 j == 2 * k
      <4>1. i \in 1..Len(data) /\ j \in 1..Len(data)
        BY <3>1
      <4> HIDE DEF i, j
      <4>2. ByteAt(r, 8 + i) = data[i] /\ ByteAt(r, 8 + j) = data[j]
        BY <2>9, <4>1
      <4> QED
        BY <4>2 DEF i, j
    <3>3. /\ ByteRead(r, stack, 7 + 2 * k) = Word(values[k])[1]
          /\ ByteRead(r, stack, 8 + 2 * k) = Word(values[k])[2]
      BY <2>6, <3>1, <3>2 DEF ByteRead
    <3>4. 256 * Word(values[k])[1] + Word(values[k])[2] = values[k]
      BY <2>3, WordValue, Zenon
    <3> QED
      BY <3>3, <3>4
  <2>11. \A stack \in Stacks : RegistersIn(r, stack, n) = values
    BY <2>3, <2>10 DEF RegistersIn
  <2>12. \A stack \in Stacks : Decoded(op, r, stack) = values
    BY <1>5, <2>11 DEF Decoded
  <2> QED
    BY <1>2, <2>9, <2>12 DEF values
<1> QED
  BY <1>4, <1>5

LEMMA ReadWhole ==
    ASSUME NEW o \in Ops, o.fn \in Reads
    PROVE  o.address \in Nat /\ o.amount \in Nat
<1>1. ReadArguments(o)
  BY ClientAssumption, Zenon DEF Arguments
<1> QED
  BY <1>1 DEF ReadArguments

LEMMA CallReads ==
    ASSUME NEW o \in Ops, Call(o)
    PROVE  ReadInv'
<1>1. op' = o /\ reply' = <<>> /\ refused' = 0
  BY DEF Call
<1>2. CASE ~connected \/ TooMuch(o)
  <2>1. phase' = "returned" /\ outcome' \in {"raised", "rejected"}
    BY <1>2 DEF Call, Refused
  <2> QED
    BY <2>1 DEF ReadInv, AskedRead, AnsweredRead, ReadsMatch
<1>3. CASE connected /\ ~TooMuch(o)
  <2>1. phase' = "sent"
    BY <1>3 DEF Call
  <2>2. ASSUME o.fn \in Reads PROVE o.address \in Uint16 /\ o.amount \in Uint16
    <3>1. o.address \in Nat /\ o.amount \in Nat
      BY <2>2, ReadWhole, Zenon
    <3>2. o.address <= 65535 /\ o.amount <= 65535
      BY <1>3, <3>1 DEF TooMuch
    <3> QED
      BY <3>1, <3>2 DEF Uint16
  <2> QED
    BY <1>1, <2>1, <2>2 DEF ReadInv, AskedRead, AnsweredRead, ReadsMatch
<1> QED
  BY <1>2, <1>3

\* The PLC's step leaves the rest of the state alone.
PlcStep ==
    /\ phase = "sent" /\ phase' = "answered"
    /\ UNCHANGED <<connected, link, msg_id, op, request, outcome, buffer, before>>

LEMMA PlcTyped ==
    ASSUME TypeInv, PlcStep, mem' \in Memory, reply' \in Seq(Byte), refused' \in Byte
    PROVE  TypeInv'
<1>1. mem' \in [{"coils", "bits", "regs", "inputs"} -> [Addresses -> Uint16]]
  BY DEF Memory
<1>2. /\ connected \in BOOLEAN /\ link \in {"none", "up", "fin", "rst", "closed"}
      /\ msg_id \in Nat /\ op \in Ops /\ request \in Seq(Byte)
      /\ outcome \in {"ok", "raised", "rejected"} /\ buffer \in Seq(Uint16)
  BY DEF TypeInv, TypeOK
<1>3. /\ connected' = connected /\ link' = link /\ msg_id' = msg_id /\ op' = op
      /\ request' = request /\ outcome' = outcome /\ buffer' = buffer
      /\ phase' = "answered"
  BY DEF PlcStep
<1> QED
  BY <1>1, <1>2, <1>3 DEF TypeInv, TypeOK

LEMMA PlcRefuses ==
    ASSUME Whole, PlcStep, NEW code \in Byte, code # 0, Refuse(code)
    PROVE  TypeInv' /\ ReadInv'
<1>1. /\ op \in Ops /\ Len(request) >= 12 /\ request \in Seq(Byte) /\ mem \in Memory
      /\ request[8] = Code[op.fn] /\ request[8] \in 1..16
  BY SentRequest DEF Whole, PlcStep, TypeInv, TypeOK
<1>2. reply' = Refusal(request, code) /\ refused' = code /\ mem' = mem
  BY DEF Refuse
<1>3. /\ Refusal(request, code) \in Seq(Byte) /\ Len(Refusal(request, code)) = 9
      /\ Refusal(request, code)[8] = request[8] + 128 /\ Refusal(request, code)[9] = code
  BY <1>1, RefusalTyped, RefusalBytes
<1>4. TypeInv'
  BY <1>1, <1>2, <1>3, PlcTyped DEF Whole
<1>5. Turned'
  BY <1>1, <1>2, <1>3 DEF Turned, PlcStep
<1>6. phase = "sent" /\ phase' = "answered" /\ op' = op
  BY DEF PlcStep
<1>7. op.fn \in Reads => op.amount \in Uint16
  BY <1>6 DEF Whole, ReadInv, AskedRead
<1> QED
  BY <1>1, <1>4, <1>5, <1>6, <1>7 DEF ReadInv, AskedRead, AnsweredRead, ReadsMatch

LEMMA PlcServesRead ==
    ASSUME Whole, PlcStep, op.fn \in Reads, WellFormed(request),
           Span(request) \subseteq Addresses,
           reply' = Answer(request, ReadBody(request, mem)), UNCHANGED <<mem, refused>>
    PROVE  TypeInv' /\ ReadInv'
<1>0. phase = "sent" /\ phase' = "answered" /\ op' = op /\ before' = before
  BY DEF PlcStep
<1>1. /\ reply' \in Seq(Byte) /\ reply' # <<>> /\ ~ErrorIn(reply', Code[op.fn])
      /\ \A stack \in Stacks :
            Decoded(op, reply', stack) = Slice(before[Table(op.fn)], op.address, op.amount)
  BY <1>0, ServedRead, Zenon
<1>2. mem \in Memory /\ refused = 0 /\ op \in Ops /\ op.amount \in Uint16
  BY <1>0 DEF Whole, TypeInv, TypeOK, ReadInv, AskedRead
<1>3. 0 \in Byte
  BY DEF Byte
<1>4. TypeInv'
  BY <1>1, <1>2, <1>3, PlcTyped DEF Whole
<1>5. InMemory(op)
  BY <1>0, ReadTaken, Zenon
<1>6. ErrorIn(reply, Code[op.fn])' = ErrorIn(reply', Code[op.fn])
  BY <1>0 DEF ErrorIn, ByteAt
<1>7. /\ \A stack \in Stacks : Decoded(op, reply, stack)' = Decoded(op, reply', stack)
      /\ InMemory(op)' = InMemory(op)
  BY <1>0 DEF Decoded, BitsIn, RegistersIn, ByteRead, ByteAt, InMemory
<1>8. Slice(before[Table(op.fn)], op.address, op.amount)'
        = Slice(before[Table(op.fn)], op.address, op.amount)
  BY <1>0 DEF Slice, Table
<1>9. Served'
  BY <1>1, <1>2, <1>5, <1>6, <1>7, <1>8 DEF Served
<1> QED
  BY <1>0, <1>2, <1>4, <1>9 DEF ReadInv, AskedRead, AnsweredRead, ReadsMatch

LEMMA PlcServesWrite ==
    ASSUME Whole, PlcStep, op.fn \notin Reads, WellFormed(request),
           reply' = Answer(request, SubSeq(request, 9, 12)), UNCHANGED refused,
           mem' = [mem EXCEPT ![Table(Function(request))] =
                     [a \in Addresses |-> IF a \in Span(request)
                         THEN Written(request, a) ELSE @[a]]]
    PROVE  TypeInv' /\ ReadInv'
<1>0. phase = "sent" /\ phase' = "answered" /\ op' = op
  BY DEF PlcStep
<1>1. Function(request) = op.fn
  BY <1>0, SentRequest, Zenon DEF Whole
<1>2. mem' \in Memory
  BY <1>0, <1>1, ServedTyped, Zenon DEF Whole
<1>3. request \in Seq(Byte) /\ refused \in Byte
  BY DEF Whole, TypeInv, TypeOK
<1>4. Len(request) = 12
  <2>1. op.fn \notin MultipleWrites
    BY <1>0 DEF Whole, Inv, WriteInv, Writes, Unanswered
  <2> QED
    BY <1>0, <2>1, Zenon DEF Whole, Inv, Single, Asked, Short
<1>5. reply' \in Seq(Byte)
  <2> DEFINE body == SubSeq(request, 9, 12)
  <2>1. body \in Seq(Byte)
    <3>1. \A i \in 1..12 : request[i] \in Byte
      BY <1>3, <1>4, ElementOfSeq
    <3> QED
      BY <3>1, SubSeqProperties
  <2> HIDE DEF body
  <2>2. Answer(request, body) \in Seq(Byte)
    BY <1>3, <1>4, <2>1, AnswerPlaces
  <2> QED
    BY <2>2 DEF body
<1>6. TypeInv'
  BY <1>2, <1>3, <1>5, PlcTyped DEF Whole
<1> QED
  BY <1>0, <1>6 DEF ReadInv, AskedRead, AnsweredRead, ReadsMatch

LEMMA PlcWhole ==
    ASSUME Whole, Serve \/ Busy
    PROVE  TypeInv' /\ ReadInv'
<1>1. PlcStep
  BY DEF Serve, Busy, PlcStep, connection
<1>2. Function(request) = op.fn
  BY <1>1, SentRequest, Zenon DEF Whole, PlcStep
<1>3. 2 \in Byte /\ 3 \in Byte /\ 2 # 0 /\ 3 # 0
  BY DEF Byte
<1>4. CASE Busy
  <2>1. PICK code \in BusyCodes : Refuse(code)
    BY <1>4 DEF Busy
  <2>2. code \in Byte /\ code # 0
    BY ClientAssumption, ContentsAssumption
  <2> QED
    BY <1>1, <2>1, <2>2, PlcRefuses
<1>5. CASE Serve
  <2>1. CASE ~WellFormed(request)
    <3>1. Refuse(3)
      BY <1>5, <2>1 DEF Serve
    <3> QED
      BY <1>1, <1>3, <3>1, PlcRefuses
  <2>2. CASE WellFormed(request) /\ ~(Span(request) \subseteq Addresses)
    <3>1. Refuse(2)
      BY <1>5, <2>2 DEF Serve
    <3> QED
      BY <1>1, <1>3, <3>1, PlcRefuses
  <2>3. CASE WellFormed(request) /\ Span(request) \subseteq Addresses
    <3>1. CASE op.fn \in Reads
      <4>1. reply' = Answer(request, ReadBody(request, mem)) /\ UNCHANGED <<mem, refused>>
        BY <1>2, <1>5, <2>3, <3>1 DEF Serve
      <4> QED
        BY <1>1, <2>3, <3>1, <4>1, PlcServesRead
    <3>2. CASE op.fn \notin Reads
      <4>1. /\ reply' = Answer(request, SubSeq(request, 9, 12)) /\ UNCHANGED refused
            /\ mem' = [mem EXCEPT ![Table(Function(request))] =
                         [a \in Addresses |-> IF a \in Span(request)
                             THEN Written(request, a) ELSE @[a]]]
        BY <1>2, <1>5, <2>3, <3>2 DEF Serve
      <4> QED
        BY <1>1, <2>3, <3>2, <4>1, PlcServesWrite, Zenon
    <3> QED
      BY <3>1, <3>2
  <2> QED
    BY <2>1, <2>2, <2>3
<1> QED
  BY <1>4, <1>5

\* A reply without data bytes reads as zeros, as far as the buffer goes.
LEMMA NothingIn ==
    ASSUME NEW r, Len(r) \in Nat, Len(r) <= 9, NEW stack, NEW n \in Nat
    PROVE  /\ Len(RegistersIn(r, stack, n)) = n /\ Len(BitsIn(r, stack, n)) = n
           /\ \A k \in 1..n : k <= (BufferSize - 9) \div 2 => RegistersIn(r, stack, n)[k] = 0
           /\ \A k \in 1..n : k <= 8 * (BufferSize - 9) => BitsIn(r, stack, n)[k] = 0
<1>1. \A j \in Nat : j >= 9 /\ j < BufferSize => ByteRead(r, stack, j) = 0
  BY DEF ByteRead, ByteAt
<1>2. ASSUME NEW k \in 1..n, k <= (BufferSize - 9) \div 2
      PROVE  256 * ByteRead(r, stack, 7 + 2 * k) + ByteRead(r, stack, 8 + 2 * k) = 0
  <2>1. /\ 7 + 2 * k \in Nat /\ 8 + 2 * k \in Nat /\ 7 + 2 * k >= 9 /\ 8 + 2 * k >= 9
        /\ 7 + 2 * k < BufferSize /\ 8 + 2 * k < BufferSize
    BY <1>2 DEF BufferSize
  <2>2. ByteRead(r, stack, 7 + 2 * k) = 0 /\ ByteRead(r, stack, 8 + 2 * k) = 0
    BY <1>1, <2>1
  <2> QED
    BY <2>2
<1>3. ASSUME NEW k \in 1..n, k <= 8 * (BufferSize - 9)
      PROVE  (ByteRead(r, stack, 9 + ((k - 1) \div 8)) \div 2 ^ ((k - 1) % 8)) % 2 = 0
  <2>1. /\ 9 + ((k - 1) \div 8) \in Nat /\ 9 + ((k - 1) \div 8) >= 9
        /\ 9 + ((k - 1) \div 8) < BufferSize
        /\ (k - 1) % 8 \in 0..7
    BY <1>3 DEF BufferSize
  <2>2. ByteRead(r, stack, 9 + ((k - 1) \div 8)) = 0
    BY <1>1, <2>1
  <2> DEFINE p == 2 ^ ((k - 1) % 8)
  <2>3. p \in {1, 2, 4, 8, 16, 32, 64, 128}
    BY <2>1, Powers
  <2>4. \A q \in {1, 2, 4, 8, 16, 32, 64, 128} : (0 \div q) % 2 = 0
    OBVIOUS
  <2> HIDE DEF p
  <2>5. (0 \div p) % 2 = 0
    BY <2>3, <2>4
  <2> QED
    BY <2>2, <2>5 DEF p
<1>4. Len(RegistersIn(r, stack, n)) = n /\ Len(BitsIn(r, stack, n)) = n
  BY DEF RegistersIn, BitsIn
<1> QED
  BY <1>2, <1>3, <1>4 DEF RegistersIn, BitsIn

LEMMA ReturnTyped ==
    ASSUME Whole, Return
    PROVE  TypeInv'
<1>1. /\ phase' = "returned" /\ outcome' \in {"ok", "raised"}
      /\ \E stack \in Stacks :
            buffer' \in {<<>>, BitsIn(reply, stack, op.amount), RegistersIn(reply, stack, op.amount)}
      /\ op.fn \notin Reads => buffer' = <<>>
      /\ UNCHANGED <<connected, link, mem, msg_id, op, request, reply, refused>>
  BY DEF Return, connection, frames
<1>2. op \in Ops /\ reply \in Seq(Byte)
  BY DEF Whole, TypeInv, TypeOK
<1>3. buffer' \in Seq(Uint16)
  <2>1. CASE op.fn \notin Reads
    <3>1. buffer' = <<>> /\ <<>> \in Seq(Uint16)
      BY <1>1, <2>1
    <3> QED
      BY <3>1
  <2>2. CASE op.fn \in Reads
    <3>1. op.amount \in Uint16
      BY <2>2 DEF Return, Whole, ReadInv, AskedRead, AnsweredRead
    <3>2. PICK stack \in Stacks :
            buffer' \in {<<>>, BitsIn(reply, stack, op.amount), RegistersIn(reply, stack, op.amount)}
      BY <1>1
    <3>3. /\ RegistersIn(reply, stack, op.amount) \in Seq(Uint16)
          /\ BitsIn(reply, stack, op.amount) \in Seq(Uint16)
      BY <1>2, <3>1, StoredTyped
    <3>4. <<>> \in Seq(Uint16)
      OBVIOUS
    <3> QED
      BY <3>2, <3>3, <3>4, Zenon
  <2> QED
    BY <2>1, <2>2
<1> QED
  BY <1>1, <1>3 DEF Whole, TypeInv, TypeOK

LEMMA ReturnReads ==
    ASSUME Whole, Return
    PROVE  ReadInv'
<1>1. phase' = "returned" /\ UNCHANGED <<link, mem, op, before, reply, refused>>
  BY DEF Return, connection, frames
<1>2. ReadsMatch'
  <2> DEFINE Nothing(b) ==
               Len(b) = op.amount /\ \A k \in 1..op.amount : k <= Room(op.fn) => b[k] = 0
  <2> SUFFICES ASSUME outcome' = "ok", op.fn \in Reads
               PROVE  IF refused # 0 \/ reply = <<>>
                        THEN NoAnswer /\ Nothing(buffer')
                        ELSE InMemory(op)
                             /\ buffer' = Slice(before[Table(op.fn)], op.address, op.amount)
    BY <1>1 DEF ReadsMatch, NoAnswer, InMemory, Slice, Table, Room
  <2>1. op \in Ops /\ reply \in Seq(Byte) /\ link \in {"none", "up", "fin", "rst", "closed"}
    BY DEF Whole, TypeInv, TypeOK
  <2>2. op.amount \in Nat /\ Len(reply) \in Nat
    BY <2>1, ReadWhole, LenProperties
  <2>3. Expected(op.fn) = Code[op.fn]
    BY DEF Reads, Expected
  <2>4. /\ link \notin {"none", "rst", "closed"} /\ ~ErrorIn(reply, Code[op.fn])
        /\ \E stack \in Stacks : buffer' = Decoded(op, reply, stack)
    BY <2>3 DEF Return, Decoded
  <2>5. Len(reply) <= 9 => Nothing(buffer')
    <3> SUFFICES ASSUME Len(reply) <= 9 PROVE Nothing(buffer')
      OBVIOUS
    <3>1. PICK stack \in Stacks : buffer' = Decoded(op, reply, stack)
      BY <2>4
    <3>2. CASE op.fn \in BitReads
      <4>1. buffer' = BitsIn(reply, stack, op.amount) /\ Room(op.fn) = 8 * (BufferSize - 9)
        BY <3>1, <3>2 DEF Decoded, Room
      <4> QED
        BY <2>2, <4>1, NothingIn
    <3>3. CASE op.fn \notin BitReads
      <4>1. buffer' = RegistersIn(reply, stack, op.amount) /\ Room(op.fn) = (BufferSize - 9) \div 2
        BY <3>1, <3>3 DEF Decoded, Room
      <4> QED
        BY <2>2, <4>1, NothingIn
    <3> QED
      BY <3>2, <3>3
  <2> HIDE DEF Nothing
  <2>6. CASE phase = "answered"
    <3>1. Turned \/ Served
      BY <2>6 DEF Whole, ReadInv, AnsweredRead
    <3>2. CASE Turned
      <4>1. ByteAt(reply, 7) = Code[op.fn] + 128 /\ ByteAt(reply, 8) = refused /\ refused # 0
        BY <3>2 DEF Turned, ByteAt
      <4>2. refused \notin KnownErrors \cup {0}
        BY <2>4, <4>1 DEF ErrorIn
      <4> QED
        BY <2>2, <2>5, <3>2, <4>2 DEF Turned, NoAnswer
    <3>3. CASE Served
      BY <2>4, <3>3 DEF Served
    <3> QED
      BY <3>1, <3>2, <3>3
  <2>7. CASE phase = "sent" /\ link # "up"
    <3>1. reply = <<>> /\ link = "fin"
      BY <2>1, <2>4, <2>7 DEF Whole, ReadInv, AskedRead
    <3> QED
      BY <2>5, <3>1 DEF NoAnswer
  <2> QED
    BY <2>6, <2>7 DEF Return
<1> QED
  BY <1>1, <1>2 DEF ReadInv, AskedRead, AnsweredRead

LEMMA OthersWhole ==
    ASSUME Whole, ModbusConnect \/ ModbusClose \/ LinkEnds \/ UNCHANGED vars
    PROVE  TypeInv' /\ ReadInv'
<1>1. /\ UNCHANGED <<mem, msg_id, op, request, reply, refused, outcome, buffer, before>>
      /\ connected' \in {connected, TRUE}
      /\ link' \in {link, "none", "up", "fin", "rst", "closed"}
      /\ \/ phase' = "idle" \/ (phase' = phase /\ phase # "returned")
         \/ UNCHANGED vars
  BY ClientAssumption DEF ModbusConnect, ModbusClose, LinkEnds, vars, connection, frames,
                          Whole, TypeInv, TypeOK
<1>2. TypeInv'
  <2>1. phase' \in {"idle", phase}
    BY <1>1 DEF vars
  <2> QED
    BY <1>1, <2>1 DEF Whole, TypeInv, TypeOK
<1>3. UNCHANGED <<Turned, Served>>
  BY <1>1 DEF Turned, Served, ErrorIn, ByteRead, ByteAt, InMemory, Decoded, BitsIn, RegistersIn,
              Slice, Table
<1>4. CASE phase' = "idle"
  BY <1>2, <1>4 DEF ReadInv, AskedRead, AnsweredRead, ReadsMatch
<1>5. CASE phase' = phase /\ phase # "returned"
  <2>1. AskedRead' /\ AnsweredRead'
    BY <1>1, <1>3, <1>5 DEF Whole, ReadInv, AskedRead, AnsweredRead
  <2>2. ReadsMatch'
    BY <1>5 DEF ReadsMatch
  <2> QED
    BY <1>2, <2>1, <2>2 DEF ReadInv
<1>6. CASE UNCHANGED vars
  <2>1. AskedRead' /\ AnsweredRead'
    BY <1>1, <1>3, <1>6 DEF Whole, ReadInv, AskedRead, AnsweredRead, vars
  <2>2. ReadsMatch' <=> ReadsMatch
    BY <1>1, <1>6 DEF ReadsMatch, NoAnswer, Room, InMemory, Slice, Table, vars, connection
  <2> QED
    BY <1>2, <2>1, <2>2 DEF Whole, ReadInv
<1> QED
  BY <1>1, <1>4, <1>5, <1>6

LEMMA WholeInit == Init => Whole
BY InvInit, TypeInit DEF Init, Whole, ReadInv, AskedRead, AnsweredRead, ReadsMatch

LEMMA WholeStep == Whole /\ [Next]_vars => Whole'
<1> SUFFICES ASSUME Whole, [Next]_vars PROVE Whole'
  OBVIOUS
<1>1. Inv'
  BY InvStep DEF Whole
<1>2. CASE ModbusConnect \/ ModbusClose \/ LinkEnds \/ UNCHANGED vars
  BY <1>1, <1>2, OthersWhole DEF Whole
<1>3. ASSUME NEW o \in Ops, Call(o) PROVE Whole'
  BY <1>1, <1>3, CallTyped, CallReads DEF Whole
<1>4. CASE Serve \/ Busy
  BY <1>1, <1>4, PlcWhole DEF Whole
<1>5. CASE Return
  BY <1>1, <1>5, ReturnTyped, ReturnReads DEF Whole
<1> QED
  BY <1>2, <1>3, <1>4, <1>5 DEF Next

\* Every byte of a request and of an answer is one, whatever numbers it was made of,
\* and what the caller is given are words.
THEOREM TypeOKHolds == Spec => []TypeOK
<1>1. Whole => TypeOK
  BY DEF Whole, TypeInv
<1> QED
  BY WholeInit, WholeStep, <1>1, PTL DEF Spec

\* A read of the class gives its caller the values of the PLC's table from the address
\* it named on, in order: for every address, amount and contents of the tables, through
\* the bytes of the request and of the answer.  What is no answer gives zeros for as many
\* values as the buffer of a reply has room for and any values behind, and only where
\* the exception code has no class or the PLC has closed the connection.
THEOREM ReadsMatchHolds == Spec => []ReadsMatch
<1>1. Whole => ReadsMatch
  BY DEF Whole, ReadInv
<1> QED
  BY WholeInit, WholeStep, <1>1, PTL DEF Spec
==============================================================================
