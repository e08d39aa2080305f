--------------------------- MODULE PlcPollerProofs ---------------------------
(***************************************************************************)
(* Theorems about PlcPoller, for any number of registers, any values and   *)
(* any bounds on faults and register changes.                              *)
(***************************************************************************)
EXTENDS PlcPoller, TLAPS

USE ValsAssumption, PollerAssumption DEF ValsAssumption, PollerAssumption

(* A buffer made of units is decoded to a value an uint16_t variable may   *)
(* hold.                                                                   *)
LEMMA ValueOfType ==
    ASSUME NEW bytes \in Seq(Unit)
    PROVE  ValueOf(bytes) \in Reading
<1>1. CASE Len(bytes) <= 1
  BY <1>1 DEF ValueOf, Reading
<1>2. CASE Len(bytes) > 1 /\ bytes[1] = Header /\ bytes[2].kind = "data"
  <2>1. bytes[2] \in Unit
    BY <1>2
  <2>2. bytes[2].val \in Vals
    BY <1>2, <2>1 DEF Unit, Header, DataUnit, ExcUnit
  <2> QED
    BY <1>2, <2>2 DEF ValueOf, Reading
<1>3. CASE ~(Len(bytes) <= 1)
           /\ ~(Len(bytes) > 1 /\ bytes[1] = Header /\ bytes[2].kind = "data")
  BY <1>3 DEF ValueOf, Reading
<1> QED
  BY <1>1, <1>2, <1>3

(* A whole reply is decoded to the value it carries.                       *)
LEMMA ValueOfReply ==
    ASSUME NEW v
    PROVE  /\ ValueReply(v) # <<>>
           /\ ~Raises(ValueReply(v))
           /\ ValueOf(ValueReply(v)) = v
  BY DEF ValueReply, Raises, ValueOf, Header, DataUnit

(* The head of a sequence is not changed by what is put behind it.         *)
LEMMA HeadStays ==
    ASSUME NEW s \in Seq(Unit), NEW t \in Seq(Unit)
    PROVE  IF s = <<>> THEN s \o t = t
           ELSE s \o t # <<>> /\ (s \o t)[1] = s[1]
  OBVIOUS

(* The parts of the state a stored value touches keep their types.         *)
LEMMA StoreType ==
    ASSUME TypeOK, NEW v \in Reading, Store(v)
    PROVE  /\ old' \in Snapshot /\ update' \in BOOLEAN
           /\ i' \in Regs /\ stop' \in BOOLEAN
           /\ pc' \in {"connect", "check", "send", "recv", "emit"}
  BY DEF TypeOK, Store, Snapshot, Regs

(* The same after an exception.                                            *)
LEMMA ReadFailedType ==
    ASSUME TypeOK, ReadFailed
    PROVE  /\ old' \in Snapshot /\ update' \in BOOLEAN
           /\ i' \in Regs /\ stop' \in BOOLEAN
           /\ pc' \in {"connect", "check", "send", "recv", "emit"}
<1>1. CASE Driver = "XinJie"
  <2>1. Store(0)
    BY <1>1 DEF ReadFailed
  <2> QED
    BY <2>1, StoreType DEF Reading
<1>2. CASE Driver # "XinJie"
  BY <1>2 DEF TypeOK, ReadFailed
<1> QED
  BY <1>1, <1>2

(* Every variable keeps its type in every behaviour of the poller.         *)
THEOREM TypeCorrect == Spec => []TypeOK
<1>1. Init => TypeOK
  <2>1. 0 \in Vals /\ 0 \in Reading
    BY DEF Reading
  <2>2. Zero \in Snapshot
    BY <2>1 DEF Zero, Snapshot
  <2>3. 1 \in Regs /\ 0 \in Nat /\ 0 \in 0..MaxFaults /\ 0 \in 0..MaxWrites
    BY DEF Regs
  <2>4. <<>> \in Seq(Unit) /\ <<>> \in Seq(Regs) /\ {} \in SUBSET Vals
    OBVIOUS
  <2> QED
    BY <2>2, <2>3, <2>4 DEF Init, TypeOK
<1>2. TypeOK /\ [Next]_vars => TypeOK'
  <2> SUFFICES ASSUME TypeOK, [Next]_vars
               PROVE  TypeOK'
    OBVIOUS
  <2> USE DEF thread, flag, socket, stream, device, report
  <2>1. CASE ConnectOk
    BY <2>1 DEF ConnectOk, NewSocket, TypeOK
  <2>2. CASE ConnectFails
    BY <2>2 DEF ConnectFails, NewSocket, TypeOK
  <2>3. CASE StartScan
    BY <2>3 DEF StartScan, TypeOK, Regs
  <2>4. CASE LeaveLoop
    BY <2>4 DEF LeaveLoop, TypeOK, Zero, Snapshot, Reading
  <2>5. CASE Send
    <3>1. pending' \in Seq(Regs)
      BY <2>5 DEF Send, TypeOK
    <3>2. held' \in SUBSET Vals
      BY <2>5 DEF Send, TypeOK
    <3> QED
      BY <2>5, <3>1, <3>2 DEF Send, TypeOK
  <2>6. CASE ReceiveError
    BY <2>6, ReadFailedType DEF ReceiveError, TypeOK
  <2>7. CASE Receive
    <3>1. /\ old' \in Snapshot /\ update' \in BOOLEAN
          /\ i' \in Regs /\ stop' \in BOOLEAN
          /\ pc' \in {"connect", "check", "send", "recv", "emit"}
      BY <2>7, ReadFailedType, StoreType, ValueOfType DEF Receive, TypeOK
    <3> QED
      BY <2>7, <3>1 DEF Receive, TypeOK
  <2>8. CASE Emit
    BY <2>8 DEF Emit, TypeOK, Payloads
  <2>9. CASE StopDevice
    BY <2>9 DEF StopDevice, TypeOK
  <2>10. ASSUME NEW r \in Regs, NEW v \in Vals, PlcWrite(r, v)
         PROVE  TypeOK'
    BY <2>10 DEF PlcWrite, TypeOK
  <2>11. CASE PlcAnswer
    <3>1. regs[pending[1]] \in Vals /\ Tail(pending) \in Seq(Regs)
      BY <2>11 DEF PlcAnswer, CanAnswer, TypeOK
    <3>2. ValueReply(regs[pending[1]]) \in Seq(Unit)
      BY <3>1 DEF ValueReply, Unit
    <3> QED
      BY <2>11, <3>1, <3>2 DEF PlcAnswer, TypeOK
  <2>12. CASE PlcAnswerCut
    <3>1. regs[pending[1]] \in Vals /\ Tail(pending) \in Seq(Regs)
      BY <2>12 DEF PlcAnswerCut, CanAnswer, TypeOK
    <3>2. Header \in Unit /\ <<DataUnit(regs[pending[1]])>> \in Seq(Unit)
      BY <3>1 DEF Unit
    <3> QED
      BY <2>12, <3>1, <3>2 DEF PlcAnswerCut, Fault, TypeOK
  <2>13. CASE RestArrives
    BY <2>13 DEF RestArrives, TypeOK
  <2>14. ASSUME NEW known \in BOOLEAN, PlcRefuses(known)
         PROVE  TypeOK'
    <3>1. Tail(pending) \in Seq(Regs) /\ ExcReply(known) \in Seq(Unit)
      BY <2>14 DEF PlcRefuses, CanAnswer, TypeOK, ExcReply, Unit
    <3> QED
      BY <2>14, <3>1 DEF PlcRefuses, Fault, TypeOK
  <2>15. CASE PeerCloses
    BY <2>15 DEF PeerCloses, Fault, TypeOK
  <2>16. CASE PeerResets
    BY <2>16 DEF PeerResets, Fault, TypeOK
  <2>17. CASE UNCHANGED vars
    BY <2>17 DEF vars, TypeOK
  <2>18. CASE PlcIgnores
    BY <2>18 DEF PlcIgnores, CanAnswer, Fault, TypeOK
  <2> QED
    BY <2>1, <2>2, <2>3, <2>4, <2>5, <2>6, <2>7, <2>8, <2>9, <2>10, <2>11,
       <2>12, <2>13, <2>14, <2>15, <2>16, <2>17, <2>18 DEF Next, Poll, Environment
<1> QED
  BY <1>1, <1>2, PTL DEF Spec

------------------------------------------------------------------------------
(* A value stored during a Fx3u scan leaves ScanInv true.                  *)
LEMMA StoreScan ==
    ASSUME TypeOK, ScanInv, pc = "recv",
           NEW v \in Reading, Store(v), UNCHANGED <<view, told>>
    PROVE  ScanInv'
<1> DEFINE base == Baseline
<1>1. base \in Snapshot /\ old \in Snapshot /\ base' = base
  BY DEF TypeOK, Baseline, Zero, Snapshot, Reading
<1>2. /\ \A r \in Regs : r >= i => old[r] = base[r]
      /\ update <=> \E r \in Regs : r < i /\ old[r] # base[r]
  BY DEF ScanInv
<1>3. /\ \A r \in Regs : r > i => old'[r] = base[r]
      /\ update' <=> \E r \in Regs : r <= i /\ old'[r] # base[r]
  <2>1. i \in Regs /\ old[i] = base[i]
    BY <1>2 DEF TypeOK, Regs
  <2>2. \A r \in Regs : old'[r] = IF r = i THEN v ELSE old[r]
    BY <1>1 DEF Store, Snapshot
  <2>3. update' <=> update \/ base[i] # v
    BY <2>1 DEF Store
  <2>4. \A r \in Regs : r > i => old'[r] = base[r]
    BY <1>2, <2>1, <2>2 DEF Regs
  <2>5. update => \E r \in Regs : r <= i /\ old'[r] # base[r]
    BY <1>2, <2>1, <2>2 DEF Regs
  <2>6. base[i] # v => \E r \in Regs : r <= i /\ old'[r] # base[r]
    BY <2>1, <2>2 DEF Regs
  <2>7. ASSUME NEW r \in Regs, r <= i, old'[r] # base[r]
        PROVE  update \/ base[i] # v
    <3>1. CASE r = i
      BY <2>2, <2>7, <3>1
    <3>2. CASE r # i
      BY <1>2, <2>1, <2>2, <2>7, <3>2 DEF Regs
    <3> QED
      BY <3>1, <3>2
  <2> QED
    BY <2>3, <2>4, <2>5, <2>6, <2>7
<1>4. CASE i = NRegs
  <2>1. pc' = "emit" /\ i' = i
    BY <1>4 DEF Store
  <2>2. old' \in Snapshot
    BY StoreType
  <2>3. update' <=> \E r \in Regs : old'[r] # base[r]
    BY <1>3, <1>4 DEF Regs
  <2>4. (\E r \in Regs : old'[r] # base[r]) <=> old' # base
    BY <1>1, <2>2 DEF Snapshot
  <2> QED
    BY <1>1, <2>1, <2>3, <2>4 DEF ScanInv
<1>5. CASE i # NRegs
  <2>1. pc' = "send" /\ i' = i + 1 /\ i \in Regs
    BY <1>5 DEF Store, TypeOK
  <2>2. \A r \in Regs : (r > i <=> r >= i') /\ (r <= i <=> r < i')
    BY <2>1 DEF Regs
  <2> QED
    BY <1>1, <1>3, <2>1, <2>2 DEF ScanInv
<1> QED
  BY <1>4, <1>5

(* An exception that ends a Fx3u scan leaves ScanInv true.                 *)
LEMMA ReadFailedScan ==
    ASSUME TypeOK, ScanInv, pc = "recv", ReadFailed, Driver = "Fx3u",
           UNCHANGED <<view, told>>
    PROVE  ScanInv'
<1>1. pc' = "emit" /\ UNCHANGED <<i, old, update>> /\ Baseline' = Baseline
  BY DEF ReadFailed, Baseline
<1>2. Baseline \in Snapshot /\ old \in Snapshot
  BY DEF TypeOK, Baseline, Zero, Snapshot, Reading
<1>3. old # Baseline <=> \E r \in Regs : old[r] # Baseline[r]
  BY <1>2 DEF Snapshot
<1>4. update <=> \E r \in Regs : old[r] # Baseline[r]
  BY DEF ScanInv, TypeOK, Regs
<1> QED
  BY <1>1, <1>3, <1>4 DEF ScanInv

(* ScanInv is inductive for the Fx3u object.                               *)
THEOREM ScanInvariant ==
    ASSUME Driver = "Fx3u"
    PROVE  Spec => []ScanInv
<1>1. Init => ScanInv
  BY DEF Init, ScanInv, Baseline
<1>2. TypeOK /\ ScanInv /\ [Next]_vars => ScanInv'
  <2> SUFFICES ASSUME TypeOK, ScanInv, [Next]_vars
               PROVE  ScanInv'
    OBVIOUS
  <2> USE DEF thread, flag, socket, stream, device, report
  <2>1. CASE ConnectOk
    BY <2>1 DEF ConnectOk, ScanInv, Baseline
  <2>2. CASE ConnectFails
    BY <2>2 DEF ConnectFails, ScanInv, Baseline
  <2>3. CASE StartScan
    <3>1. /\ pc' = "send" /\ i' = 1 /\ old' = old /\ update' = update
          /\ Baseline' = Baseline
      BY <2>3 DEF StartScan, Baseline
    <3>2. old = Baseline /\ ~update
      BY <2>3 DEF StartScan, ScanInv
    <3> QED
      BY <3>1, <3>2 DEF ScanInv, Regs
  <2>4. CASE LeaveLoop
    BY <2>4 DEF LeaveLoop, ScanInv, Baseline
  <2>5. CASE Send
    BY <2>5 DEF Send, ScanInv, Baseline
  <2>6. CASE ReceiveError
    BY <2>6, ReadFailedScan DEF ReceiveError
  <2>7. CASE Receive
    BY <2>7, ReadFailedScan, StoreScan, ValueOfType DEF Receive, TypeOK
  <2>8. CASE Emit
    <3>1. CASE update
      BY <2>8, <3>1 DEF Emit, Payloads, ScanInv, Baseline
    <3>2. CASE ~update
      BY <2>8, <3>2 DEF Emit, ScanInv, Baseline
    <3> QED
      BY <3>1, <3>2
  <2>9. CASE StopDevice
    BY <2>9 DEF StopDevice, ScanInv, Baseline
  <2>10. CASE Environment
    <3>1. UNCHANGED <<thread, report>>
      BY <2>10 DEF Environment, PlcWrite, PlcAnswer, PlcAnswerCut,
                   RestArrives, PlcRefuses, PlcIgnores, PeerCloses, PeerResets
    <3> QED
      BY <3>1 DEF ScanInv, Baseline
  <2>11. CASE UNCHANGED vars
    BY <2>11 DEF vars, ScanInv, Baseline
  <2> QED
    BY <2>1, <2>2, <2>3, <2>4, <2>5, <2>6, <2>7, <2>8, <2>9, <2>10, <2>11
       DEF Next, Poll
<1> QED
  BY <1>1, <1>2, TypeCorrect, PTL DEF Spec

(* Between two scans of a Fx3u object nothing it knows is unreported.      *)
THEOREM ReportedAtRestHolds ==
    ASSUME Driver = "Fx3u"
    PROVE  Spec => []ReportedAtRest
<1>1. ScanInv => ReportedAtRest
  BY DEF ScanInv, ReportedAtRest
<1> QED
  BY <1>1, ScanInvariant, PTL

(* A Fx3u object implements ChangeReport: each event differs from the last *)
(* one on the connection, whatever the network and Stop do meanwhile.      *)
THEOREM ImplementsChangeReport ==
    ASSUME Driver = "Fx3u"
    PROVE  Spec => ReportsSpec
<1>1. Init => Reports!Init
  BY DEF Init, Reports!Init
<1>2. TypeOK /\ ScanInv /\ [Next]_vars => [Reports!Next]_<<view, told>>
  <2> SUFFICES ASSUME TypeOK, ScanInv, [Next]_vars
               PROVE  [Reports!Next]_<<view, told>>
    OBVIOUS
  <2> USE DEF thread, flag, socket, stream, device, report
  <2>1. CASE LeaveLoop
    BY <2>1 DEF LeaveLoop, Reports!Next, Reports!StartOver
  <2>2. CASE Emit
    <3>1. CASE update
      <4>1. view' = old /\ told' = TRUE /\ old \in Snapshot
        BY <2>2, <3>1 DEF Emit, Payloads, TypeOK
      <4>2. old # Reports!Baseline
        BY <2>2, <3>1 DEF Emit, ScanInv, Baseline, Reports!Baseline
      <4> QED
        BY <4>1, <4>2 DEF Reports!Next, Reports!Report
    <3>2. CASE ~update
      BY <2>2, <3>2 DEF Emit
    <3> QED
      BY <3>1, <3>2
  <2>3. CASE UNCHANGED vars
    BY <2>3 DEF vars
  <2>4. CASE \/ ConnectOk \/ ConnectFails \/ StartScan \/ Send
            \/ ReceiveError \/ Receive \/ StopDevice \/ Environment
    BY <2>4 DEF ConnectOk, ConnectFails, StartScan, Send, ReceiveError, Receive,
                StopDevice, Environment, PlcWrite, PlcAnswer, PlcAnswerCut,
                RestArrives, PlcRefuses, PlcIgnores, PeerCloses, PeerResets
  <2> QED
    BY <2>1, <2>2, <2>3, <2>4 DEF Next, Poll
<1> QED
  BY <1>1, <1>2, TypeCorrect, ScanInvariant, PTL
  DEF Spec, ReportsSpec, Reports!Spec

------------------------------------------------------------------------------
(* While TCP cuts no reply, requests and replies stay in step.             *)
THEOREM StreamInvariant ==
    ASSUME "cut" \notin Disturbances
    PROVE  Spec => []StreamInv
<1>1. Init => StreamInv
  BY DEF Init, StreamInv, Quiet
<1>2. TypeOK /\ StreamInv /\ [Next]_vars => StreamInv'
  <2> SUFFICES ASSUME TypeOK, StreamInv, [Next]_vars
               PROVE  StreamInv'
    OBVIOUS
  <2> USE DEF thread, flag, socket, stream, device, report
  <2>1. CASE ConnectOk
    BY <2>1 DEF ConnectOk, NewSocket, StreamInv, Quiet
  <2>2. CASE ConnectFails
    BY <2>2 DEF ConnectFails, NewSocket, StreamInv, Quiet
  <2>3. CASE StartScan
    BY <2>3 DEF StartScan, StreamInv, Quiet
  <2>4. CASE LeaveLoop
    BY <2>4 DEF LeaveLoop, StreamInv, Quiet
  <2>5. CASE Send
    <3>1. Quiet /\ late = <<>> /\ conn # "up" => pending = <<>>
      BY <2>5 DEF Send, StreamInv
    <3>2. regs'[i'] \in held'
      BY <2>5 DEF Send
    <3>3. CASE conn = "up"
      <4>1. pending' = <<i'>> /\ inbox' = <<>>
        BY <2>5, <3>1, <3>3 DEF Send, Quiet, StreamInv
      <4> QED
        BY <2>5, <3>2, <3>3, <4>1 DEF Send, StreamInv, Waiting
    <3>4. CASE conn # "up"
      BY <2>5, <3>2, <3>4 DEF Send, StreamInv, Quiet
    <3> QED
      BY <3>3, <3>4
  <2>6. CASE ReceiveError
    <3>1. pc' # "recv"
      BY <2>6 DEF ReceiveError, ReadFailed, Store
    <3>2. pc = "recv" /\ conn = "rst" /\ UNCHANGED <<inbox, late, pending, conn>>
      BY <2>6 DEF ReceiveError
    <3> QED
      BY <3>1, <3>2 DEF StreamInv, Quiet, Waiting, Answered
  <2>7. CASE Receive
    <3>1. pc' # "recv"
      BY <2>7 DEF Receive, ReadFailed, Store
    <3>2. pending = <<>>
      BY <2>7 DEF Receive, StreamInv, Quiet, Waiting, Answered
    <3> QED
      BY <2>7, <3>1, <3>2 DEF Receive, StreamInv, Quiet
  <2>8. CASE Emit
    BY <2>8 DEF Emit, StreamInv, Quiet
  <2>9. CASE StopDevice
    BY <2>9 DEF StopDevice, StreamInv, Quiet, Waiting, Answered
  <2>10. ASSUME NEW r \in Regs, NEW v \in Vals, PlcWrite(r, v)
         PROVE  StreamInv'
    <3>1. UNCHANGED <<pc, i, conn, inbox, late, pending>> /\ held \subseteq held'
      BY <2>10 DEF PlcWrite
    <3>2. pc = "recv" => regs'[i] \in held'
      BY <2>10 DEF PlcWrite, StreamInv, TypeOK
    <3> QED
      BY <3>1, <3>2 DEF StreamInv, Quiet, Waiting, Answered
  <2>11. CASE PlcAnswer
    <3>1. pc = "recv" /\ Waiting /\ regs[i] \in held
      BY <2>11 DEF PlcAnswer, CanAnswer, StreamInv, Quiet, Answered
    <3>2. inbox' = ValueReply(regs[i]) /\ pending' = <<>>
      BY <2>11, <3>1 DEF PlcAnswer, Waiting, ValueReply
    <3> QED
      BY <2>11, <3>1, <3>2 DEF PlcAnswer, CanAnswer, StreamInv, Answered
  <2>12. CASE PlcAnswerCut
    BY <2>12 DEF PlcAnswerCut, Fault
  <2>13. CASE RestArrives
    BY <2>13 DEF RestArrives, StreamInv
  <2>14. ASSUME NEW known \in BOOLEAN, PlcRefuses(known)
         PROVE  StreamInv'
    <3>1. pc = "recv" /\ Waiting /\ regs[i] \in held
      BY <2>14 DEF PlcRefuses, CanAnswer, StreamInv, Quiet, Answered
    <3>2. inbox' = ExcReply(known) /\ pending' = <<>>
      BY <2>14, <3>1 DEF PlcRefuses, Waiting, ExcReply
    <3> QED
      BY <2>14, <3>1, <3>2 DEF PlcRefuses, CanAnswer, StreamInv, Answered
  <2>15. CASE PeerCloses
    BY <2>15 DEF PeerCloses, StreamInv, Quiet, Waiting, Answered
  <2>16. CASE PeerResets
    BY <2>16 DEF PeerResets, StreamInv, Quiet
  <2>17. CASE UNCHANGED vars
    BY <2>17 DEF vars, StreamInv, Quiet, Waiting, Answered
  <2>18. CASE PlcIgnores
    <3>1. pc = "recv" /\ Waiting /\ regs[i] \in held
      BY <2>18 DEF PlcIgnores, CanAnswer, StreamInv, Quiet, Answered
    <3>2. inbox' = <<>> /\ pending' = <<>>
      BY <2>18, <3>1 DEF PlcIgnores, Waiting
    <3> QED
      BY <2>18, <3>1, <3>2 DEF PlcIgnores, CanAnswer, StreamInv, Quiet
  <2> QED
    BY <2>1, <2>2, <2>3, <2>4, <2>5, <2>6, <2>7, <2>8, <2>9, <2>10, <2>11,
       <2>12, <2>13, <2>14, <2>15, <2>16, <2>17, <2>18 DEF Next, Poll, Environment
<1> QED
  BY <1>1, <1>2, TypeCorrect, PTL DEF Spec

(* While TCP cuts no reply, a value other than 0 stored for a register is  *)
(* one the register held after it was asked for.                           *)
THEOREM ReadsTheRegisterHolds ==
    ASSUME "cut" \notin Disturbances
    PROVE  Spec => ReadsTheRegister
<1>1. ASSUME TypeOK, StreamInv, [Next]_vars, pc = "recv", old' # old
      PROVE  old'[i] \in held \cup {0}
  <2> USE DEF thread, flag, socket, stream, device, report
  <2>1. ReceiveError \/ Receive
    BY <1>1 DEF Next, Poll, Environment, vars, ConnectOk, ConnectFails,
                StartScan, LeaveLoop, Send, Emit, StopDevice, PlcWrite,
                PlcAnswer, PlcAnswerCut, RestArrives, PlcRefuses, PlcIgnores,
                PeerCloses, PeerResets
  <2>2. old \in [Regs -> Reading] /\ i \in Regs
    BY <1>1 DEF TypeOK, Snapshot
  <2>3. ASSUME NEW v, Store(v)
        PROVE  old'[i] = v
    BY <2>2, <2>3 DEF Store
  <2>4. ReadFailed => old'[i] = 0
    BY <1>1, <2>3 DEF ReadFailed
  <2>5. CASE Receive /\ ~Raises(inbox)
    <3>1. Quiet \/ Waiting => inbox = <<>>
      BY DEF Quiet, Waiting
    <3>2. Quiet \/ Waiting => ValueOf(inbox) = 0
      BY <3>1 DEF ValueOf
    <3>3. (\E v \in held : inbox = ValueReply(v)) => ValueOf(inbox) \in held
      BY ValueOfReply
    <3>4. (\E known \in BOOLEAN : inbox = ExcReply(known)) => ValueOf(inbox) = 0
      BY DEF ExcReply, ValueOf
    <3>5. ValueOf(inbox) \in held \cup {0}
      BY <1>1, <3>2, <3>3, <3>4 DEF StreamInv, Answered
    <3> QED
      BY <2>3, <2>5, <3>5 DEF Receive
  <2> QED
    BY <2>1, <2>4, <2>5 DEF ReceiveError, Receive
<1> QED
  BY <1>1, TypeCorrect, StreamInvariant, PTL DEF Spec, ReadsTheRegister

------------------------------------------------------------------------------
(* Each socket that is lost, about to be, or sure to be is paid for by a   *)
(* fault or by Stop.                                                       *)
THEOREM SocketInvariant == Spec => []SocketInv
<1>1. Init => SocketInv
  BY DEF Init, SocketInv, Replacing, Due, Asked, Raises
<1>2. TypeOK /\ SocketInv /\ [Next]_vars => SocketInv'
  <2> SUFFICES ASSUME TypeOK, SocketInv, [Next]_vars
               PROVE  SocketInv'
    OBVIOUS
  <2> USE DEF thread, flag, socket, stream, device, report, Replacing, Due, Asked
  <2>a. lost \in Nat /\ faults \in Nat
    BY DEF TypeOK
  <2>1. CASE ConnectOk
    BY <2>1, <2>a DEF ConnectOk, NewSocket, SocketInv, Raises
  <2>2. CASE ConnectFails
    BY <2>2, <2>a DEF ConnectFails, NewSocket, SocketInv, Raises
  <2>3. CASE StartScan
    BY <2>3, <2>a DEF StartScan, SocketInv
  <2>4. CASE LeaveLoop
    BY <2>4, <2>a DEF LeaveLoop, SocketInv
  <2>5. CASE Send
    BY <2>5, <2>a DEF Send, SocketInv
  <2>6. CASE ReceiveError
    <3>1. pc' # "connect" /\ Due = 1
      BY <2>6 DEF ReceiveError, ReadFailed, Store
    <3> QED
      BY <2>6, <2>a, <3>1 DEF ReceiveError, SocketInv
  <2>7. CASE Receive
    <3>1. pc' # "connect" /\ ~Raises(inbox')
      BY <2>7 DEF Receive, ReadFailed, Store, Raises
    <3>2. stop' => stop \/ Raises(inbox)
      BY <2>7 DEF Receive, ReadFailed, Store
    <3> QED
      BY <2>7, <2>a, <3>1, <3>2 DEF Receive, SocketInv
  <2>8. CASE Emit
    BY <2>8, <2>a DEF Emit, SocketInv
  <2>9. CASE StopDevice
    BY <2>9, <2>a DEF StopDevice, SocketInv
  <2>10. ASSUME NEW r \in Regs, NEW v \in Vals, PlcWrite(r, v)
         PROVE  SocketInv'
    BY <2>10, <2>a DEF PlcWrite, SocketInv
  <2>11. CASE PlcAnswer
    <3>1. inbox' = inbox \o ValueReply(regs[pending[1]]) /\ inbox \in Seq(Unit)
      BY <2>11 DEF PlcAnswer, TypeOK
    <3>2. Raises(inbox') => Raises(inbox)
      BY <3>1, HeadStays DEF Raises, ValueReply, Header
    <3> QED
      BY <2>11, <2>a, <3>2 DEF PlcAnswer, CanAnswer, SocketInv
  <2>12. CASE PlcAnswerCut
    <3>1. inbox' = inbox \o <<Header>> /\ inbox \in Seq(Unit)
      BY <2>12 DEF PlcAnswerCut, TypeOK, Unit
    <3>2. Raises(inbox') => Raises(inbox)
      BY <3>1, HeadStays DEF Raises, Header
    <3> QED
      BY <2>12, <2>a, <3>2 DEF PlcAnswerCut, Fault, DataUnit, SocketInv
  <2>13. CASE RestArrives
    <3>1. inbox' = inbox \o late /\ inbox \in Seq(Unit) /\ late \in Seq(Unit)
      BY <2>13 DEF RestArrives, TypeOK
    <3>2. Raises(inbox') => Raises(inbox)
      BY <2>13, <3>1, HeadStays DEF RestArrives, Raises, SocketInv
    <3> QED
      BY <2>13, <2>a, <3>2 DEF RestArrives, SocketInv
  <2>14. ASSUME NEW known \in BOOLEAN, PlcRefuses(known)
         PROVE  SocketInv'
    BY <2>14, <2>a DEF PlcRefuses, Fault, SocketInv
  <2>15. CASE PlcIgnores
    BY <2>15, <2>a DEF PlcIgnores, Fault, SocketInv
  <2>16. CASE PeerCloses
    BY <2>16, <2>a DEF PeerCloses, Fault, SocketInv
  <2>17. CASE PeerResets
    BY <2>17, <2>a DEF PeerResets, Fault, SocketInv
  <2>18. CASE UNCHANGED vars
    BY <2>18 DEF vars, SocketInv
  <2> QED
    BY <2>1, <2>2, <2>3, <2>4, <2>5, <2>6, <2>7, <2>8, <2>9, <2>10, <2>11,
       <2>12, <2>13, <2>14, <2>15, <2>16, <2>17, <2>18 DEF Next, Poll, Environment
<1> QED
  BY <1>1, <1>2, TypeCorrect, PTL DEF Spec

(* No object of either class loses more sockets than there were faults and *)
(* calls of Stop.                                                          *)
THEOREM LostByFaultsHolds == Spec => []LostByFaults
<1>1. TypeOK /\ SocketInv => LostByFaults
  BY DEF TypeOK, SocketInv, LostByFaults, Replacing, Due, Asked
<1> QED
  BY <1>1, TypeCorrect, SocketInvariant, PTL

(* A XinJie object leaves a connection only after a call of Stop.          *)
THEOREM OnlyStopReconnectsHolds ==
    ASSUME Driver = "XinJie"
    PROVE  Spec => OnlyStopReconnects
<1> DEFINE Unasked == ~asked => ~stop /\ (pc = "connect" => conn = "none")
<1>1. Init => Unasked
  BY DEF Init
<1>2. Unasked /\ [Next]_vars => Unasked'
  <2> SUFFICES ASSUME Unasked, [Next]_vars
               PROVE  Unasked'
    OBVIOUS
  <2> USE DEF thread, flag, socket, stream, device, report
  <2>1. CASE ConnectOk \/ ConnectFails
    BY <2>1 DEF ConnectOk, ConnectFails, NewSocket
  <2>2. CASE ReceiveError \/ Receive
    BY <2>2 DEF ReceiveError, Receive, ReadFailed, Store
  <2>3. CASE StartScan \/ LeaveLoop \/ Send \/ Emit \/ StopDevice
    BY <2>3 DEF StartScan, LeaveLoop, Send, Emit, StopDevice
  <2>4. CASE Environment
    <3>1. UNCHANGED <<pc, stop, asked>> /\ (conn = "none" => conn' = "none")
      BY <2>4 DEF Environment, PlcWrite, PlcAnswer, PlcAnswerCut, RestArrives,
                  PlcRefuses, PlcIgnores, CanAnswer, PeerCloses, PeerResets
    <3> QED
      BY <3>1
  <2>5. CASE UNCHANGED vars
    BY <2>5 DEF vars
  <2> QED
    BY <2>1, <2>2, <2>3, <2>4, <2>5 DEF Next, Poll
<1>3. ASSUME Unasked, [Next]_vars, conn \in {"fin", "rst"}, conn' \in {"none", "up"}
      PROVE  asked
  <2> USE DEF thread, flag, socket, stream, device, report
  <2>1. ConnectOk \/ ConnectFails
    BY <1>3 DEF Next, Poll, Environment, vars, StartScan, LeaveLoop, Send,
                ReceiveError, Receive, Emit, StopDevice, PlcWrite, PlcAnswer,
                PlcAnswerCut, RestArrives, PlcRefuses, PlcIgnores, PeerCloses,
                PeerResets
  <2> QED
    BY <1>3, <2>1 DEF ConnectOk, ConnectFails
<1> QED
  BY <1>1, <1>2, <1>3, PTL DEF Spec, OnlyStopReconnects

(* A request the PLC has dropped holds the thread until the connection     *)
(* ends, in either class and whatever else happens, Stop included.         *)
THEOREM HeldUntilLostHolds == Spec => HeldUntilLost
<1>1. ASSUME [Next]_vars, Held
      PROVE  Held' \/ conn' # "up"
  <2> USE DEF thread, flag, socket, stream, device, report, Held
  <2>1. CASE ConnectOk \/ ConnectFails \/ StartScan \/ LeaveLoop \/ Send \/ Emit
    BY <1>1, <2>1 DEF ConnectOk, ConnectFails, StartScan, LeaveLoop, Send, Emit
  <2>2. CASE ReceiveError \/ Receive
    BY <1>1, <2>2 DEF ReceiveError, Receive
  <2>3. CASE StopDevice
    BY <1>1, <2>3 DEF StopDevice
  <2>4. CASE Environment
    BY <1>1, <2>4 DEF Environment, PlcWrite, PlcAnswer, PlcAnswerCut, RestArrives,
                      PlcRefuses, PlcIgnores, CanAnswer, PeerCloses, PeerResets
  <2>5. CASE UNCHANGED vars
    BY <1>1, <2>5 DEF vars
  <2> QED
    BY <1>1, <2>1, <2>2, <2>3, <2>4, <2>5 DEF Next, Poll
<1> QED
  BY <1>1, PTL DEF Spec, HeldUntilLost
==============================================================================
