------------------------------ MODULE PlcPoller ------------------------------
(***************************************************************************)
(* One PLC device object polling one PLC: the thread in DoStart, the       *)
(* Modbus/TCP connection under it, the PLC at the other end, and a caller  *)
(* of Stop.  Driver chooses the class: "Fx3u" (mitsubishi_fx3u_32m.cpp)    *)
(* or "XinJie" (xinjie_xc3_32t.cpp), which share the loop and differ in    *)
(* what they do with an exception and in what they put in the event.       *)
(*                                                                         *)
(* A step of the thread ends at a call that can wait (connect, send, recv, *)
(* the sleep between scans) or where it reads m_bStop; Stop runs on        *)
(* another thread and takes no lock.                                       *)
(***************************************************************************)
EXTENDS ModbusTcp

CONSTANTS
    NRegs,         \* entries of IntSet, the registers read in one scan (8)
    Driver,        \* "Fx3u" or "XinJie"
    Disturbances,  \* what the network, the PLC and Stop may do in this run
    MaxFaults,     \* bound on network and PLC faults
    MaxWrites      \* bound on register changes in the PLC

ASSUME PollerAssumption ==
    /\ NRegs \in Nat \ {0}
    /\ Driver \in {"Fx3u", "XinJie"}
    /\ MaxFaults \in Nat /\ MaxWrites \in Nat

VARIABLES
    pc,        \* where the thread of DoStart is
    i,         \* the loop index: the register being read
    old,       \* OldValue
    update,    \* Update
    stop,      \* m_bStop, written by Stop and by the scan's error path
    asked,     \* Stop was called
    conn,      \* _socket: "none", "up", "fin" (peer closed), "rst" (broken)
    lost,      \* sockets _socket has stood for that nobody can close any more
    inbox,     \* units received by the host, not yet read by recv
    late,      \* the rest of a reply TCP has cut in two
    pending,   \* registers asked for, not yet answered by the PLC
    regs,      \* the PLC's registers
    held,      \* values the register asked for has had since the request
    view,      \* the snapshot of the last event passed to m_fn
    told,      \* an event was raised since OldValue was last cleared
    faults,    \* faults so far
    writes     \* register changes so far

thread == <<pc, i, old, update>>
flag   == <<stop, asked>>
socket == <<conn, lost>>
stream == <<inbox, late, pending>>
device == <<regs, writes>>
report == <<view, told>>
vars   == <<thread, flag, socket, stream, device, held, report, faults>>

Regs == 1..NRegs
Zero == [r \in Regs |-> 0]
Snapshot == [Regs -> Reading]

TypeOK ==
    /\ pc \in {"connect", "check", "send", "recv", "emit"}
    /\ i \in Regs
    /\ old \in Snapshot /\ view \in Snapshot
    /\ update \in BOOLEAN /\ told \in BOOLEAN
    /\ stop \in BOOLEAN /\ asked \in BOOLEAN
    /\ conn \in {"none", "up", "fin", "rst"} /\ lost \in Nat
    /\ inbox \in Seq(Unit) /\ late \in Seq(Unit)
    /\ pending \in Seq(Regs)
    /\ regs \in [Regs -> Vals] /\ held \in SUBSET Vals
    /\ faults \in 0..MaxFaults /\ writes \in 0..MaxWrites

Init ==
    /\ pc = "connect" /\ i = 1
    /\ old = Zero /\ update = FALSE
    /\ stop = FALSE /\ asked = FALSE
    /\ conn = "none" /\ lost = 0 /\ inbox = <<>> /\ late = <<>> /\ pending = <<>>
    /\ regs \in [Regs -> Vals] /\ held = {}
    /\ view = Zero /\ told = FALSE
    /\ faults = 0 /\ writes = 0

------------------------------------------------------------------------------
(* The thread: while (!ModbusInit(id)) Sleep(5000).  What Connect returns  *)
(* takes the place of the old socket, also when it is -1; the old one is   *)
(* not closed, and what was on it is lost.                                 *)
NewSocket(state) ==
    /\ conn' = state
    /\ lost' = IF conn = "none" THEN lost ELSE lost + 1
    /\ inbox' = <<>> /\ late' = <<>> /\ pending' = <<>>

ConnectOk ==
    /\ pc = "connect"
    /\ NewSocket("up")
    /\ pc' = "check"
    /\ UNCHANGED <<i, old, update, flag, device, held, report, faults>>

(* Where no socket is asked for (no host, no port, no socket library)      *)
(* nothing changes at all, which is a stuttering step.                     *)
ConnectFails ==
    /\ pc = "connect"
    /\ NewSocket("none")
    /\ UNCHANGED <<thread, flag, device, held, report, faults>>

(* Variant of StartScan: the inner loop goes on whatever the flag says.    *)
StartScanUntested ==
    /\ pc = "check"
    /\ pc' = "send" /\ i' = 1
    /\ UNCHANGED <<old, update, flag, socket, stream, device, held, report, faults>>

(* while (!m_bStop)                                                        *)
StartScan ==
    /\ pc = "check" /\ ~stop
    /\ pc' = "send" /\ i' = 1
    /\ UNCHANGED <<old, update, flag, socket, stream, device, held, report, faults>>

(* Variant of LeaveLoop: the flag is left as it was found.                 *)
LeaveLoopKeepsFlag ==
    /\ pc = "check" /\ stop
    /\ old' = Zero
    /\ told' = FALSE
    /\ pc' = "connect"
    /\ UNCHANGED <<i, update, flag, socket, stream, device, held, view, faults>>

(* The inner loop is left, whoever raised the flag: the flag is lowered,   *)
(* OldValue cleared, and the outer loop connects again.                    *)
LeaveLoop ==
    /\ pc = "check" /\ stop
    /\ stop' = FALSE
    /\ old' = Zero
    /\ told' = FALSE
    /\ pc' = "connect"
    /\ UNCHANGED <<i, update, asked, socket, stream, device, held, view, faults>>

(* ModbusRead and ModbusSend: the result of send() is not looked at, so a  *)
(* dead socket takes the request in silence.                               *)
Send ==
    /\ pc = "send"
    /\ pending' = IF conn = "up" THEN Append(pending, i) ELSE pending
    /\ held' = {regs[i]}
    /\ pc' = "recv"
    /\ UNCHANGED <<i, old, update, flag, socket, inbox, late, device, report, faults>>

(* Variants of Store: the loop runs one register too far; Update holds the *)
(* verdict on the last register only; a 0 is taken for no data.            *)
StoreOneTooFar(v) ==
    /\ old' = [old EXCEPT ![i] = v]
    /\ update' = (update \/ old[i] # v)
    /\ IF i > NRegs
         THEN pc' = "emit" /\ i' = i
         ELSE pc' = "send" /\ i' = i + 1
    /\ UNCHANGED stop

StoreLastVerdict(v) ==
    /\ old' = [old EXCEPT ![i] = v]
    /\ update' = (old[i] # v)
    /\ IF i = NRegs
         THEN pc' = "emit" /\ i' = i
         ELSE pc' = "send" /\ i' = i + 1
    /\ UNCHANGED stop

StoreSkipsZero(v) ==
    /\ old' = IF v = 0 THEN old ELSE [old EXCEPT ![i] = v]
    /\ update' = (update \/ (v # 0 /\ old[i] # v))
    /\ IF i = NRegs
         THEN pc' = "emit" /\ i' = i
         ELSE pc' = "send" /\ i' = i + 1
    /\ UNCHANGED stop

(* TempValue is compared with, and kept in, OldValue[i].                   *)
Store(v) ==
    /\ old' = [old EXCEPT ![i] = v]
    /\ update' = (update \/ old[i] # v)
    /\ IF i = NRegs
         THEN pc' = "emit" /\ i' = i
         ELSE pc' = "send" /\ i' = i + 1
    /\ UNCHANGED stop

(* Variants of ReadFailed: every class swallows the exception; every class *)
(* ends the scan; the value of the scan before is kept.                    *)
ReadFailedSwallowed == Store(0)

ReadFailedEndsScan ==
    /\ stop' = TRUE
    /\ pc' = "emit"
    /\ UNCHANGED <<i, old, update>>

ReadFailedKeepsValue == Store(old[i])

(* An exception out of ModbusReadHoldingRegisters.  Fx3u lets it end the   *)
(* scan and raises m_bStop; XinJie catches it in ModbusStart, which then   *)
(* returns the 0 it started from.                                          *)
ReadFailed ==
    IF Driver = "XinJie"
      THEN Store(0)
      ELSE /\ stop' = TRUE
           /\ pc' = "emit"
           /\ UNCHANGED <<i, old, update>>

(* recv() takes all that has arrived, or waits; it returns 0 once the peer *)
(* has closed, and -1 on a broken connection.                              *)
ReceiveError ==
    /\ pc = "recv" /\ conn = "rst"
    /\ ReadFailed
    /\ UNCHANGED <<asked, socket, stream, device, held, report, faults>>

(* Variant of Receive: recv() does not wait for the reply.                 *)
ReceiveWithoutWaiting ==
    /\ pc = "recv" /\ conn # "rst"
    /\ inbox' = <<>>
    /\ IF Raises(inbox) THEN ReadFailed ELSE Store(ValueOf(inbox))
    /\ UNCHANGED <<asked, socket, late, pending, device, held, report, faults>>

Receive ==
    /\ pc = "recv" /\ conn # "rst"
    /\ inbox # <<>> \/ conn = "fin"
    /\ inbox' = <<>>
    /\ IF Raises(inbox) THEN ReadFailed ELSE Store(ValueOf(inbox))
    /\ UNCHANGED <<asked, socket, late, pending, device, held, report, faults>>

(* What m_fn is given.  XinJie never fills the members of the structure it *)
(* passes: the callee reads indeterminate values.                          *)
Payloads == IF Driver = "Fx3u" THEN {old} ELSE Snapshot

(* Variant of Emit: Update stays set after the event.                      *)
EmitKeepsUpdate ==
    /\ pc = "emit"
    /\ pc' = "check"
    /\ IF update
         THEN view' \in Payloads /\ told' = TRUE
         ELSE UNCHANGED report
    /\ UNCHANGED <<i, old, update, flag, socket, stream, device, held, faults>>

(* if (Update) ... m_fn(...), then Sleep(interval).                        *)
Emit ==
    /\ pc = "emit"
    /\ pc' = "check"
    /\ update' = FALSE
    /\ IF update
         THEN view' \in Payloads /\ told' = TRUE
         ELSE UNCHANGED report
    /\ UNCHANGED <<i, old, flag, socket, stream, device, held, faults>>

------------------------------------------------------------------------------
(* Stop: m_bStop = true, then join().  DoStart has no return, so the join  *)
(* never ends and Stop can be called once.                                 *)
StopDevice ==
    /\ "stop" \in Disturbances /\ ~asked
    /\ asked' = TRUE /\ stop' = TRUE
    /\ UNCHANGED <<thread, socket, stream, device, held, report, faults>>

------------------------------------------------------------------------------
(* The PLC and the network (outside the repository).                       *)
Fault(kind) ==
    /\ kind \in Disturbances /\ faults < MaxFaults
    /\ faults' = faults + 1

PlcWrite(r, v) ==
    /\ writes < MaxWrites
    /\ regs[r] # v
    /\ regs' = [regs EXCEPT ![r] = v]
    /\ held' = IF pc = "recv" /\ r = i THEN held \cup {v} ELSE held
    /\ writes' = writes + 1
    /\ UNCHANGED <<thread, flag, socket, stream, report, faults>>

CanAnswer == conn = "up" /\ late = <<>> /\ pending # <<>>

PlcAnswer ==
    /\ CanAnswer
    /\ inbox' = inbox \o ValueReply(regs[pending[1]])
    /\ pending' = Tail(pending)
    /\ UNCHANGED <<thread, flag, socket, late, device, held, report, faults>>

PlcAnswerCut ==
    /\ CanAnswer /\ Fault("cut")
    /\ inbox' = Append(inbox, Header)
    /\ late' = <<DataUnit(regs[pending[1]])>>
    /\ pending' = Tail(pending)
    /\ UNCHANGED <<thread, flag, socket, device, held, report>>

RestArrives ==
    /\ late # <<>>
    /\ inbox' = inbox \o late
    /\ late' = <<>>
    /\ UNCHANGED <<thread, flag, socket, pending, device, held, report, faults>>

PlcRefuses(known) ==
    /\ CanAnswer /\ Fault("refuse")
    /\ inbox' = inbox \o ExcReply(known)
    /\ pending' = Tail(pending)
    /\ UNCHANGED <<thread, flag, socket, late, device, held, report>>

(* A PLC that keeps the connection and never answers this request.         *)
PlcIgnores ==
    /\ CanAnswer /\ Fault("ignore")
    /\ pending' = Tail(pending)
    /\ UNCHANGED <<thread, flag, socket, inbox, late, device, held, report>>

PeerCloses ==
    /\ conn = "up" /\ late = <<>> /\ Fault("close")
    /\ conn' = "fin"
    /\ pending' = <<>>
    /\ UNCHANGED <<lost, thread, flag, inbox, late, device, held, report>>

PeerResets ==
    /\ conn \in {"up", "fin"} /\ Fault("reset")
    /\ conn' = "rst"
    /\ inbox' = <<>> /\ late' = <<>> /\ pending' = <<>>
    /\ UNCHANGED <<lost, thread, flag, device, held, report>>

------------------------------------------------------------------------------
Poll ==
    \/ ConnectOk \/ ConnectFails
    \/ StartScan \/ LeaveLoop
    \/ Send \/ ReceiveError \/ Receive \/ Emit

Environment ==
    \/ \E r \in Regs, v \in Vals : PlcWrite(r, v)
    \/ PlcAnswer \/ PlcAnswerCut \/ RestArrives
    \/ \E known \in BOOLEAN : PlcRefuses(known)
    \/ PlcIgnores
    \/ PeerCloses \/ PeerResets

Next == Poll \/ StopDevice \/ Environment

Spec == Init /\ [][Next]_vars

(* The thread is scheduled, the PLC accepts a connection that is tried     *)
(* again and again, and answers on a live one.  Faults and Stop have no    *)
(* fairness.                                                               *)
FairSpec ==
    /\ Spec
    /\ WF_vars(ConnectOk)
    /\ WF_vars(StartScan) /\ WF_vars(LeaveLoop)
    /\ WF_vars(Send) /\ WF_vars(ReceiveError) /\ WF_vars(Receive)
    /\ WF_vars(Emit)
    /\ WF_vars(PlcAnswer) /\ WF_vars(RestArrives)

------------------------------------------------------------------------------
(* What the listener may assume while a register is read on this socket.   *)
Baseline == IF told THEN view ELSE Zero

(* Between two scans the listener has been told everything the object      *)
(* knows, however the last scan ended: OldValue is the last snapshot       *)
(* reported on this connection, or still all zeros if none was.  (Update   *)
(* is set and reset apart from the array it stands for.)                   *)
ReportedAtRest == pc \in {"check", "connect"} => old = Baseline

(* Its inductive form: within a scan the registers not yet read are as the *)
(* listener knows them, and Update says whether one already read is not.   *)
ScanInv ==
    /\ pc \in {"check", "connect"} => old = Baseline /\ ~update
    /\ pc \in {"send", "recv"} =>
          /\ \A r \in Regs : r >= i => old[r] = Baseline[r]
          /\ update <=> \E r \in Regs : r < i /\ old[r] # Baseline[r]
    /\ pc = "emit" => (update <=> old # Baseline)

(* When replies are never cut, a request in progress has one answer at     *)
(* most, made of a value the register held, and nothing else is on its way.*)
Quiet == inbox = <<>> /\ pending = <<>>
Waiting == inbox = <<>> /\ pending = <<i>>
Answered ==
    /\ pending = <<>>
    /\ \/ \E v \in held : inbox = ValueReply(v)
       \/ \E known \in BOOLEAN : inbox = ExcReply(known)
StreamInv ==
    /\ late = <<>>
    /\ pc # "recv" => Quiet
    /\ pc = "recv" => (Quiet \/ Waiting \/ Answered) /\ regs[i] \in held
    /\ conn # "up" => pending = <<>>
    /\ conn = "rst" => inbox = <<>>

(* As long as TCP delivers a reply in one piece, a value other than 0 that *)
(* is stored for a register was held by that register at some moment after *)
(* the request for it was sent, over every order of faults, reconnections  *)
(* and Stop: replies are matched with requests by their order alone, the   *)
(* transaction id is never compared.                                       *)
ReadsTheRegister ==
    [][pc = "recv" /\ old' # old => old'[i] \in held \cup {0}]_vars

(* Every value read without an exception is the register's: what           *)
(* modbus.cpp:192-197 documents for ModbusReadHoldingRegisters, `Reference *)
(* Address' and `Buffer to Store Data'.                                    *)
ReadReturnsRegister ==
    [][pc = "recv" /\ old' # old => old'[i] \in held]_vars

(* A raised m_bStop always comes down again in a new connection attempt,   *)
(* also when Stop raised it: the object cannot be told to stop polling.    *)
StopReconnects == stop ~> (pc = "connect" /\ ~stop)

(* Fx3u: a broken connection is noticed and replaced.                      *)
Recovers == conn = "rst" ~> conn = "up"

(* On a connection that stays up, once the registers stay put the object   *)
(* knows them and has reported them, except that registers that are all 0  *)
(* may leave the listener with the values of the connection before.        *)
Converges ==
    <>[](conn = "up") => <>[](old = regs /\ (view = regs \/ regs = Zero))

(* XinJie: a dead connection is replaced only if somebody calls Stop,      *)
(* until then every register reads as 0.                                   *)
OnlyStopReconnects ==
    [][(conn \in {"fin", "rst"} /\ conn' \in {"none", "up"}) => asked]_vars
DeadReadsZero == <>[](conn \in {"fin", "rst"} /\ ~asked) => <>[](old = Zero)

(* recv has no timeout: a thread whose request the PLC has dropped stays   *)
(* where it is until the connection ends; Stop does not reach it either.   *)
Held == pc = "recv" /\ conn = "up" /\ inbox = <<>> /\ late = <<>> /\ pending = <<>>
HeldUntilLost == [][Held => Held' \/ conn' # "up"]_vars

(* Reconnection does not close the old socket, but it takes a fault or a   *)
(* call of Stop to make it happen: a thread never loses more sockets than  *)
(* there were of these, in whatever order they come and however often the  *)
(* attempts at a new connection fail.                                      *)
Asked == IF asked THEN 1 ELSE 0
LostByFaults == lost <= faults + Asked

(* Its inductive form: a socket about to be replaced, and a reason to do   *)
(* so that is still under way, are paid for already.                       *)
Replacing == IF pc = "connect" /\ conn # "none" THEN 1 ELSE 0
Due == IF stop \/ (pc # "connect" /\ (conn = "rst" \/ Raises(inbox))) THEN 1 ELSE 0
SocketInv ==
    /\ late # <<>> => late[1].kind = "data"
    /\ pc # "connect" => conn # "none"
    /\ lost + Replacing + Due <= faults + Asked

(* The events keep the promise of ChangeReport.                            *)
Reports == INSTANCE ChangeReport WITH Snapshots <- Snapshot, Blank <- Zero
ReportsSpec == Reports!Spec
==============================================================================
