--------------------------- MODULE SocketTimeout ---------------------------
(* The calls with a time-out of common/SocketAPI (ConnectWithTimeout,        *)
(* SendWithTimeout, RecvWithTimeout, RecvOnceWithTimeout) made one after the *)
(* other by the thread that owns the socket, against a peer that takes and   *)
(* sends bytes when it likes.  A select that is not answered takes a whole   *)
(* half second, and the calls count those and not the time.  Bytes are       *)
(* counted, their values play no part.                                       *)
EXTENDS Integers

CONSTANTS
    Seconds,     \* iSecond of a call, a set
    Lengths,     \* iLen of a call, a set
    Room,        \* bytes the connection holds in each direction
    MaxCalls     \* calls made in a run

VARIABLES
    socket,      \* "none", "blocking" or "nonblocking"
    peer,        \* the far end: "up", or "gone" once it closed or was lost
    op,          \* the call being made, "none" between calls
    len,         \* iLen
    iSecond,     \* its limit
    iIndex,      \* bytes this call has moved so far
    iCount,      \* half seconds it may still wait
    waits,       \* selects it has made
    told,        \* bytes all calls together reported as sent and as received
    moved,       \* bytes the socket really took, and really gave
    failed,      \* which directions a call returned -1 for
    inbox,       \* bytes that arrived and were not received
    outbox,      \* bytes sent that the peer has not taken
    calls        \* calls made so far
mem == <<len, iSecond, iIndex, iCount, waits>>
bytes == <<told, moved, failed>>
wire == <<inbox, outbox>>
sockVars == <<socket, peer, op, mem, bytes, wire, calls>>

Ways == {"send", "recv"}
Zero == [d \in Ways |-> 0]
Waited == 2    \* half seconds in a second

\* nothing made yet
Init ==
    /\ socket = "none" /\ peer = "up"
    /\ op = "none" /\ len = 0 /\ iSecond = 0 /\ iIndex = 0 /\ iCount = 0 /\ waits = 0
    /\ told = Zero /\ moved = Zero /\ failed = {}
    /\ inbox = 0 /\ outbox = 0 /\ calls = 0

NewCall == op = "none" /\ calls < MaxCalls /\ calls' = calls + 1

\* A connection just made: nothing has travelled on it.
Fresh ==
    /\ peer' = "up" /\ told' = Zero /\ moved' = Zero /\ failed' = {}
    /\ inbox' = 0 /\ outbox' = 0

\* Connect and ConnectEx: the socket blocks, and one that is refused is closed.
Connect ==
    /\ NewCall
    /\ socket = "none"
    /\ \/ socket' = "blocking" /\ Fresh
       \/ UNCHANGED <<socket, peer, bytes, wire>>
    /\ UNCHANGED <<op, mem>>

\* ConnectWithTimeout: connected at once or while select waits, the socket stays
\* non-blocking; refused or not answered in time, it is closed.
\* One that cannot be made non-blocking is returned to nobody and left open.
ConnectWithTimeout ==
    /\ NewCall
    /\ socket = "none"
    /\ \/ socket' = "nonblocking" /\ Fresh
       \/ UNCHANGED <<socket, peer, bytes, wire>>
    /\ UNCHANGED <<op, mem>>

Close ==
    /\ NewCall
    /\ socket # "none"
    /\ socket' = "none"
    /\ UNCHANGED <<peer, op, mem, bytes, wire>>

\* SendWithTimeout, RecvWithTimeout and RecvOnceWithTimeout are called with a
\* socket; with INVALID_SOCKET they return -1 at once.
Begin(call) ==
    /\ NewCall
    /\ socket # "none"
    /\ \E s \in Seconds, n \in Lengths :
        /\ op' = call
        /\ len' = n
        /\ iSecond' = s
        /\ iIndex' = 0
        /\ iCount' = Waited * s
        /\ waits' = 0
    /\ UNCHANGED <<socket, peer, bytes, wire>>

BeginSend == Begin("send")
BeginRecv == Begin("recv")
BeginRecvOnce == Begin("recvonce")

Way == IF op = "send" THEN "send" ELSE "recv"

Return(n) ==
    /\ op' = "none"
    /\ told' = IF n > 0 THEN [told EXCEPT ![Way] = @ + n] ELSE told
    /\ failed' = IF n = -1 THEN failed \cup {Way} ELSE failed

\* the call goes on if it has bytes left to move, else returns their number
Proceed(n) ==
    /\ iIndex' = n
    /\ \/ n < len /\ op # "recvonce" /\ UNCHANGED <<op, told, failed>>
       \/ (n = len \/ op = "recvonce") /\ Return(n)

Same == UNCHANGED <<socket, peer, len, iSecond, calls>>

InsideSend == op = "send" /\ socket = "blocking" /\ iIndex > 0

\* select finds room, send takes what there is room for.  A blocking socket
\* keeps the thread inside send, with no time-out, until it has taken it all.
SendSome ==
    /\ op = "send"
    /\ \E n \in 1..(len - iIndex) :
        /\ outbox + n <= Room
        /\ outbox' = outbox + n
        /\ moved' = [moved EXCEPT !["send"] = @ + n]
        /\ Proceed(iIndex + n)
    /\ waits' = IF InsideSend THEN waits ELSE waits + 1
    /\ Same /\ UNCHANGED <<iCount, inbox>>

\* not the code: bytes that arrive give the call its whole time again
RecvSomeStartsAnew ==
    /\ op \in {"recv", "recvonce"}
    /\ \E n \in 1..(len - iIndex) :
        /\ n <= inbox
        /\ inbox' = inbox - n
        /\ moved' = [moved EXCEPT !["recv"] = @ + n]
        /\ Proceed(iIndex + n)
    /\ waits' = waits + 1
    /\ iCount' = Waited * iSecond
    /\ Same /\ UNCHANGED outbox

\* select finds bytes, recv takes some of them
RecvSome ==
    /\ op \in {"recv", "recvonce"}
    /\ \E n \in 1..(len - iIndex) :
        /\ n <= inbox
        /\ inbox' = inbox - n
        /\ moved' = [moved EXCEPT !["recv"] = @ + n]
        /\ Proceed(iIndex + n)
    /\ waits' = waits + 1
    /\ Same /\ UNCHANGED <<iCount, outbox>>

\* not the code: recv's 0 at the end of the stream taken for no progress
FailsBelowZero ==
    /\ op \in {"send", "recvonce"} /\ peer = "gone"
    /\ op = "recvonce" => inbox = 0
    /\ Return(-1)
    /\ waits' = waits + 1
    /\ Same /\ UNCHANGED <<iIndex, iCount, moved, wire>>

\* send fails; recv finds the far end closed or fails, and returns 0 or less:
\* -1 is returned whatever the call has moved before.  RecvOnceWithTimeout
\* returns what recv returned.
Fails ==
    /\ op # "none" /\ peer = "gone"
    /\ op \in {"recv", "recvonce"} => inbox = 0
    /\ \/ Return(-1)
       \/ op = "recvonce" /\ Return(0)
    /\ waits' = waits + 1
    /\ Same /\ UNCHANGED <<iIndex, iCount, moved, wire>>

CanMove ==
    \/ peer = "gone"
    \/ op = "send" /\ outbox < Room
    \/ op \in {"recv", "recvonce"} /\ inbox > 0

\* not the code: a call that runs out of time reports nothing
HalfSecondReportsNothing ==
    /\ op \in {"send", "recv"} /\ ~CanMove /\ ~InsideSend
    /\ iCount' = iCount - 1
    /\ waits' = waits + 1
    /\ \/ iCount' < 0 /\ Return(0)
       \/ iCount' >= 0 /\ UNCHANGED <<op, told, failed>>
    /\ Same /\ UNCHANGED <<iIndex, moved, wire>>

\* Half a second passes and select returns 0: one less to wait.  The call breaks
\* off below zero, so it waits once more than twice iSecond.
HalfSecond ==
    /\ op \in {"send", "recv"} /\ ~CanMove /\ ~InsideSend
    /\ iCount' = iCount - 1
    /\ waits' = waits + 1
    /\ \/ iCount' < 0 /\ Return(iIndex)
       \/ iCount' >= 0 /\ UNCHANGED <<op, told, failed>>
    /\ Same /\ UNCHANGED <<iIndex, moved, wire>>

\* RecvOnceWithTimeout waits iSecond in one select
OnceTimesOut ==
    /\ op = "recvonce" /\ ~CanMove
    /\ waits' = waits + 1
    /\ Return(0)
    /\ Same /\ UNCHANGED <<iIndex, iCount, moved, wire>>

\* The far end sends, takes, or is gone.
PeerSends ==
    /\ socket # "none" /\ peer = "up" /\ inbox < Room
    /\ inbox' = inbox + 1
    /\ UNCHANGED <<socket, peer, op, mem, bytes, outbox, calls>>

PeerTakes ==
    /\ socket # "none" /\ peer = "up" /\ outbox > 0
    /\ outbox' = outbox - 1
    /\ UNCHANGED <<socket, peer, op, mem, bytes, inbox, calls>>

PeerGone ==
    /\ socket # "none" /\ peer = "up"
    /\ peer' = "gone"
    /\ UNCHANGED <<socket, op, mem, bytes, wire, calls>>

CallStep == SendSome \/ RecvSome \/ Fails \/ HalfSecond \/ OnceTimesOut

Next ==
    \/ Connect \/ ConnectWithTimeout \/ Close
    \/ BeginSend \/ BeginRecv \/ BeginRecvOnce
    \/ CallStep
    \/ PeerSends \/ PeerTakes \/ PeerGone

Spec == Init /\ [][Next]_sockVars

\* What callers were told was sent and received on this connection, and what
\* the call under way has moved, is what the socket really moved: a call that
\* runs out of time reports the bytes it has.  Only after a -1, which drops
\* them, is the stream out of step.
InStep ==
    \A d \in Ways \ failed :
        moved[d] = told[d] + (IF op # "none" /\ Way = d THEN iIndex ELSE 0)

\* A call makes at most one select of half a second more than twice its iSecond,
\* and one for each byte it moves: a peer that trickles bytes stretches it well
\* past iSecond, and no further than that.
InTime ==
    waits <= Waited * iSecond + 1 + iIndex

\* Whatever the peer does, a call returns, unless it is a SendWithTimeout on a
\* blocking socket (one of Connect): that may stay inside send for ever.
Returns ==
    (op # "none" /\ ~(op = "send" /\ socket = "blocking")) ~> (op = "none")
=============================================================================
