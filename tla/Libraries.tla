----------------------------- MODULE Libraries -----------------------------
(* The library parts beside the program, each checked by itself: a behaviour *)
(* is one of a single part, the subject, and the others do not move.  Of the *)
(* text functions it is one input, chosen at the start.                      *)
EXTENDS SocketTimeout, OSSem, SimpleLog, XmlText, StrUtilty

CONSTANTS
    Inputs      \* what the text functions are tried on, records with a kind

VARIABLES
    subject,
    input

\* Bytes in a format, a text and what it is split at, trimmed of, searched for or
\* matched with, parameters: keys are not empty, and neither they nor the values
\* hold what ends them; for a pair, the buffers it is put in.
Letters == STRING
IsInput(in) ==
    \/ in \in [kind : {"hex"}, bytes : Seq(0..255), fmt : Formats]
    \/ in \in [kind : {"split"}, s : Seq(Letters), sep : Letters]
    \/ in \in [kind : {"match"}, s : Seq(Letters), pattern : Seq(Letters)]
    \/ in \in [kind : {"trim"}, s : Seq(Letters)]
    \/ in \in [kind : {"line"}, s : Seq(Letters), key : Seq(Letters) \ {<<>>}, count : Nat \ {0}]
    \/ in \in [kind : {"pair"}, s : Seq(Letters \ {Nul}), sep : Seq(Letters \ {Nul}),
               pKey : Seq(Letters \cup {Nul}), pValue : Seq(Letters \cup {Nul})]
    \/ /\ in.kind = "params" /\ IsFiniteSet(DOMAIN in.params)
       /\ in.params = [k \in DOMAIN in.params |-> in.params[k]]
       /\ \A k \in DOMAIN in.params :
              /\ k \in Seq(Letters \ {Equals, Semicolon}) \ {<<>>}
              /\ in.params[k] \in Seq(Letters \ {Semicolon})

ASSUME InputsAssumption == \A in \in Inputs : IsInput(in)

NoInput == [kind |-> "none"]

libVars == <<subject, semaVars, sockVars, logVars, textVars, input>>

LibInit ==
    /\ subject \in {"semaphore", "socket", "log", "xml", "texts"}
    /\ SemaInit /\ Init /\ LogInit
    /\ XmlInit
    /\ subject = "xml" \/ m_iSpace = 0
    /\ IF subject = "texts" THEN input \in Inputs ELSE input = NoInput

OfSema == /\ subject = "semaphore"
          /\ UNCHANGED <<subject, sockVars, logVars, textVars, input>>
OfSock == /\ subject = "socket"
          /\ UNCHANGED <<subject, semaVars, logVars, textVars, input>>
OfLog  == /\ subject = "log"
          /\ UNCHANGED <<subject, semaVars, sockVars, textVars, input>>
OfXml  == /\ subject = "xml"
          /\ UNCHANGED <<subject, semaVars, sockVars, logVars, input>>

SemaPart ==
    \E t \in Threads :
        \/ OfSema /\ PostN(t)
        \/ OfSema /\ Release(t)
        \/ OfSema /\ ReleaseFails(t)
        \/ OfSema /\ TakeBack(t)
        \/ OfSema /\ WaitTakes(t)
        \/ OfSema /\ Lower(t)

SockPart ==
    \/ OfSock /\ Connect
    \/ OfSock /\ ConnectWithTimeout
    \/ OfSock /\ Close
    \/ OfSock /\ BeginSend
    \/ OfSock /\ BeginRecv
    \/ OfSock /\ BeginRecvOnce
    \/ OfSock /\ SendSome
    \/ OfSock /\ RecvSome
    \/ OfSock /\ Fails
    \/ OfSock /\ HalfSecond
    \/ OfSock /\ OnceTimesOut
    \/ OfSock /\ PeerSends
    \/ OfSock /\ PeerTakes
    \/ OfSock /\ PeerGone

LogPart ==
    \/ \E o \in Objects :
           \/ OfLog /\ Call(o)
           \/ OfLog /\ ReadNum(o)
           \/ OfLog /\ StoreNum(o)
           \/ OfLog /\ Open(o)
           \/ OfLog /\ PutLine(o)
    \/ OfLog /\ LogRestart

XmlPart ==
    \/ OfXml /\ AddNode
    \/ OfXml /\ EndNode
    \/ OfXml /\ AddValue
    \/ OfXml /\ AddText
    \/ OfXml /\ Str

LibNext == SemaPart \/ SockPart \/ LogPart \/ XmlPart

\* A call's own steps are taken: select returns after half a second at most.
FairSpec == LibInit /\ [][LibNext]_libVars /\ WF_libVars(OfSock /\ CallStep)

-----------------------------------------------------------------------------
\* Hexadecimal text, split texts, file patterns, lines, pairs and parameters keep
\* what they are given.
TextRules ==
    /\ input.kind = "hex" => HexRoundTrip(input.bytes, input.fmt)
    /\ input.kind = "split" => SplitRejoins(input.s, input.sep)
    /\ input.kind = "match" => MatchCoversGlob(input.s, input.pattern)
    /\ input.kind = "trim" => TrimRule(input.s)
    /\ input.kind = "line" => FamiliesAgree(input.s, input.key, input.count)
    /\ input.kind = "pair" => PairRule(input.s, input.sep, input.pKey, input.pValue)
    /\ input.kind = "params" => ParamRule(input.params)
=============================================================================
