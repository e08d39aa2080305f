------------------------------- MODULE Texts -------------------------------
(* The text functions the components share: SplitStr_x and the conversions   *)
(* between bytes and hexadecimal text of common/tinyxml/SimpleXmlMaker.cpp,  *)
(* and MatchingString, with which wLog picks the files of its directory.  A  *)
(* text is a sequence of characters.                                         *)
EXTENDS Integers, SequencesExt

Blank == " "
Star == "*"
Digits == <<"0", "1", "2", "3", "4", "5", "6", "7", "8", "9", "a", "b", "c", "d", "e", "f">>
UpperDigits == <<"0", "1", "2", "3", "4", "5", "6", "7", "8", "9", "A", "B", "C", "D", "E", "F">>

\* _ToHexChar, of a digit
_ToHexChar(ch) ==
    CHOOSE v \in 0..15 : Digits[v + 1] = ch \/ UpperDigits[v + 1] = ch
IsHexDigit(ch) == \E v \in 0..15 : Digits[v + 1] = ch \/ UpperDigits[v + 1] = ch

\* ArrayToString: fmt + 4 is fmt in capitals; 1 and 2 put a blank between the
\* bytes, 2 an 0x before each.
Formats == {0, 1, 2, 4, 5, 6}
Prefix(fmt) == IF fmt = 2 THEN <<"0", "x">> ELSE IF fmt = 6 THEN <<"0", "X">> ELSE <<>>
Gap(fmt) == IF fmt \in {1, 2, 5, 6} THEN <<Blank>> ELSE <<>>
Shown(byte, fmt) ==
    LET digits == IF fmt \in {4, 5, 6} THEN UpperDigits ELSE Digits
    IN  Prefix(fmt) \o <<digits[(byte \div 16) + 1], digits[(byte % 16) + 1]>>
ArrayToString(bytes, fmt) ==
    LET out[k \in 0..Len(bytes)] ==
            IF k = 0 THEN <<>>
            ELSE out[k - 1] \o Shown(bytes[k], fmt)
                            \o (IF k = Len(bytes) THEN <<>> ELSE Gap(fmt))
    IN  out[Len(bytes)]

IsHexMark(str, i) == str[i] = "0" /\ i < Len(str) /\ str[i + 1] \in {"x", "X"}

\* the digits of the group that starts at i, at most two for a byte
Group(str, i) ==
    IF ~IsHexDigit(str[i]) THEN <<>>
    ELSE IF i = Len(str) \/ ~IsHexDigit(str[i + 1]) THEN <<_ToHexChar(str[i])>>
    ELSE <<_ToHexChar(str[i]), _ToHexChar(str[i + 1])>>
Number(group) == IF Len(group) = 1 THEN group[1] ELSE 16 * group[1] + group[2]
Beyond == -1     \* whatever lies behind the text's end

\* not the code: 0x is not skipped
HexstrToArrayPlain(str) ==
    LET from[i \in 1..(Len(str) + 2)] ==
            IF i = Len(str) + 1 THEN <<>>
            ELSE IF i > Len(str) THEN <<Beyond>>
            ELSE LET g == Group(str, i) IN
                 IF g = <<>> THEN from[i + 1] ELSE <<Number(g)>> \o from[i + 2]
    IN  from[1]

\* _Template_HexstrToArray into bytes, with room for all.  A group that is cut
\* short takes the character that ends it along: the end of the text, too, for a
\* digit alone at the end, and the reading goes on behind it.
HexstrToArray(str) ==
    LET from[i \in 1..(Len(str) + 2)] ==
            IF i = Len(str) + 1 THEN <<>>
            ELSE IF i > Len(str) THEN <<Beyond>>
            ELSE IF IsHexMark(str, i) THEN from[i + 2]
            ELSE LET g == Group(str, i) IN
                 IF g = <<>> THEN from[i + 1] ELSE <<Number(g)>> \o from[i + 2]
    IN  from[1]

-----------------------------------------------------------------------------
Matches(s, i, piece) == i + Len(piece) - 1 <= Len(s) /\ SubSeq(s, i, i + Len(piece) - 1) = piece
Occurs(s, piece) == \E i \in 1..(Len(s) + 1) : Matches(s, i, piece)

\* SplitStr_x: after each separator the next piece starts one character on,
\* however long the separator is.  An empty text gives nothing.
SplitStr_x(s, sep) ==
    LET start[i \in 1..(Len(s) + 1)] ==
            LET hits == {j \in i..Len(s) : Matches(s, j, sep)}
                j    == CHOOSE k \in hits : \A h \in hits : k <= h
            IN  IF hits = {} THEN << SubSeq(s, i, Len(s)) >>
                ELSE << SubSeq(s, i, j - 1) >> \o start[j + 1]
    IN  IF s = <<>> THEN <<>> ELSE start[1]

\* what is between the stars of a pattern
Pieces(pattern) == SplitStr_x(pattern, <<Star>>)

\* MatchingString, the WIN32 branch: each piece occurs somewhere in the name,
\* in any order and with anything before and after
MatchingString(s, pattern) == \A i \in DOMAIN Pieces(pattern) : Occurs(s, Pieces(pattern)[i])

\* what a pattern with stars means elsewhere (fnmatch, the other branch): in the
\* name, each character of the pattern stands at its place, one behind the
\* other, and a star leaves room for any characters
Glob(s, pattern) ==
    \E at \in [1..(Len(pattern) + 1) -> 1..(Len(s) + 1)] :
        /\ at[1] = 1 /\ at[Len(pattern) + 1] = Len(s) + 1
        /\ \A j \in 1..Len(pattern) :
               IF pattern[j] = Star THEN at[j] <= at[j + 1]
               ELSE at[j + 1] = at[j] + 1 /\ s[at[j]] = pattern[j]

-----------------------------------------------------------------------------
\* The bytes AddValue writes are the bytes GetValue reads, in every format
\* AddValue has: the claim of SimpleXmlMaker.h.
HexRoundTrip(bytes, fmt) == HexstrToArray(ArrayToString(bytes, fmt)) = bytes

\* the pieces with a separator of one character between them
Joined(pieces, sep) ==
    LET upto[k \in 0..Len(pieces)] ==
            IF k = 0 THEN <<>>
            ELSE upto[k - 1] \o (IF k = 1 THEN <<>> ELSE <<sep>>) \o pieces[k]
    IN  upto[Len(pieces)]

\* Split at a separator of one character, the pieces hold no separator and give
\* the text again with the separator between them.
SplitRejoins(s, sep) ==
    LET out == SplitStr_x(s, <<sep>>)
    IN  /\ \A i \in DOMAIN out : ~Contains(out[i], sep)
        /\ Joined(out, sep) = s

\* A name the pattern means is never missed; what the search takes besides are
\* names that have the pieces in another place.
MatchCoversGlob(s, pattern) == Glob(s, pattern) => MatchingString(s, pattern)
=============================================================================
