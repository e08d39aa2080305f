----------------------------- MODULE StrUtilty -----------------------------
(* The text functions of common/StrUtilty, once for char* (StrUtilty.cpp)    *)
(* and once for std::string (StringUtilty.cpp), on texts as sequences of     *)
(* characters.  The two differ in more than their types.                     *)
EXTENDS Texts

Semicolon == ";"
Equals == "="
Numerals == <<"0", "1", "2", "3", "4", "5", "6", "7", "8", "9">>
IsDigit(ch) == Contains(Numerals, ch)
IsSpace(ch) == ch \in {Blank, "CR", "LF"}
From(s, i) == SubSeq(s, i, Len(s))

\* strspn
Leading(s, Test(_)) ==
    CHOOSE n \in 0..Len(s) : (\A i \in 1..n : Test(s[i])) /\ (n = Len(s) \/ ~Test(s[n + 1]))

Value(digits) ==
    LET sum[k \in 0..Len(digits)] ==
            IF k = 0 THEN 0
            ELSE 10 * sum[k - 1] + (CHOOSE v \in 0..9 : Numerals[v + 1] = digits[k])
    IN  sum[Len(digits)]
atoi(s) == Value(SubSeq(s, 1, Leading(s, IsDigit)))

NotFound == [found |-> FALSE]
Found(value) == [found |-> TRUE, value |-> value]

\* a number where the text begins with one
NumberAt(s) == IF s # <<>> /\ IsDigit(s[1]) THEN Found(atoi(s)) ELSE NotFound

-----------------------------------------------------------------------------
Bare(s) ==
    LET rest == From(s, Leading(s, IsSpace) + 1)
    IN  SubSeq(rest, 1, Len(rest) - Leading(Reverse(rest), IsSpace))

\* StrTrim(char*): a text of blanks stays as it is
StrTrim(s) ==
    IF Bare(s) # <<>> /\ Bare(s) # s THEN [changed |-> TRUE, text |-> Bare(s)]
    ELSE [changed |-> FALSE, text |-> s]

\* StrTrim(string&): the shorter text is made and not kept
StringTrim(s) == [changed |-> Bare(s) # s, text |-> s]

-----------------------------------------------------------------------------
Starts(s, piece) == {i \in 1..(Len(s) + 1) : Matches(s, i, piece)}
First(S) == CHOOSE i \in S : \A j \in S : i <= j

\* where the count-th key ends, each searched behind the one before; 0 for none
Behind(s, key, count) ==
    LET from[n \in 0..count] ==
            LET starts == {i \in Starts(s, key) : i >= from[n - 1]}
            IN  IF n = 0 THEN 1
                ELSE IF from[n - 1] = 0 \/ starts = {} THEN 0
                ELSE First(starts) + Len(key)
    IN  from[count]

\* The characters of a value: up to the line's end, which is LF or the end of
\* the text, and a CR before that is no part of it.
ValueLength(s, from) ==
    LET ends == {i \in from..Len(s) : s[i] = "LF"}
        end  == IF ends = {} THEN Len(s) + 1 ELSE First(ends)
    IN  (IF s[end - 1] = "CR" THEN end - 1 ELSE end) - from

\* GetValueFromStr(char*), for texts; room is iMaxValueLen
GetValueFromStr(s, key, count, room) ==
    LET from == Behind(s, key, count)
        len  == ValueLength(s, from)
    IN  IF from = 0 THEN NotFound
        ELSE IF len > 0 /\ len < room - 1 THEN Found(SubSeq(s, from, from + len - 1))
        ELSE NotFound

\* ... and for numbers: it skips as many characters of the value as the whole
\* text, not the value, has blanks in front.
GetNumberFromStr(s, key, count) ==
    LET from   == Behind(s, key, count)
        len    == ValueLength(s, from)
        blanks == Leading(SubSeq(s, 1, len), IsSpace)
    IN  IF from = 0 \/ len <= 0 THEN NotFound ELSE NumberAt(From(s, from + blanks))

\* GetValueFromStr(string): a line ends with CR LF or the value is not found
LineOf(s, key, count) ==
    LET from == Behind(s, key, count)
        ends == {i \in from..(Len(s) - 1) : s[i] = "CR" /\ s[i + 1] = "LF"}
    IN  IF from = 0 \/ ends = {} \/ First(ends) = from THEN NotFound
        ELSE Found(SubSeq(s, from, First(ends) - 1))

\* ... and for numbers: only of a value that has blanks for StrTrim to find,
\* which are still there afterwards
GetNumberFromString(s, key, count) ==
    LET line == LineOf(s, key, count)
    IN  IF line.found /\ StringTrim(line.value).changed
        THEN NumberAt(StringTrim(line.value).text) ELSE NotFound

-----------------------------------------------------------------------------
\* what is before the separator and what is behind it
KeyOf(s, delims) == SubSeq(s, 1, First(Starts(s, delims)) - 1)
ValueOf(s, delims) == From(s, First(Starts(s, delims)) + Len(delims))

\* GetKeyAndValueFromStr(string): of the caller's two strings one whose part is
\* empty keeps what it held
KeyAndValue(s, delims, strKey, strValue) ==
    LET key   == KeyOf(s, delims)
        value == ValueOf(s, delims)
    IN  IF Starts(s, delims) = {} THEN NotFound
        ELSE Found([key   |-> IF key = <<>> THEN strKey ELSE key,
                    value |-> IF value = <<>> THEN strValue ELSE value])

\* A buffer, all its characters; the text in it ends before the first NUL.
Nul == "NUL"
TextIn(buffer) ==
    LET ends == {i \in 1..Len(buffer) : buffer[i] = Nul}
    IN  IF ends = {} THEN buffer ELSE SubSeq(buffer, 1, First(ends) - 1)
Copied(buffer, chars) == chars \o From(buffer, Len(chars) + 1)      \* memcpy
Fitting(text, buffer) == IF Len(text) < Len(buffer) THEN text ELSE SubSeq(text, 1, Len(buffer) - 1)

\* GetKeyAndValueFromStr(char*), into the caller's two buffers: it copies what
\* is not empty, ends the key, and puts the end of the value in the key's buffer
\* too (or behind it, where that buffer is shorter), never in the value's
GetKeyAndValueFromStr(s, delims, pKey, pValue) ==
    LET key   == Fitting(KeyOf(s, delims), pKey)
        value == Fitting(ValueOf(s, delims), pValue)
        keyed == IF KeyOf(s, delims) = <<>> THEN pKey ELSE Copied(pKey, Append(key, Nul))
    IN  IF Starts(s, delims) = {} THEN NotFound
        ELSE Found([key   |-> IF ValueOf(s, delims) = <<>> THEN keyed
                              ELSE [keyed EXCEPT ![Len(value) + 1] = Nul],
                    value |-> Copied(pValue, value)])

\* SplitStr: the next piece starts one character behind where a separator does;
\* an empty last piece is kept even if empty ones are not wanted
SplitStr(s, sep, isSkipEmptyItem) ==
    LET start[i \in 1..(Len(s) + 1)] ==
            LET hits  == {j \in i..Len(s) : Matches(s, j, sep)}
                piece == SubSeq(s, i, First(hits) - 1)
            IN  IF hits = {} THEN << From(s, i) >>
                ELSE (IF piece = <<>> /\ isSkipEmptyItem THEN <<>> ELSE << piece >>)
                     \o start[First(hits) + 1]
    IN  IF s = <<>> \/ sep = <<>> THEN <<>> ELSE start[1]

\* SplitParamStr: of two values for a key the later one; one without a key is
\* passed over
Put(out, key, value) == [k \in (DOMAIN out) \cup {key} |-> IF k = key THEN value ELSE out[k]]
WithParam(out, piece) ==
    LET eq == Starts(piece, <<Equals>>)
    IN  IF piece = <<>> \/ (eq # {} /\ First(eq) = 1) THEN out
        ELSE IF eq = {} THEN Put(out, piece, <<"[set]">>)
        ELSE Put(out, SubSeq(piece, 1, First(eq) - 1), From(piece, First(eq) + 1))
SplitParamStr(s) ==
    LET pieces == SplitStr(s, <<Semicolon>>, FALSE)
        out[k \in 0..Len(pieces)] ==
            IF k = 0 THEN [key \in {} |-> <<>>] ELSE WithParam(out[k - 1], pieces[k])
    IN  out[Len(pieces)]

-----------------------------------------------------------------------------
\* What StrTrim leaves has no blank at either end and cannot be trimmed again,
\* unless there was nothing else; true says that it was changed.
TrimRule(s) ==
    LET out == StrTrim(s)
    IN  /\ out.changed <=> out.text # s
        /\ Bare(s) # <<>> =>
              ~IsSpace(Head(out.text)) /\ ~IsSpace(Last(out.text)) /\ ~StrTrim(out.text).changed

\* The two families agree on a value whose line ends with CR LF, given room for
\* it.  They agree on a number only if blanks follow it and none come first,
\* neither in the text nor in the value.
FamiliesAgree(s, key, count) ==
    LET line   == LineOf(s, key, count)
        value  == GetValueFromStr(s, key, count, Len(s) + 2)
        number == GetNumberFromString(s, key, count)
    IN  line.found /\ ~Contains(line.value, "LF") =>
            /\ value = line
            /\ number.found /\ ~IsSpace(s[1]) =>
                  /\ number = GetNumberFromStr(s, key, count)
                  /\ IsSpace(Last(line.value)) /\ ~IsSpace(Head(line.value))

\* What two calls into the same strings, or buffers, leave there: key, separator
\* and value are the text again, but of an empty part the caller has what the
\* call before left.  Given buffers with room, the char* form agrees on the value
\* only where the buffer happens to end with it, and on the key only if that is
\* no longer than the value.
PairRule(s, sep, pKey, pValue) ==
    LET pair  == KeyAndValue(s, sep, TextIn(pKey), TextIn(pValue))
        bufs  == GetKeyAndValueFromStr(s, sep, pKey, pValue)
        key   == pair.value.key
        value == pair.value.value
    IN  /\ pair.found <=> bufs.found
        /\ pair.found =>
             \E k \in {key, <<>>}, v \in {value, <<>>} :
               /\ k \o sep \o v = s
               /\ k # key => key = TextIn(pKey)
               /\ v # value => value = TextIn(pValue)
               /\ Len(s) < Len(pKey) /\ Len(s) < Len(pValue) =>
                    /\ TextIn(bufs.value.value) = value <=> v = <<>> \/ pValue[Len(v) + 1] = Nul
                    /\ TextIn(bufs.value.key) = key <=> v = <<>> \/ Len(key) <= Len(v)

\* Parameters written key=value;key=value are read back, values with an = too.
ParamRule(params) ==
    LET keys   == SetToSeq(DOMAIN params)
        pieces == [i \in 1..Len(keys) |-> keys[i] \o <<Equals>> \o params[keys[i]]]
    IN  SplitParamStr(Joined(pieces, Semicolon)) = params
=============================================================================
