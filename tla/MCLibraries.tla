---------------------------- MODULE MCLibraries ----------------------------
EXTENDS Libraries

\* the texts the text functions are tried on
Words(letters, longest) == UNION {[1..n -> letters] : n \in 0..longest}
\* buffers as a caller has them: cleared, with a text from before, too short
MCBuffers == {[i \in 1..6 |-> IF i <= n THEN "o" ELSE "NUL"] : n \in {0, 1, 3, 5}} \cup {<<"o", "NUL">>}
MCInputs ==
    [kind : {"hex"}, bytes : Words({0, 10, 160, 171}, 2), fmt : {0, 1, 2, 4, 5, 6}]
    \cup [kind : {"split"}, s : Words({"a", "-"}, 4), sep : {"-"}]
    \cup [kind : {"trim"}, s : Words({" ", "k", "LF"}, 5)]
    \cup [kind : {"line"}, s : {<<"k">> \o w : w \in Words({" ", "k", "7", "CR", "LF"}, 4)}
                                \cup {<<" ", "k">> \o w : w \in Words({" ", "7", "CR", "LF"}, 4)},
           key : {<<"k">>}, count : {1, 2}]
    \cup [kind : {"pair"}, s : Words({"k", "7", "="}, 4), sep : {<<"=">>, <<"=", "=">>},
           pKey : MCBuffers, pValue : MCBuffers]
    \cup [kind : {"params"},
           params : UNION {[K -> Words({"v", "="}, 2)] : K \in SUBSET {<<"a">>, <<"a", "b">>, <<"b">>}}]
    \cup [kind : {"match"}, s : Words({"a", "b"}, 4), pattern : Words({"a", "b", "*"}, 3)]

\* indentations asked for: a negative one counts as none
MCSpaces == {-2, 0, 6}
=============================================================================
