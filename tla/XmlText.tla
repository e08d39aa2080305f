------------------------------ MODULE XmlText ------------------------------
(* SimpleXmlMaker of common/tinyxml/myXmlParse.cpp: XML written as text, line *)
(* by line.  A line is [kind, title, space]: an opening or a closing tag, a   *)
(* value between its two tags, or other text, after `space' units of two      *)
(* blanks.                                                                    *)
EXTENDS Integers, SequencesExt

CONSTANTS
    Titles,      \* names of nodes
    Spaces,      \* indentations the caller asks for
    MaxText,     \* lines of a text
    MaxSpace     \* bound on m_iSpace, which no call bounds

VARIABLES
    m_str,       \* the text
    m_iSpace,    \* the indentation of the next line
    m_nodelst,   \* the nodes that are open, the innermost last
    base         \* m_iSpace when the maker was made or last given a text
textVars == <<m_str, m_iSpace, m_nodelst, base>>

NoTitle == ""
AtLeast0(i) == IF i < 0 THEN 0 ELSE i

\* space(): from nothing to seven units
space(i) == IF i >= 8 THEN 7 ELSE AtLeast0(i)

\* the constructor, with a text given or not (nothing is read from it)
XmlInit ==
    /\ m_str = <<>>
    /\ \E i \in Spaces : m_iSpace = AtLeast0(i)
    /\ m_nodelst = <<>>
    /\ base = m_iSpace

Line(kind, title, i) == [kind |-> kind, title |-> title, space |-> space(i)]
Write(line) ==
    /\ Len(m_str) < MaxText
    /\ m_str' = Append(m_str, line)

\* both forms, with attributes or without
AddNode ==
    /\ m_iSpace < MaxSpace
    /\ \E title \in Titles :
           /\ Write(Line("open", title, m_iSpace))
           /\ m_nodelst' = Append(m_nodelst, title)
    /\ m_iSpace' = m_iSpace + 1
    /\ UNCHANGED base

\* not the code: the tag is written before the indentation goes back
EndNodeLate ==
    /\ m_nodelst # <<>>
    /\ m_iSpace' = AtLeast0(m_iSpace - 1)
    /\ Write(Line("close", Last(m_nodelst), m_iSpace))
    /\ m_nodelst' = Front(m_nodelst)
    /\ UNCHANGED base

\* without an open node it does nothing
EndNode ==
    /\ m_nodelst # <<>>
    /\ m_iSpace' = AtLeast0(m_iSpace - 1)
    /\ Write(Line("close", Last(m_nodelst), m_iSpace'))
    /\ m_nodelst' = Front(m_nodelst)
    /\ UNCHANGED base

\* AddValue for strings and numbers, AddValueV
AddValue ==
    /\ \E title \in Titles : Write(Line("value", title, m_iSpace))
    /\ UNCHANGED <<m_iSpace, m_nodelst, base>>

\* AddText, at the indentation of the text (-1) or one of its own; AddHead
AddText ==
    /\ \E i \in Spaces \cup {-1} :
           Write(Line("text", NoTitle, IF i = -1 THEN m_iSpace ELSE i))
    /\ UNCHANGED <<m_iSpace, m_nodelst, base>>

\* str(s, ispacenum): another text, no node open.  With -1 the indentation
\* stays where the nodes that were open left it.
Str ==
    \E i \in Spaces \cup {-1} :
        /\ m_str # <<>>
        /\ m_str' = <<>>
        /\ m_iSpace' = IF i >= 0 THEN i ELSE m_iSpace
        /\ m_nodelst' = <<>>
        /\ base' = m_iSpace'

XmlNext == AddNode \/ EndNode \/ AddValue \/ AddText \/ Str

XmlSpec == XmlInit /\ [][XmlNext]_textVars

\* what the lines read so far leave open, and whether they are in order: a closing
\* tag names the node it closes and stands where its opening tag does
Start == [nodes |-> <<>>, ok |-> TRUE]
Read(acc, line) ==
    CASE line.kind = "open" -> [acc EXCEPT !.nodes = Append(@, line)]
      [] line.kind = "close" ->
            IF acc.nodes = <<>> THEN [acc EXCEPT !.ok = FALSE]
            ELSE [nodes |-> Front(acc.nodes),
                  ok |-> acc.ok /\ Last(acc.nodes) = [line EXCEPT !.kind = "open"]]
      [] line.kind = "value" -> [acc EXCEPT !.ok = @ /\ line.space = space(base + Len(acc.nodes))]
      [] OTHER -> acc
Opened(text) ==
    LET read[n \in 0..Len(text)] == IF n = 0 THEN Start ELSE Read(read[n - 1], text[n])
    IN  read[Len(text)]

\* Whatever calls were made, the text is well formed but for the nodes that are
\* still open, which are those of m_nodelst: EndNode as often as there are nodes
\* left completes it.  A node's two tags are indented alike, and what is in it one
\* unit further, up to seven.
Balanced ==
    LET read == Opened(m_str) IN
    /\ read.ok
    /\ [i \in DOMAIN read.nodes |-> read.nodes[i].title] = m_nodelst
    /\ m_iSpace = base + Len(m_nodelst)
=============================================================================
