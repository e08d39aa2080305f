------------------------------ MODULE XmlTree ------------------------------
(* SimpleXMLParser and SimpleXMLMaker of common/tinyxml: a document with a   *)
(* current node, addressed by paths.  The elements are numbered, each from   *)
(* above its parent, and an element that is freed leaves no number behind.   *)
(* Numbers, dates and byte arrays are written and read as texts by the       *)
(* overloads of the operations here.                                         *)
EXTENDS Integers, FiniteSets, SequencesExt

CONSTANTS
    Names,        \* titles of elements
    Values,       \* texts
    Paths,        \* paths the caller uses: [abs, steps], a step is [name, index]
    Documents,    \* documents Parse succeeds on, as trees
    MaxNodes,     \* bound on the elements of a document
    MaxItems,     \* bound on the children of a node
    MaxCalls      \* bound on the calls of a run

Doc == 0          \* the document itself, which ".." can cast to an element
Null == -1        \* no current node: paths start at the document
Dangling == -2    \* an element that was freed
Empty == ""       \* no text, and the title of the document

Titles == Names \cup {Empty}

VARIABLES
    m_doc,        \* a document was made
    tree,         \* node -> [title, kids: its children in order]
    m_currNode,
    last,         \* the last call, its path and value
    crashed,      \* a null pointer was followed
    calls         \* calls made
xmlVars == <<m_doc, tree, m_currNode, last, crashed, calls>>

Elem(n) == [elem |-> n]
Text(v) == [text |-> v]
Declaration == [declaration |-> "1.0"]
IsElem(item) == item \in [elem : Nat]
IsText(item) == item \in [text : STRING]
Item == [elem : Nat] \cup [text : STRING] \cup {Declaration}

Node(title, kids) == [title |-> title, kids |-> kids]

Holds(T, n, e) == \E j \in DOMAIN T[n].kids : T[n].kids[j] = Elem(e)

\* Every element has one place, under a node with a smaller number.
IsTree(T) ==
    /\ Doc \in DOMAIN T /\ DOMAIN T \subseteq Nat /\ IsFiniteSet(DOMAIN T)
    /\ T \in [DOMAIN T -> [title : Titles, kids : Seq(Item)]]
    /\ \A n \in DOMAIN T : \A j \in DOMAIN T[n].kids :
           IsElem(T[n].kids[j]) =>
               /\ T[n].kids[j].elem \in DOMAIN T
               /\ n < T[n].kids[j].elem
               /\ \A m \in DOMAIN T : \A k \in DOMAIN T[m].kids :
                      T[m].kids[k] = T[n].kids[j] => m = n /\ k = j
    /\ \A e \in DOMAIN T \ {Doc} : \E n \in DOMAIN T : Holds(T, n, e)

ASSUME NamesAssumption == Names \subseteq STRING \ {Empty, ".", ".."} /\ Values \subseteq STRING
ASSUME PathsAssumption ==
    Paths \subseteq [abs : BOOLEAN, steps : Seq([name : Names \cup {".", ".."}, index : Int])]
ASSUME DocumentsAssumption == \A T \in Documents : IsTree(T)

Blank == [n \in {Doc} |-> Node(Empty, <<>>)]
NewDocument == [n \in {Doc} |-> Node(Empty, <<Declaration>>)]
NoCall == [op |-> "none", path |-> [abs |-> TRUE, steps |-> <<>>], val |-> Empty]

\* made without a text, from one that is refused or has no root, or from a document
Init ==
    /\ \/ m_doc = FALSE /\ tree = Blank
       \/ m_doc = TRUE /\ tree \in {NewDocument} \cup Documents
    /\ m_currNode = Null
    /\ last = NoCall
    /\ crashed = FALSE
    /\ calls = 0

-----------------------------------------------------------------------------
\* The tree.
\* The elements among the items that are in S, in order.
Picked(items, S) ==
    LET upto[k \in 0..Len(items)] ==
            IF k = 0 THEN <<>>
            ELSE IF IsElem(items[k]) /\ items[k].elem \in S
                 THEN Append(upto[k - 1], items[k].elem)
            ELSE upto[k - 1]
    IN  upto[Len(items)]

Titled(T, name) == {e \in DOMAIN T : T[e].title = name}
ElementsOf(T, n) == Picked(T[n].kids, DOMAIN T)
Named(T, n, name) == Picked(T[n].kids, Titled(T, name))

ParentOf(T, e) == IF e \in {Doc, Null} THEN Null ELSE CHOOSE n \in DOMAIN T : Holds(T, n, e)
PlaceOf(T, e) ==
    LET kids == T[ParentOf(T, e)].kids IN CHOOSE j \in DOMAIN kids : kids[j] = Elem(e)

\* what is in every set that has the elements of n and those of its members
Below(T, n) ==
    {e \in DOMAIN T :
        \A S \in SUBSET DOMAIN T :
            (\A m \in S \cup {n} : \A k \in DOMAIN T : Holds(T, m, k) => k \in S) => e \in S}

\* TiXmlNode::LinkEndChild with a new element, and with a text
New(T) == Max(DOMAIN T) + 1
Held(T, n, item) == [T EXCEPT ![n] = Node(@.title, Append(@.kids, item))]
Link(T, n, name) ==
    [k \in DOMAIN T \cup {New(T)} |->
        IF k = New(T) THEN Node(name, <<>>) ELSE Held(T, n, Elem(New(T)))[k]]
LinkText(T, n, val) == Held(T, n, Text(val))

\* TiXmlNode::Clear, and RemoveChild with what hangs below
Freed(T, gone) == [n \in DOMAIN T \ gone |-> T[n]]
Clear(T, n) == [Freed(T, Below(T, n)) EXCEPT ![n] = Node(@.title, <<>>)]
RemoveChild(T, n) ==
    [Freed(T, Below(T, n) \cup {n}) EXCEPT
        ![ParentOf(T, n)] = Node(@.title, RemoveAt(@.kids, PlaceOf(T, n)))]

\* TiXmlElement::GetText: the first child, if it is a text
TextOf(T, n) ==
    IF T[n].kids # <<>> /\ IsText(Head(T[n].kids)) THEN Head(T[n].kids).text ELSE "no value"

-----------------------------------------------------------------------------
\* Paths.  Without a node the search is among the children of the document.
From(n) == IF n = Null THEN Doc ELSE n

\* not the code: the index counts from 1
FindFromOne(T, n, step) ==
    IF step.name = "." THEN [found |-> TRUE, node |-> n]
    ELSE IF step.name = ".." THEN [found |-> TRUE, node |-> ParentOf(T, n)]
    ELSE LET same == Named(T, From(n), step.name)
         IN  IF step.index \in DOMAIN same
             THEN [found |-> TRUE, node |-> same[step.index]]
             ELSE [found |-> FALSE, node |-> Null]

\* _find_node: the index counts the siblings of the name from 0
_find_node(T, n, step) ==
    IF step.name = "." THEN [found |-> TRUE, node |-> n]
    ELSE IF step.name = ".." THEN [found |-> TRUE, node |-> ParentOf(T, n)]
    ELSE LET same == Named(T, From(n), step.name)
         IN  IF step.index \in 0..(Len(same) - 1)
             THEN [found |-> TRUE, node |-> same[step.index + 1]]
             ELSE [found |-> FALSE, node |-> Null]

\* Step by step, until one is not found.
Walk(T, from, steps) ==
    LET to[k \in 0..Len(steps)] ==
            IF k = 0 THEN [found |-> TRUE, node |-> from]
            ELSE IF to[k - 1].found THEN _find_node(T, to[k - 1].node, steps[k])
            ELSE to[k - 1]
    IN  to[Len(steps)]

Start(path) == IF path.abs THEN Null ELSE m_currNode

\* _goto: "" and "." lead to the current node, "/" to none.
_goto(T, path) == Walk(T, Start(path), path.steps)

\* not the code: one element, whatever the index
CreateOne(at, step) ==
    LET seek == _find_node(at.tree, at.node, step)
        n    == From(at.node)
        more == Link(at.tree, n, step.name)
    IN  IF seek.found THEN [at EXCEPT !.node = seek.node]
        ELSE IF step.index < 0 THEN [at EXCEPT !.node = Null]
        ELSE [tree |-> more, node |-> Last(ElementsOf(more, n))]

Grown(T, n, name, add) ==
    LET more[i \in 0..add] == IF i = 0 THEN T ELSE Link(more[i - 1], n, name)
    IN  more[add]

\* _find_and_create_node: as many elements as it takes for the index to exist
_find_and_create_node(at, step) ==
    LET seek == _find_node(at.tree, at.node, step)
        n    == From(at.node)
        add  == step.index + 1 - Len(Named(at.tree, n, step.name))
        full == Grown(at.tree, n, step.name, add)
    IN  IF seek.found THEN [at EXCEPT !.node = seek.node]
        ELSE IF step.index < 0 THEN [at EXCEPT !.node = Null]
        ELSE [tree |-> full, node |-> Last(ElementsOf(full, n))]

MakeWay(T, from, steps) ==
    LET at[k \in 0..Len(steps)] ==
            IF k = 0 THEN [tree |-> T, node |-> from]
            ELSE _find_and_create_node(at[k - 1], steps[k])
    IN  at[Len(steps)]

\* _create_mult_node
_create_mult_node(T, path) == MakeWay(T, Start(path), path.steps)

-----------------------------------------------------------------------------
\* The operations.  _create_xml_: the first one makes a document.
TheTree == IF m_doc THEN tree ELSE NewDocument

Within(T) ==
    /\ Cardinality(DOMAIN T) <= MaxNodes + 1
    /\ \A n \in DOMAIN T : Len(T[n].kids) <= MaxItems

Becomes(T) == Within(T) /\ tree' = T /\ m_doc' = TRUE
Noted(op, path, val) == last' = [op |-> op, path |-> path, val |-> val]

\* With the current node freed only a path from the document is sound.
Called == ~crashed /\ calls < MaxCalls /\ calls' = calls + 1
Usable(path) == Called /\ (path.abs \/ m_currNode # Dangling)
Sound == Called /\ m_currNode # Dangling

\* Goto; GetNodeName and GetValue walk the same way and move nothing
Goto ==
    \E path \in Paths :
        /\ Usable(path)
        /\ Becomes(TheTree)
        /\ LET to == _goto(TheTree, path) IN
               m_currNode' = IF to.found THEN to.node ELSE m_currNode
        /\ last' = NoCall
        /\ UNCHANGED crashed

GotoFirstChild ==
    /\ Sound /\ m_doc
    /\ ElementsOf(tree, From(m_currNode)) # <<>>
    /\ m_currNode' = Head(ElementsOf(tree, From(m_currNode)))
    /\ last' = NoCall
    /\ UNCHANGED <<m_doc, tree, crashed>>

\* the elements after e among its siblings, all or those of a name (Empty is all)
After(T, e, name) ==
    LET kids == T[ParentOf(T, e)].kids
    IN  Picked(SubSeq(kids, PlaceOf(T, e) + 1, Len(kids)),
               IF name = Empty THEN DOMAIN T ELSE Titled(T, name))

\* Next: nothing follows no node, or the document
Next_(name) ==
    /\ Sound /\ m_currNode \in DOMAIN tree \ {Doc}
    /\ After(tree, m_currNode, name) # <<>>
    /\ m_currNode' = Head(After(tree, m_currNode, name))
    /\ last' = NoCall
    /\ UNCHANGED <<m_doc, tree, crashed>>

NextSibling == \E name \in Names \cup {Empty} : Next_(name)

\* AddNode: the path is made where it is missing, the current node is its end
AddNode ==
    \E path \in Paths :
        /\ Usable(path)
        /\ LET made == _create_mult_node(TheTree, path) IN
               /\ Becomes(made.tree)
               /\ m_currNode' = made.node
        /\ Noted("AddNode", path, Empty)
        /\ UNCHANGED crashed

\* SimpleAddNode: another child of the current node, whatever there is
SimpleAddNode ==
    \E name \in Names :
        /\ Sound
        /\ LET more == Link(TheTree, From(m_currNode), name) IN
               /\ Becomes(more)
               /\ m_currNode' = Last(ElementsOf(more, From(m_currNode)))
        /\ last' = NoCall
        /\ UNCHANGED crashed

\* AddValue: a text at the end of the path; there is none to a node that is none
Added(path, val) ==
    LET made == _create_mult_node(TheTree, path)
    IN  IF made.node = Null THEN made.tree ELSE LinkText(made.tree, made.node, val)

AddValue ==
    \E path \in Paths, val \in Values :
        /\ Usable(path)
        /\ Becomes(Added(path, val))
        /\ last' = NoCall
        /\ UNCHANGED <<m_currNode, crashed>>

SimpleAddValue ==
    \E name \in Names, val \in Values :
        /\ Sound
        /\ LET n    == From(m_currNode)
               more == Link(TheTree, n, name)
           IN  Becomes(LinkText(more, Last(ElementsOf(more, n)), val))
        /\ last' = NoCall
        /\ UNCHANGED <<m_currNode, crashed>>

\* the current node after the elements in `gone' were freed
Cut(gone) == IF m_currNode \in gone THEN Dangling ELSE m_currNode

\* a path that leads to no node: it is cleared, or removed, all the same
FollowsNull(path) ==
    /\ Usable(path)
    /\ _goto(TheTree, path) = [found |-> TRUE, node |-> Null]
    /\ crashed' = TRUE
    /\ Becomes(TheTree)
    /\ last' = NoCall
    /\ UNCHANGED m_currNode

UpdateNull == \E path \in Paths : FollowsNull(path)
EraseNull == \E path \in Paths : FollowsNull(path)

\* not the code: what is below the node stays
UpdateAppends ==
    \E path \in Paths, val \in Values :
        /\ Usable(path)
        /\ LET to == _goto(TheTree, path) IN to.found => to.node # Null
        /\ Becomes(Added(path, val))
        /\ Noted("UpdateValue", path, val)
        /\ UNCHANGED <<m_currNode, crashed>>

\* UpdateValue: what is below the node is freed and a text takes its place; a
\* node that is not there is added
UpdateValue ==
    \E path \in Paths, val \in Values :
        /\ Usable(path)
        /\ LET to == _goto(TheTree, path) IN
               IF to.found
               THEN /\ to.node # Null
                    /\ Becomes(LinkText(Clear(TheTree, to.node), to.node, val))
                    /\ m_currNode' = Cut(Below(TheTree, to.node))
                    /\ Noted("UpdateValue", path, val)
               ELSE /\ Becomes(Added(path, val))
                    /\ last' = IF _create_mult_node(TheTree, path).node = Null THEN NoCall
                               ELSE [op |-> "UpdateValue", path |-> path, val |-> val]
                    /\ UNCHANGED m_currNode
        /\ UNCHANGED crashed

\* not the code: the current node is left alone
EraseOnly ==
    \E path \in Paths :
        /\ Usable(path)
        /\ LET to == _goto(TheTree, path) IN
               /\ to.found /\ to.node # Null
               /\ Becomes(IF to.node = Doc THEN TheTree ELSE RemoveChild(TheTree, to.node))
               /\ m_currNode' = IF to.node = Doc THEN m_currNode
                                ELSE Cut(Below(TheTree, to.node) \cup {to.node})
        /\ Noted("EraseValue", path, Empty)
        /\ UNCHANGED crashed

\* EraseValue: the node goes with all below it.  Only when it is the current
\* node is that set back.  The document has no parent to remove it from.
EraseValue ==
    \E path \in Paths :
        /\ Usable(path)
        /\ LET to == _goto(TheTree, path) IN
               /\ to.found /\ to.node # Null
               /\ Becomes(IF to.node = Doc THEN TheTree ELSE RemoveChild(TheTree, to.node))
               /\ m_currNode' = IF m_currNode = to.node THEN Null
                                ELSE IF to.node = Doc THEN m_currNode
                                ELSE Cut(Below(TheTree, to.node))
        /\ Noted("EraseValue", path, Empty)
        /\ UNCHANGED crashed

\* Parse and ParseFile: everything is freed and the document read, or left empty
\* where it cannot be.  The current node stays what it was.
Parse ==
    /\ Called
    /\ \E T \in Documents \cup {Blank} : Becomes(T)
    /\ m_currNode' = IF m_currNode \in {Null, Doc} THEN m_currNode ELSE Dangling
    /\ last' = NoCall
    /\ UNCHANGED crashed

Next ==
    \/ Goto \/ GotoFirstChild \/ NextSibling
    \/ AddNode \/ SimpleAddNode \/ AddValue \/ SimpleAddValue
    \/ UpdateValue \/ UpdateNull \/ EraseValue \/ EraseNull
    \/ Parse

Spec == Init /\ [][Next]_xmlVars

-----------------------------------------------------------------------------
\* no "..", and no index that no element can have
Plain(path) == \A i \in DOMAIN path.steps : path.steps[i].name # ".." /\ path.steps[i].index >= 0

\* AddNode leads to the element it makes or finds: the same path finds it again,
\* and to call it again would add nothing.
AddedIsFound ==
    last.op = "AddNode" /\ last.path.abs /\ Plain(last.path) =>
        /\ _goto(tree, last.path) = [found |-> TRUE, node |-> m_currNode]
        /\ _create_mult_node(tree, last.path) = [tree |-> tree, node |-> m_currNode]

\* UpdateValue replaces: what GetValue reads at the path is the value just given,
\* whether the node was there or not, and it is the only one.
UpdatedIsRead ==
    last.op = "UpdateValue" /\ Plain(last.path) /\ (last.path.abs \/ m_currNode # Dangling) =>
        LET to == _goto(tree, last.path)
        IN  to.found /\ TextOf(tree, to.node) = last.val /\ Len(tree[to.node].kids) = 1

\* The loop the header gives, Goto to the first of a name and Next of that name
\* until it fails, visits the elements that the indexes 0, 1, ... lead to, each
\* once and in that order, and no index leads further.
LoopMeetsIndex ==
    \A n \in DOMAIN tree, name \in Names :
        LET at(i)  == _find_node(tree, n, [name |-> name, index |-> i])
            count  == Len(Named(tree, n, name))
        IN  \A i \in 0..count :
                IF i = count THEN ~at(i).found
                ELSE /\ at(i).found
                     /\ After(tree, at(i).node, name) =
                            [j \in 1..(count - i - 1) |-> at(i + j).node]

\* Whoever only gives paths that lead down from the current node, to erase and
\* update what is below it or the node itself, never has it freed under the
\* next call: that takes Parse, or a path from the document or through "..".
DownwardIsSound ==
    [][m_currNode' = Dangling /\ m_currNode > Doc /\ ~Parse =>
           last'.path.abs \/ \E i \in DOMAIN last'.path.steps : last'.path.steps[i].name = ".."]_xmlVars
=============================================================================
