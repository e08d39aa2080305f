----------------------------- MODULE MCXmlTree -----------------------------
EXTENDS XmlTree

MCNames == {"a", "b"}
MCValues == {"v", "w"}

Step(name, index) == [name |-> name, index |-> index]
FromRoot(steps) == [abs |-> TRUE, steps |-> steps]
Here(steps) == [abs |-> FALSE, steps |-> steps]

\* "/", "", "..", "../b", "/a", "/a:1/b", "b", "b/../b" and "/a:-1"
MCPaths ==
    { FromRoot(<<>>), Here(<<>>), Here(<<Step("..", 0)>>),
      Here(<<Step("..", 0), Step("b", 0)>>), FromRoot(<<Step("a", 0)>>),
      FromRoot(<<Step("a", 1), Step("b", 0)>>), Here(<<Step("b", 0)>>),
      Here(<<Step("a", 0), Step("..", 0), Step("b", 0)>>), FromRoot(<<Step("a", -1)>>) }

\* <a>v<b/></a><b/> and <a/><a>v<b>w</b></a>, the second without a declaration
MCDocuments ==
    { [n \in 0..3 |-> <<Node(Empty, <<Declaration, Elem(1), Elem(3)>>),
                        Node("a", <<Text("v"), Elem(2)>>), Node("b", <<>>),
                        Node("b", <<>>)>>[n + 1]],
      [n \in 0..3 |-> <<Node(Empty, <<Elem(1), Elem(2)>>), Node("a", <<>>),
                        Node("a", <<Text("v"), Elem(3)>>),
                        Node("b", <<Text("w")>>)>>[n + 1]] }
=============================================================================
