-------------------------- MODULE MCSyntaxChunker --------------------------
(***************************************************************************)
(* Documents for SyntaxChunker: up to three items under a root, among them *)
(* functions that are too long with a name and a body, classes whose       *)
(* methods are too long or not, and inner nodes with leaves.               *)
(***************************************************************************)
EXTENDS SyntaxChunker

\* Trees before they have a place in a text.
LenOf(nodes) == FoldLeft(LAMBDA sum, n : sum + n.len, 0, nodes)
Leaf1(kind, len) == [kind |-> kind, len |-> len, kids |-> <<>>]
Node(kind, kids) == [kind |-> kind, len |-> LenOf(kids), kids |-> kids]

\* Items that fit.
Small == {Leaf1("top", 1), Leaf1("top", 2), Leaf1("top", 5),
          Leaf1("comment", 1), Leaf1("comment", 2), Leaf1("comment", 7),
          Leaf1("inner", 2), Leaf1("token", 1), Leaf1("extra", 2), Leaf1("error", 2)}

\* Inner nodes: leaves, or a list of declarations.
Inner == {Node("inner", <<Leaf1("inner", 2), Leaf1("token", 1), Leaf1("inner", 3)>>),
          Node("inner", <<Leaf1("top", 2), Leaf1("top", 3)>>)}

\* Functions and classes with more than five words.
Function(body) == Node("top", <<Leaf1("token", 1), Leaf1("inner", 1), body>>)
Large == {Function(Leaf1("inner", 8)),
          Function(Leaf1("top", 4)),
          Node("top", <<Leaf1("inner", 9), Leaf1("extra", 2)>>),
          Node("top", <<Leaf1("inner", 1), Function(Leaf1("inner", 6)), Leaf1("top", 2)>>),
          Node("top", <<Function(Leaf1("top", 5)), Leaf1("error", 1), Leaf1("top", 3)>>)}

Items == Small \cup Inner \cup Large
Bodies == UNION {[1 .. n -> Items] : n \in 1 .. 3}
Trees == {Leaf1("top", 0), Leaf1("inner", 4)}
    \cup {Node(kind, body) : kind \in {"top", "inner"}, body \in Bodies}

\* The nodes of a tree at a word, the first of which has this number.
RECURSIVE Nodes(_, _, _), Below(_, _, _, _)
Nodes(tree, word, n) ==
    LET below == Below(tree.kids, word, n + 1, [nodes |-> <<>>, kids |-> <<>>])
    IN  <<[kind |-> tree.kind, word |-> word, len |-> tree.len, kids |-> below.kids]>> \o below.nodes
Below(trees, word, n, acc) ==
    IF trees = <<>> THEN acc
    ELSE LET nodes == Nodes(Head(trees), word, n)
         IN  Below(Tail(trees), word + Head(trees).len, n + Len(nodes),
                   [nodes |-> acc.nodes \o nodes, kids |-> Append(acc.kids, n)])

MCDocuments == {Nodes(tree, 0, 1) : tree \in Trees}
=============================================================================
