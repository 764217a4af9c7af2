--------------------------- MODULE SyntaxChunker ---------------------------
(***************************************************************************)
(* SyntaxChunker::chunk_text of src/src/syntax_chunker.rs: the walk over   *)
(* the tree that tree-sitter returns, with its stack, then the merging of  *)
(* small chunks, and the word windows of module Chunker for a text without *)
(* grammar or without chunks.  Words are one byte long and one byte apart: *)
(* word w is the byte 2w.  A chunk is its range of bytes, the text is cut  *)
(* out of the source at the end.  One step is one turn of a loop.          *)
(***************************************************************************)
EXTENDS Chunker, SequencesExt

CONSTANT Documents  \* syntax trees

VARIABLES
    doc,            \* the syntax tree
    pc,             \* walk, children, split, merge, cut, windows or done
    stack,          \* nodes still to visit, with the context they inherited
    parent,         \* the oversized node whose children are being emitted
    children,       \* those still to come
    split,          \* where split_by_words is in a child
    chunks,         \* the ranges
    merged,         \* those that merge_small_chunks is done with
    due,            \* for the properties: what the walk found worth a chunk, in that order,
    headers         \* and where the oversized nodes start
syntaxVars == <<doc, pc, stack, parent, children, split, chunks, merged, due, headers>>
vars == <<chunkerVars, syntaxVars>>

(***************************************************************************)
(* Trees and texts                                                         *)
(***************************************************************************)
\* A tree is its nodes, the root first.  A node has a kind, its first word, its number of
\* words, and children, which come behind it, lie inside it and follow each other.
\*   "top":     a named node that is_top_level_node knows
\*   "inner":   any other named node
\*   "comment": an extra node of a comment kind
\*   "extra":   any other named extra node, which the walk skips and its parent may emit
\*   "token":   an unnamed node
\*   "error":   an error or missing node
Kinds == {"top", "inner", "comment", "extra", "token", "error"}
NodeType == [kind : Kinds, word : Nat, len : Nat, kids : Seq(Nat)]

Inside(kid, node) ==
    node.word <= kid.word /\ kid.word < node.word + node.len /\ kid.word + kid.len <= node.word + node.len
Follows(second, first) == first.word + first.len <= second.word

ASSUME DocumentsAssumption == \A tree \in Documents :
    /\ tree \in Seq(NodeType) /\ tree # <<>> /\ tree[1].word = 0
    /\ \A n \in DOMAIN tree : LET kids == tree[n].kids IN \A i \in DOMAIN kids :
        /\ kids[i] \in n + 1 .. Len(tree) /\ Inside(tree[kids[i]], tree[n])
        /\ \A j \in 1 .. i - 1 : Follows(tree[kids[i]], tree[kids[j]])

\* node.start_byte() and node.end_byte().
Start(node) == 2 * node.word
End(node) == IF node.len = 0 THEN Start(node) ELSE 2 * (node.word + node.len) - 1
TextLen == End(doc[1])

\* WordIndex: the words that start before a byte; count_words.
Prefix(byte) == (byte + 1) \div 2
CountWords(start, end) == IF start >= end \/ end > TextLen THEN 0 ELSE Prefix(end) - Prefix(start)

\* count_words at the end of the file cuts the range to the text.
CountWordsIn(start, end) ==
    IF start >= end \/ start >= TextLen THEN 0
    ELSE Prefix(IF end < TextLen THEN end ELSE TextLen) - Prefix(start)

Words(node) == CountWords(Start(node), End(node))

\* overlap_range: of the bytes with the sought count the binary search returns the last,
\* which is the start of a word.
OverlapStart(byte) ==
    IF Overlap = 0 \/ byte = 0 THEN byte
    ELSE IF Prefix(byte) <= Overlap THEN 0 ELSE 2 * (Prefix(byte) - Overlap)

(***************************************************************************)
(* merge_ranges: how far in front of its node a chunk starts               *)
(***************************************************************************)
None == -1
NoSplit == [from |-> 0, prevEnd |-> None]
Lesser(a, b) == IF a < b THEN a ELSE b

\* Mutation: the context may start before the end of the last chunk.
AnyContext(ctx, start, prevEnd) == ctx # None /\ ctx < start

\* A context starts at its node's header, but not inside what is in a chunk.
TakesContext(ctx, start, prevEnd) == ctx # None /\ ctx < start /\ ctx >= prevEnd

RangeOf(ctx, node, prevEnd) ==
    LET start == Lesser(Start(node), OverlapStart(Start(node)))
    IN  [start |-> IF TakesContext(ctx, start, prevEnd) THEN ctx ELSE start, end |-> End(node)]

PrevEnd == IF chunks = <<>> THEN 0 ELSE Last(chunks).end

Own(node) == [start |-> Start(node), end |-> End(node)]

Emit(node, range) == chunks' = Append(chunks, range) /\ due' = Append(due, Own(node))

(***************************************************************************)
(* The walk                                                                *)
(***************************************************************************)
SyntaxInit ==
    /\ doc \in Documents
    /\ pc \in {"walk", "windows"}      \* without a grammar there is no tree
    /\ words = doc[1].len /\ startWord = 0 /\ windows = <<>> /\ running = (pc = "windows")
    /\ stack = <<[node |-> 1, ctx |-> None]>>
    /\ parent = None /\ children = <<>> /\ split = NoSplit
    /\ chunks = <<>> /\ merged = <<>> /\ due = <<>> /\ headers = {}

Top == doc[Last(stack).node]
Context == Last(stack).ctx

\* Mutation: an error node is looked at, not taken off.
LeftOn == IF Top.kind = "error" THEN stack ELSE Front(stack)

Rest == Front(stack)

Visits(kinds) == pc = "walk" /\ stack # <<>> /\ Top.kind \in kinds

\* Errors, unnamed tokens and other extras, and comments of less than two words.
Skip ==
    /\ Visits({"error", "token", "extra", "comment"})
    /\ Top.kind = "comment" => Words(Top) < 2
    /\ stack' = Rest
    /\ UNCHANGED <<chunkerVars, doc, pc, parent, children, split, chunks, merged, due, headers>>

Comment ==
    /\ Visits({"comment"}) /\ Words(Top) >= 2
    /\ stack' = Rest
    /\ Emit(Top, Own(Top))
    /\ UNCHANGED <<chunkerVars, doc, pc, parent, children, split, merged, headers>>

\* A top-level node that fits is one chunk.
Fits(node) == Words(node) > 0 /\ Words(node) <= MaxChunk

WholeNode ==
    /\ Visits({"top"}) /\ Fits(Top)
    /\ stack' = Rest
    /\ Emit(Top, RangeOf(Context, Top, PrevEnd))
    /\ UNCHANGED <<chunkerVars, doc, pc, parent, children, split, merged, headers>>

\* One that does not: its children come next, with its header as context.
Oversized ==
    /\ Visits({"top"}) /\ ~Fits(Top)
    /\ stack' = Rest
    /\ pc' = "children" /\ parent' = Start(Top) /\ children' = Top.kids
    /\ headers' = headers \cup {Start(Top)}
    /\ UNCHANGED <<chunkerVars, doc, split, chunks, merged, due>>

\* The children of any other node are pushed in order, so that the last is visited first.
Intermediate ==
    /\ Visits({"inner"}) /\ Top.kids # <<>>
    /\ stack' = Rest \o [i \in DOMAIN Top.kids |-> [node |-> Top.kids[i], ctx |-> Context]]
    /\ UNCHANGED <<chunkerVars, doc, pc, parent, children, split, chunks, merged, due, headers>>

\* A leaf of two words or more, unless the last chunk reaches it.
Leaf ==
    /\ Visits({"inner"}) /\ Top.kids = <<>>
    /\ stack' = Rest
    /\ IF Words(Top) < 2 THEN UNCHANGED <<chunks, merged, due, headers>>
       ELSE IF chunks # <<>> /\ Last(chunks).end >= Start(Top)
       THEN UNCHANGED chunks /\ due' = Append(due, Own(Top))
       ELSE Emit(Top, RangeOf(Context, Top, PrevEnd))
    /\ UNCHANGED <<chunkerVars, doc, pc, parent, children, split, merged, headers>>

(***************************************************************************)
(* The children of an oversized node                                       *)
(***************************************************************************)
Child == doc[Head(children)]
Named == Child.kind \notin {"error", "token"}
NextChild == children' = Tail(children)

SkipChild ==
    /\ pc = "children" /\ children # <<>>
    /\ ~Named \/ Words(Child) = 0
    /\ NextChild
    /\ UNCHANGED <<chunkerVars, doc, pc, stack, parent, split, chunks, merged, due, headers>>

WholeChild ==
    /\ pc = "children" /\ children # <<>> /\ Named /\ Fits(Child)
    /\ NextChild
    /\ Emit(Child, RangeOf(parent, Child, PrevEnd))
    /\ UNCHANGED <<chunkerVars, doc, pc, stack, parent, split, merged, headers>>

\* An oversized top-level child waits on the stack, and its siblings go first.
PushChild ==
    /\ pc = "children" /\ children # <<>> /\ Named /\ Words(Child) > MaxChunk
    /\ Child.kind = "top"
    /\ NextChild
    /\ stack' = Append(stack, [node |-> Head(children), ctx |-> None])
    /\ UNCHANGED <<chunkerVars, doc, pc, parent, split, chunks, merged, due, headers>>

\* Any other is split by words; every piece is given the same end of the last chunk.
SplitChild ==
    /\ pc = "children" /\ children # <<>> /\ Named /\ Words(Child) > MaxChunk
    /\ Child.kind # "top"
    /\ pc' = "split" /\ split' = [from |-> 0, prevEnd |-> PrevEnd]
    /\ UNCHANGED <<chunkerVars, doc, stack, parent, children, chunks, merged, due, headers>>

\* One window of split_by_words; it ends where the next word starts.
Piece ==
    LET n     == Child.len
        to    == EndOf(split.from, n)
        start == Start(Child) + 2 * split.from
        end   == IF to = n THEN End(Child) ELSE Start(Child) + 2 * to
    IN
    /\ pc = "split"
    /\ chunks' = Append(chunks,
           [start |-> IF TakesContext(parent, start, split.prevEnd) THEN parent ELSE start, end |-> end])
    /\ due' = Append(due, [start |-> start, end |-> end])
    /\ IF to >= n
       THEN pc' = "children" /\ split' = NoSplit /\ NextChild
       ELSE split' = [split EXCEPT !.from = NextStart(@)] /\ UNCHANGED <<pc, children>>
    /\ UNCHANGED <<chunkerVars, doc, stack, parent, merged, headers>>

NoChildren ==
    /\ pc = "children" /\ children = <<>>
    /\ pc' = "walk" /\ parent' = None
    /\ UNCHANGED <<chunkerVars, doc, stack, children, split, chunks, merged, due, headers>>

(***************************************************************************)
(* merge_small_chunks, and the end                                         *)
(***************************************************************************)
MinWords == 4
MaxGap == 2

\* Mutation: the chunk takes the place of the last one.
Replaced(last, chunk) == chunk

Joined(last, chunk) == [last EXCEPT !.end = chunk.end]

\* Mutation: whatever the two have together.
TinyNextTo(last, chunk) ==
    /\ CountWordsIn(chunk.start, chunk.end) < MinWords \/ CountWordsIn(last.start, last.end) < MinWords
    /\ chunk.start - last.end <= MaxGap

\* One of the two is tiny, the gap between them is no more than MaxGap, or is taken for
\* none when the chunk starts in front of the end of the last, and both are not too much.
Joins(last, chunk) ==
    /\ CountWordsIn(chunk.start, chunk.end) < MinWords \/ CountWordsIn(last.start, last.end) < MinWords
    /\ chunk.start - last.end <= MaxGap
    /\ CountWordsIn(last.start, chunk.end) <= MaxChunk

\* A single chunk stays as it is.
WalkEnds ==
    /\ pc = "walk" /\ stack = <<>>
    /\ pc' = IF Len(chunks) <= 1 THEN "cut" ELSE "merge"
    /\ UNCHANGED <<chunkerVars, doc, stack, parent, children, split, chunks, merged, due, headers>>

\* The next chunk: dropped when its range is empty, joined to the last, or kept.
MergeChunk ==
    LET chunk == Head(chunks) IN
    /\ pc = "merge" /\ chunks # <<>>
    /\ chunks' = Tail(chunks)
    /\ merged' = IF chunk.start >= chunk.end THEN merged
                 ELSE IF merged # <<>> /\ Joins(Last(merged), chunk)
                 THEN Append(Front(merged), Joined(Last(merged), chunk))
                 ELSE Append(merged, chunk)
    /\ UNCHANGED <<chunkerVars, doc, pc, stack, parent, children, split, due, headers>>

MergeEnds ==
    /\ pc = "merge" /\ chunks = <<>>
    /\ chunks' = merged /\ merged' = <<>> /\ pc' = "cut"
    /\ UNCHANGED <<chunkerVars, doc, stack, parent, children, split, due, headers>>

\* The text is cut out for each chunk; without a chunk it goes to the word windows.
Cut ==
    /\ pc = "cut"
    /\ pc' = IF chunks = <<>> THEN "windows" ELSE "done"
    /\ running' = (chunks = <<>>)
    /\ UNCHANGED <<words, startWord, windows, doc, stack, parent, children, split, chunks, merged, due, headers>>

Merge == WalkEnds \/ MergeChunk \/ MergeEnds \/ Cut

WordWindows == pc = "windows" /\ Next /\ UNCHANGED syntaxVars

Finished == pc = "done" \/ (pc = "windows" /\ ~running)
Answered == Finished /\ UNCHANGED vars

Walk == Skip \/ Comment \/ WholeNode \/ Oversized \/ Intermediate \/ Leaf
WalkChildren == SkipChild \/ WholeChild \/ PushChild \/ SplitChild \/ Piece \/ NoChildren

SyntaxNext == Walk \/ WalkChildren \/ Merge \/ WordWindows \/ Answered

\* The code is one function call: it goes on until it returns.
SyntaxSpec == SyntaxInit /\ [][SyntaxNext]_vars /\ WF_vars(SyntaxNext)

(***************************************************************************)
(* Properties                                                              *)
(***************************************************************************)
IsRange(r) == r.start \in 0 .. TextLen /\ r.end \in 0 .. TextLen

InText(n) == n \in DOMAIN doc /\ IsRange(Own(doc[n]))

\* Types; no range leaves the text, nothing but a walk uses the stack.
SyntaxTypeOK ==
    /\ pc \in {"walk", "children", "split", "merge", "cut", "windows", "done"}
    /\ \A i \in DOMAIN stack : InText(stack[i].node) /\ stack[i].ctx \in {None} \cup 0 .. TextLen
    /\ \A i \in DOMAIN children : InText(children[i])
    /\ \A i \in DOMAIN chunks : IsRange(chunks[i])
    /\ merged # <<>> => pc = "merge"
    /\ (parent # None) = (pc \in {"children", "split"}) /\ (split # NoSplit) = (pc = "split")
    /\ Finished => stack = <<>> \/ chunks = <<>>

\* If the walk met the nodes in the order of the text, all that it found worth a chunk is
\* whole in some chunk after the merging, whatever overlaps, contexts and tiny chunks.
InOrder == \A i \in 1 .. Len(due) - 1 : due[i].start < due[i + 1].start
Kept(range) == \E c \in ToSet(chunks) : c.start <= range.start /\ range.end <= c.end
OrderedIsKept == pc = "done" /\ InOrder => \A range \in ToSet(due) : Kept(range)

\* A chunk has more words than the size and the overlap only because it was given the
\* header of an oversized node, or because it ends with a comment or leaf that alone is
\* too long: merging never does it.
LongHasReason ==
    pc = "done" => \A c \in ToSet(chunks) :
        \/ CountWordsIn(c.start, c.end) <= MaxChunk + Overlap
        \/ c.start \in headers
        \/ \E d \in ToSet(due) : d.end = c.end /\ CountWords(d.start, d.end) > MaxChunk

\* A header in front of a chunk repeats no text that went into an earlier chunk for its
\* own sake: the two share the configured overlap at most.  The later pieces of a child
\* that is split are the exception.
Shared(c, d) == CountWords(IF c.start < d.start THEN d.start ELSE c.start, Lesser(c.end, d.end))
HeadersAreOwn ==
    [][pc # "merge" /\ Len(chunks') > Len(chunks) /\ (pc # "split" \/ split.from = 0) =>
           \A d \in ToSet(due) : Shared(Last(chunks'), d) <= Overlap]_vars

\* The call returns for every tree.
Chunked == <>Finished

\* What the tests say of offsets: a chunk's text is the slice of the source between them.
ChunksAreSlices == pc = "done" => \A c \in ToSet(chunks) : c.start < c.end
=============================================================================
