------------------------------ MODULE Chunker ------------------------------
(***************************************************************************)
(* Chunker::chunk_text of src/src/chunker.rs: windows of max_chunk_size    *)
(* words over the words of a text, each sharing its first words with the   *)
(* end of the one before.  The loop is a state machine, one window a step; *)
(* words are numbered from 0 and a window is from <= word < to.            *)
(***************************************************************************)
EXTENDS Integers, Sequences

CONSTANTS
    MaxChunk,       \* max_chunk_size
    Overlap         \* overlap

\* Chunker::new asserts it.
ASSUME ChunkerAssumption == MaxChunk \in Nat /\ Overlap \in Nat /\ Overlap < MaxChunk

VARIABLES
    words,          \* words of the text
    startWord,      \* start_word
    windows,        \* the chunks
    running         \* the loop goes on
chunkerVars == <<words, startWord, windows, running>>

Init ==
    /\ words \in Nat
    /\ startWord = 0 /\ windows = <<>> /\ running = TRUE

\* Mutation: the last window is not cut.
Uncut(start, n) == start + MaxChunk

\* The first word behind a window.
EndOf(start, n) == IF start + MaxChunk < n THEN start + MaxChunk ELSE n

\* Mutation: windows side by side.
SideBySide(start) == start + MaxChunk

NextStart(start) == start + (MaxChunk - Overlap)

Window ==
    LET end == EndOf(startWord, words) IN
    /\ running /\ startWord < words
    /\ windows' = Append(windows, [from |-> startWord, to |-> end])
    /\ IF end >= words
       THEN running' = FALSE /\ UNCHANGED startWord
       ELSE startWord' = NextStart(startWord) /\ UNCHANGED running
    /\ UNCHANGED words

\* Only a text without words gets here.
Stop ==
    /\ running /\ startWord >= words
    /\ running' = FALSE
    /\ UNCHANGED <<words, startWord, windows>>

Next == Window \/ Stop

Spec == Init /\ [][Next]_chunkerVars

(***************************************************************************)
(* Properties                                                              *)
(***************************************************************************)
\* Every word is in a window and none is cut off at the end: the first window starts
\* with the text and the last ends with it, a window starts exactly Overlap words before
\* the end of the one before, and none has more than MaxChunk words.
WindowsCover ==
    /\ \A i \in 1 .. Len(windows) :
        /\ windows[i].from < windows[i].to /\ windows[i].to <= windows[i].from + MaxChunk
        /\ windows[i].from = IF i = 1 THEN 0 ELSE windows[i - 1].to - Overlap
    /\ ~running /\ windows # <<>> => windows[Len(windows)].to = words

\* The call ends with every word of the text in a window.
Holds(i, w) == windows[i].from <= w /\ w < windows[i].to
EveryWordKept == ~running => \A w \in 0 .. words - 1 : \E i \in 1 .. Len(windows) : Holds(i, w)
=============================================================================
