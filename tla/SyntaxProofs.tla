---------------------------- MODULE SyntaxProofs ----------------------------
(***************************************************************************)
(* The two chunkers.                                                       *)
(*                                                                         *)
(* For every text, window size and overlap smaller than it: the windows    *)
(* cover the words as WindowsCover says, and no word is left out.          *)
(*                                                                         *)
(* For every set of syntax trees, chunk size and overlap: the types of     *)
(* SyntaxChunker, the windows of a text without chunks, and the reasons    *)
(* of a long chunk; that a header in front of a chunk repeats no text, and *)
(* that what was met in the order of the text is whole in a chunk.  The    *)
(* last two rest on where the nodes still to come lie with regard to what  *)
(* was found.                                                              *)
(***************************************************************************)
EXTENDS SyntaxChunker, SequenceTheorems, TLAPS

(***************************************************************************)
(* The fixed-size chunker                                                  *)
(***************************************************************************)
Windows == [from : Nat, to : Nat]

TypeInv ==
    /\ words \in Nat /\ startWord \in Nat /\ running \in BOOLEAN
    /\ windows \in Seq(Windows)

\* Where the loop is, told by the last window: the next one starts Overlap words before
\* its end, which is not yet the end of the text.
LoopInv ==
    /\ windows = <<>> => startWord = 0
    /\ running /\ windows # <<>> =>
          /\ startWord = windows[Len(windows)].to - Overlap
          /\ windows[Len(windows)].to < words
    /\ ~running /\ windows = <<>> => words = 0

\* The words in front of the end of the last window are in some window.
KeptInv ==
    windows # <<>> =>
        \A w \in Nat : w < windows[Len(windows)].to => \E i \in 1 .. Len(windows) : Holds(i, w)

Inv == TypeInv /\ LoopInv /\ WindowsCover /\ KeptInv

LEMMA InvInit == Init => Inv
  BY ChunkerAssumption DEF Init, Inv, TypeInv, LoopInv, KeptInv, WindowsCover

\* What a window adds to the sequence.
LEMMA Appended ==
  ASSUME NEW s \in Seq(Windows), NEW w \in Windows, NEW t, t = Append(s, w)
  PROVE  /\ t \in Seq(Windows) /\ t # <<>> /\ Len(t) = Len(s) + 1 /\ Len(s) \in Nat
         /\ t[Len(t)] = w
         /\ \A i \in 1 .. Len(s) : t[i] = s[i]
         /\ s # <<>> => Len(s) >= 1
  OBVIOUS

LEMMA WindowStep == ASSUME Inv, Window PROVE Inv'
<1> DEFINE end == EndOf(startWord, words)
           last == windows[Len(windows)]
           w == [from |-> startWord, to |-> end]
<1>1. words \in Nat /\ startWord \in Nat /\ windows \in Seq(Windows)
      /\ MaxChunk \in Nat /\ Overlap \in Nat /\ Overlap < MaxChunk
  BY ChunkerAssumption DEF Inv, TypeInv
<1>2. running = TRUE /\ startWord < words /\ words' = words /\ windows' = Append(windows, w)
  BY DEF Window, Inv, TypeInv
<1>3. /\ end \in Nat /\ startWord < end /\ end <= words /\ end <= startWord + MaxChunk
      /\ end < words => end = startWord + MaxChunk
  BY <1>1, <1>2 DEF EndOf
<1>4. /\ running' \in BOOLEAN
      /\ end >= words => ~running' /\ startWord' = startWord
      /\ end < words => running' /\ startWord' = end - Overlap
  <2>1. CASE end >= words
    <3>1. running' = FALSE /\ startWord' = startWord
      BY <2>1 DEF Window
    <3>2. running' \in BOOLEAN /\ ~running'
      BY <3>1
    <3>3. ~(end < words)
      BY <1>1, <1>3, <2>1
    <3> QED BY <3>1, <3>2, <3>3
  <2>2. CASE ~(end >= words)
    <3>1. running' = TRUE
      BY <1>2, <2>2 DEF Window
    <3>2. startWord' = startWord + (MaxChunk - Overlap)
      BY <2>2 DEF Window, NextStart
    <3> QED BY <1>1, <1>3, <2>2, <3>1, <3>2
  <2> QED BY <2>1, <2>2
<1>5. w \in Windows
  BY <1>1, <1>3 DEF Windows
<1>6. /\ windows' \in Seq(Windows) /\ windows' # <<>>
      /\ Len(windows') = Len(windows) + 1 /\ Len(windows) \in Nat
      /\ windows'[Len(windows')] = w
      /\ \A i \in 1 .. Len(windows) : windows'[i] = windows[i]
      /\ windows # <<>> => Len(windows) >= 1
  BY <1>1, <1>2, <1>5, Appended
<1>7. windows = <<>> => startWord = 0 /\ Len(windows) = 0
  BY DEF Inv, LoopInv
<1>8. windows # <<>> => startWord = last.to - Overlap /\ last.to < words /\ last \in Windows
  <2>1. windows # <<>> => last \in Windows
    BY <1>1, <1>6
  <2> QED BY <1>2, <2>1 DEF Inv, LoopInv
<1>9. TypeInv'
  <2>1. startWord' \in Nat /\ running' \in BOOLEAN
    BY <1>1, <1>3, <1>4
  <2> QED BY <1>1, <1>2, <1>6, <2>1 DEF TypeInv
<1>10. LoopInv'
  BY <1>1, <1>2, <1>3, <1>4, <1>6 DEF LoopInv
<1>11. WindowsCover'
  <2>1. ASSUME NEW i \in 1 .. Len(windows')
        PROVE  /\ windows'[i].from < windows'[i].to
               /\ windows'[i].to <= windows'[i].from + MaxChunk
               /\ windows'[i].from = IF i = 1 THEN 0 ELSE windows'[i - 1].to - Overlap
    <3>1. CASE i \in 1 .. Len(windows)
      <4>1. i # 1 => i - 1 \in 1 .. Len(windows)
        BY <1>6, <3>1
      <4> QED BY <1>6, <3>1, <4>1 DEF Inv, WindowsCover
    <3>2. CASE i = Len(windows')
      <4>1. windows'[i] = w
        BY <1>6, <3>2
      <4>2. CASE windows = <<>>
        BY <1>3, <1>6, <1>7, <3>2, <4>1, <4>2
      <4>3. CASE windows # <<>>
        <5>1. i # 1 /\ i - 1 = Len(windows) /\ windows'[i - 1] = last
          BY <1>6, <3>2, <4>3
        <5> QED BY <1>3, <1>8, <4>1, <4>3, <5>1
      <4> QED BY <4>2, <4>3
    <3> QED BY <1>6, <2>1, <3>1, <3>2
  <2>2. ~running' => windows'[Len(windows')].to = words'
    BY <1>1, <1>2, <1>3, <1>4, <1>6
  <2> QED BY <2>1, <2>2 DEF WindowsCover
<1>12. KeptInv'
  <2> SUFFICES ASSUME NEW v \in Nat, v < end
               PROVE  \E i \in 1 .. Len(windows') : windows'[i].from <= v /\ v < windows'[i].to
    BY <1>6 DEF KeptInv, Holds
  <2>1. CASE startWord <= v
    <3>1. Len(windows') \in 1 .. Len(windows')
      BY <1>6
    <3> QED BY <1>6, <2>1, <3>1
  <2>2. CASE v < startWord
    <3>1. windows # <<>> /\ v < last.to
      BY <1>1, <1>7, <1>8, <2>2 DEF Windows
    <3>2. PICK i \in 1 .. Len(windows) : windows[i].from <= v /\ v < windows[i].to
      BY <3>1 DEF Inv, KeptInv, Holds
    <3>3. i \in 1 .. Len(windows') /\ windows'[i] = windows[i]
      BY <1>6, <3>2
    <3> QED BY <3>2, <3>3
  <2> QED BY <1>1, <2>1, <2>2
<1> QED BY <1>9, <1>10, <1>11, <1>12 DEF Inv

\* A running loop stops in front of a window only when there are no words.
LEMMA StopStep == ASSUME Inv, Stop PROVE Inv'
<1>1. /\ words \in Nat /\ startWord \in Nat /\ windows \in Seq(Windows) /\ Overlap \in Nat
      /\ running /\ startWord >= words
  BY ChunkerAssumption DEF Inv, TypeInv, Stop
<1>2. windows = <<>>
  <2> SUFFICES ASSUME windows # <<>> PROVE FALSE
    OBVIOUS
  <2>1. windows[Len(windows)] \in Windows
    BY <1>1
  <2>2. startWord = windows[Len(windows)].to - Overlap /\ windows[Len(windows)].to < words
    BY <1>1 DEF Inv, LoopInv
  <2> QED BY <1>1, <2>1, <2>2 DEF Windows
<1>3. startWord = 0 /\ words = 0
  BY <1>1, <1>2 DEF Inv, LoopInv
<1>4. UNCHANGED <<words, startWord, windows>> /\ running' = FALSE
  BY DEF Stop
<1> QED BY <1>1, <1>2, <1>3, <1>4 DEF Inv, TypeInv, LoopInv, WindowsCover, KeptInv

LEMMA InvNext == ASSUME Inv, [Next]_chunkerVars PROVE Inv'
<1>1. CASE Window BY <1>1, WindowStep
<1>2. CASE Stop BY <1>2, StopStep
<1>3. CASE UNCHANGED chunkerVars
  BY <1>3 DEF chunkerVars, Inv, TypeInv, LoopInv, WindowsCover, KeptInv, Holds
<1> QED BY <1>1, <1>2, <1>3 DEF Next

\* The invariant holds for any number of words.
THEOREM ChunkerInvariance == Spec => []Inv
  BY InvInit, InvNext, PTL DEF Spec

\* The windows lie over the words as the loop means them to, at every turn.
THEOREM CoverCorrect == Spec => []WindowsCover
<1>1. Inv => WindowsCover BY DEF Inv
<1> QED BY <1>1, ChunkerInvariance, PTL

\* When the call returns, no word of the text is outside the windows.
THEOREM NothingSkipped == Spec => []EveryWordKept
<1>1. ASSUME Inv PROVE EveryWordKept
  <2> SUFFICES ASSUME ~running, NEW w \in 0 .. words - 1
               PROVE  \E i \in 1 .. Len(windows) : Holds(i, w)
    BY DEF EveryWordKept
  <2>1. words \in Nat /\ w \in Nat /\ w < words
    BY <1>1 DEF Inv, TypeInv
  <2>2. windows # <<>>
    BY <1>1, <2>1 DEF Inv, LoopInv
  <2>3. windows[Len(windows)].to = words
    BY <1>1, <2>2 DEF Inv, WindowsCover
  <2> QED BY <1>1, <2>1, <2>2, <2>3 DEF Inv, KeptInv
<1> QED BY <1>1, ChunkerInvariance, PTL

(***************************************************************************)
(* Sequences                                                               *)
(***************************************************************************)
\* The parts of a sequence that is not empty.
LEMMA Ends ==
  ASSUME NEW S, NEW s \in Seq(S), s # <<>>
  PROVE  /\ Len(s) \in Nat /\ Len(s) >= 1
         /\ Last(s) = s[Len(s)] /\ Last(s) \in S /\ Head(s) = s[1] /\ Head(s) \in S
         /\ Front(s) \in Seq(S) /\ Len(Front(s)) = Len(s) - 1
         /\ \A i \in 1 .. Len(s) - 1 : Front(s)[i] = s[i]
         /\ Tail(s) \in Seq(S) /\ Len(Tail(s)) = Len(s) - 1
         /\ \A i \in 1 .. Len(s) - 1 : Tail(s)[i] = s[i + 1]
  <1>1. Len(s) >= 1
    BY EmptySeq, LenProperties
  <1>2. Front(s) \in Seq(S) /\ Len(Front(s)) = Len(s) - 1
        /\ \A i \in 1 .. Len(s) - 1 : Front(s)[i] = s[i]
    <2> DEFINE n == Len(s) - 1
    <2>1. n \in Nat /\ n < Len(s)
      BY <1>1
    <2>2. \A i \in 1 .. n : s[i] \in S
      BY <2>1
    <2>3. Front(s) = SubSeq(s, 1, n)
      BY DEF Front
    <2> HIDE DEF n
    <2>4. SubSeq(s, 1, n) \in Seq(S) /\ Len(SubSeq(s, 1, n)) = n
          /\ \A i \in 1 .. n : SubSeq(s, 1, n)[i] = s[i]
      BY <2>1, <2>2
    <2> QED BY <2>3, <2>4 DEF n
  <1>3. Tail(s) \in Seq(S) /\ Len(Tail(s)) = Len(s) - 1
        /\ \A i \in 1 .. Len(s) - 1 : Tail(s)[i] = s[i + 1]
    BY <1>1
  <1>4. Last(s) = s[Len(s)] /\ Last(s) \in S /\ Head(s) = s[1] /\ Head(s) \in S
    BY <1>1 DEF Last
  <1>5. Len(s) \in Nat
    OBVIOUS
  <1> QED BY <1>1, <1>2, <1>3, <1>4, <1>5

\* A sequence with one more element.
LEMMA More ==
  ASSUME NEW S, NEW s \in Seq(S), NEW e \in S
  PROVE  /\ Append(s, e) \in Seq(S) /\ Append(s, e) # <<>>
         /\ Len(s) \in Nat /\ Len(Append(s, e)) = Len(s) + 1
         /\ Append(s, e)[Len(s) + 1] = e /\ Last(Append(s, e)) = e
         /\ \A i \in 1 .. Len(s) : Append(s, e)[i] = s[i]
  BY DEF Last

(***************************************************************************)
(* Texts and trees                                                         *)
(***************************************************************************)
Ranges == [start : 0 .. TextLen, end : 0 .. TextLen]
TextNodes == {n \in DOMAIN doc : InText(n)}
Entries == [node : TextNodes, ctx : {None}]   \* the context is for children only

\* The first word behind a node.
Behind(node) == node.word + node.len

\* The tree of a state.
LEMMA DocFacts ==
  ASSUME doc \in Documents
  PROVE  /\ DOMAIN doc = 1 .. Len(doc) /\ Len(doc) \in Nat /\ 1 \in DOMAIN doc
         /\ doc[1].word = 0 /\ doc[1].len \in Nat
         /\ \A n \in DOMAIN doc :
              /\ doc[n] \in NodeType
              /\ doc[n].kind \in Kinds /\ doc[n].word \in Nat /\ doc[n].len \in Nat
              /\ doc[n].kids \in Seq(Nat)
              /\ \A i \in DOMAIN doc[n].kids :
                    /\ doc[n].kids[i] \in DOMAIN doc /\ Inside(doc[doc[n].kids[i]], doc[n])
                    /\ \A j \in 1 .. i - 1 : Follows(doc[doc[n].kids[i]], doc[doc[n].kids[j]])
  <1>1. /\ doc \in Seq(NodeType) /\ doc # <<>> /\ doc[1].word = 0
        /\ \A n \in DOMAIN doc : LET kids == doc[n].kids IN \A i \in DOMAIN kids :
             /\ kids[i] \in n + 1 .. Len(doc) /\ Inside(doc[kids[i]], doc[n])
             /\ \A j \in 1 .. i - 1 : Follows(doc[kids[i]], doc[kids[j]])
    BY DocumentsAssumption
  <1>2. DOMAIN doc = 1 .. Len(doc) /\ Len(doc) \in Nat /\ 1 \in DOMAIN doc
    BY <1>1, EmptySeq, LenProperties
  <1>3. ASSUME NEW n \in DOMAIN doc
        PROVE  /\ doc[n] \in NodeType
               /\ doc[n].kind \in Kinds /\ doc[n].word \in Nat /\ doc[n].len \in Nat
               /\ doc[n].kids \in Seq(Nat)
    <2>1. doc[n] \in NodeType
      BY <1>1, <1>2, ElementOfSeq
    <2> QED BY <2>1 DEF NodeType
  <1>4. ASSUME NEW n \in DOMAIN doc, NEW i \in DOMAIN doc[n].kids
        PROVE  doc[n].kids[i] \in DOMAIN doc
    BY <1>1, <1>2, <1>3
  <1> QED BY <1>1, <1>2, <1>3, <1>4

\* The bytes and the words of a node in the text.
LEMMA NodeFacts ==
  ASSUME doc \in Documents, NEW n \in TextNodes
  PROVE  /\ n \in DOMAIN doc /\ doc[n].word \in Nat /\ doc[n].len \in Nat
         /\ doc[n].kind \in Kinds
         /\ Start(doc[n]) = 2 * doc[n].word
         /\ doc[n].len > 0 => End(doc[n]) = 2 * Behind(doc[n]) - 1
         /\ doc[n].len = 0 => End(doc[n]) = 2 * doc[n].word
         /\ Start(doc[n]) \in 0 .. TextLen /\ End(doc[n]) \in 0 .. TextLen
         /\ Start(doc[n]) <= End(doc[n])
         /\ Behind(doc[n]) <= doc[1].len
         /\ Own(doc[n]) \in Ranges
         /\ Words(doc[n]) = doc[n].len
  <1> DEFINE w == doc[n].word
             l == doc[n].len
  <1>1. /\ n \in DOMAIN doc /\ w \in Nat /\ l \in Nat /\ doc[n].kind \in Kinds
        /\ doc[1].len \in Nat /\ doc[1].word = 0
    BY DocFacts DEF TextNodes
  <1>2. Start(doc[n]) \in 0 .. TextLen /\ End(doc[n]) \in 0 .. TextLen
    BY DEF TextNodes, InText, IsRange, Own
  <1>3. Own(doc[n]) \in Ranges
    BY <1>2 DEF Ranges, Own
  <1>4. /\ Start(doc[n]) = 2 * w
        /\ l > 0 => End(doc[n]) = 2 * Behind(doc[n]) - 1
        /\ l = 0 => End(doc[n]) = 2 * w
        /\ TextLen = IF doc[1].len = 0 THEN 0 ELSE 2 * doc[1].len - 1
        /\ Behind(doc[n]) = w + l
    BY <1>1 DEF Start, End, Behind, TextLen
  <1> HIDE DEF w, l
  <1>5. Start(doc[n]) <= End(doc[n]) /\ w + l <= doc[1].len
    BY <1>1, <1>2, <1>4
  <1>6. Words(doc[n]) = l
    <2>1. CASE l = 0
      BY <1>1, <1>2, <1>4, <2>1 DEF Words, CountWords
    <2>2. CASE l > 0
      <3>1. ~ (Start(doc[n]) >= End(doc[n])) /\ ~ (End(doc[n]) > TextLen)
        BY <1>1, <1>2, <1>4, <2>2
      <3>2. Prefix(Start(doc[n])) = w /\ Prefix(End(doc[n])) = w + l
        BY <1>1, <1>4, <2>2 DEF Prefix
      <3> QED BY <1>1, <3>1, <3>2 DEF Words, CountWords
    <2> QED BY <1>1, <2>1, <2>2
  <1> QED BY <1>1, <1>2, <1>3, <1>4, <1>5, <1>6 DEF w, l

\* The children of a node in the text are in the text.
LEMMA KidFacts ==
  ASSUME doc \in Documents, NEW n \in TextNodes
  PROVE  /\ doc[n].kids \in Seq(TextNodes)
         /\ doc[n].kids # <<>> => doc[n].len > 0
         /\ \A i \in DOMAIN doc[n].kids : Inside(doc[doc[n].kids[i]], doc[n])
         /\ \A i, j \in DOMAIN doc[n].kids : j < i => Follows(doc[doc[n].kids[i]], doc[doc[n].kids[j]])
  <1>1. /\ n \in DOMAIN doc /\ doc[n].kids \in Seq(Nat) /\ doc[n].word \in Nat /\ doc[n].len \in Nat
        /\ doc[1].len \in Nat /\ doc[1].word = 0
    BY DocFacts DEF TextNodes
  <1>2. ASSUME NEW i \in DOMAIN doc[n].kids
        PROVE  /\ doc[n].kids[i] \in TextNodes /\ Inside(doc[doc[n].kids[i]], doc[n])
               /\ doc[n].len > 0
    <2> DEFINE k == doc[n].kids[i]
    <2>1. k \in DOMAIN doc /\ Inside(doc[k], doc[n]) /\ doc[k].word \in Nat /\ doc[k].len \in Nat
      BY <1>1, DocFacts
    <2>2. Behind(doc[n]) <= doc[1].len
      BY NodeFacts
    <2> HIDE DEF k
    <2>3. /\ doc[k].word < doc[1].len /\ doc[k].word + doc[k].len <= doc[1].len /\ doc[n].len > 0
      <3>1. /\ doc[n].word <= doc[k].word /\ doc[k].word < doc[n].word + doc[n].len
            /\ doc[k].word + doc[k].len <= doc[n].word + doc[n].len
        BY <2>1 DEF Inside
      <3>2. doc[n].word + doc[n].len <= doc[1].len
        BY <2>2 DEF Behind
      <3> QED BY <1>1, <2>1, <3>1, <3>2, SMTT(30)
    <2>4. TextLen = 2 * doc[1].len - 1
      <3>1. doc[1].len # 0
        BY <1>1, <2>1, <2>3
      <3>2. End(doc[1]) = 2 * (doc[1].word + doc[1].len) - 1
        BY <3>1 DEF End
      <3> QED BY <1>1, <3>2 DEF TextLen
    <2>5. Start(doc[k]) \in 0 .. TextLen
      <3>1. Start(doc[k]) = 2 * doc[k].word
        BY DEF Start
      <3>2. doc[k].word \in Nat /\ doc[1].len \in Nat /\ doc[k].word < doc[1].len
        BY <1>1, <2>1, <2>3
      <3>3. 2 * doc[k].word \in 0 .. 2 * doc[1].len - 1
        BY <3>2
      <3> QED BY <2>4, <3>1, <3>3
    <2>6. End(doc[k]) \in 0 .. TextLen
      <3>1. CASE doc[k].len = 0
        BY <2>5, <3>1 DEF End
      <3>2. CASE doc[k].len # 0
        <4>1. End(doc[k]) = 2 * (doc[k].word + doc[k].len) - 1
          BY <3>2 DEF End
        <4>2. doc[k].word + doc[k].len \in Nat /\ doc[k].word + doc[k].len >= 1
          BY <2>1, <3>2
        <4> QED BY <1>1, <2>3, <2>4, <4>1, <4>2, SMTT(30)
      <3> QED BY <3>1, <3>2
    <2>7. k \in TextNodes
      BY <2>1, <2>5, <2>6 DEF TextNodes, InText, IsRange, Own
    <2> QED BY <2>1, <2>3, <2>7 DEF k
  <1>3. doc[n].kids \in Seq(TextNodes)
    BY <1>1, <1>2
  <1>4. doc[n].kids # <<>> => 1 \in DOMAIN doc[n].kids
    BY <1>1, EmptySeq, LenProperties
  <1>5. ASSUME NEW i \in DOMAIN doc[n].kids, NEW j \in DOMAIN doc[n].kids, j < i
        PROVE  Follows(doc[doc[n].kids[i]], doc[doc[n].kids[j]])
    <2>1. j \in 1 .. i - 1
      BY <1>1, <1>5
    <2> QED BY <1>1, <2>1, DocFacts
  <1> QED BY <1>2, <1>3, <1>4, <1>5

(***************************************************************************)
(* Types, and where the call is                                            *)
(***************************************************************************)
SyntaxTypes ==
    /\ doc \in Documents
    /\ stack \in Seq(Entries) /\ children \in Seq(TextNodes)
    /\ headers \subseteq 0 .. TextLen /\ parent \in {None} \cup headers
    /\ split \in [from : Nat, prevEnd : {None} \cup 0 .. TextLen]
    /\ chunks \in Seq(Ranges) /\ merged \in Seq(Ranges) /\ due \in Seq(Ranges)

Control ==
    /\ pc \in {"walk", "children", "split", "merge", "cut", "windows", "done"}
    /\ merged # <<>> => pc = "merge"
    /\ pc \in {"children", "split"} <=> parent # None
    /\ pc = "split" <=> split # NoSplit
    /\ pc \notin {"children", "split"} => children = <<>>
    /\ pc = "split" => children # <<>> /\ split.from < Child.len
    /\ pc \in {"merge", "cut", "done"} => stack = <<>>
    /\ pc = "windows" => chunks = <<>>

Base == SyntaxTypes /\ Control

\* The text stays.
LEMMA SameText ==
  ASSUME doc' = doc
  PROVE  TextLen' = TextLen /\ Ranges' = Ranges /\ TextNodes' = TextNodes /\ Entries' = Entries
  BY DEF TextLen, End, Start, Ranges, TextNodes, InText, IsRange, Own, Entries

\* The node on top of the stack.
LEMMA TopFacts ==
  ASSUME SyntaxTypes, stack # <<>>
  PROVE  /\ Last(stack).node \in TextNodes /\ Top = doc[Last(stack).node] /\ Context = None
         /\ Last(stack) = stack[Len(stack)] /\ Len(stack) \in Nat /\ Len(stack) >= 1
         /\ Rest \in Seq(Entries) /\ Len(Rest) = Len(stack) - 1
         /\ \A i \in 1 .. Len(stack) - 1 : Rest[i] = stack[i]
  <1>1. stack \in Seq(Entries)
    BY DEF SyntaxTypes
  <1>2. /\ Last(stack) \in Entries /\ Last(stack) = stack[Len(stack)]
        /\ Len(stack) \in Nat /\ Len(stack) >= 1
        /\ Front(stack) \in Seq(Entries) /\ Len(Front(stack)) = Len(stack) - 1
        /\ \A i \in 1 .. Len(stack) - 1 : Front(stack)[i] = stack[i]
    BY <1>1, Ends
  <1>3. Last(stack).node \in TextNodes /\ Last(stack).ctx = None
    BY <1>2 DEF Entries
  <1> QED BY <1>2, <1>3 DEF Top, Context, Rest

\* The next child of an oversized node.
LEMMA ChildFacts ==
  ASSUME SyntaxTypes, children # <<>>
  PROVE  /\ Head(children) \in TextNodes /\ Child = doc[Head(children)]
         /\ Head(children) = children[1] /\ Len(children) \in Nat /\ Len(children) >= 1
         /\ Tail(children) \in Seq(TextNodes) /\ Len(Tail(children)) = Len(children) - 1
         /\ \A i \in 1 .. Len(children) - 1 : Tail(children)[i] = children[i + 1]
  <1>1. children \in Seq(TextNodes)
    BY DEF SyntaxTypes
  <1> QED BY <1>1, Ends DEF Child

\* The last chunk, or the start of the text.
LEMMA PrevEndFacts ==
  ASSUME SyntaxTypes
  PROVE  PrevEnd \in 0 .. TextLen /\ TextLen \in Nat
  <1>1. TextLen \in Nat
    <2>1. doc[1].word \in Nat /\ doc[1].len \in Nat
      BY DocFacts DEF SyntaxTypes
    <2>2. CASE doc[1].len = 0
      BY <2>1, <2>2 DEF TextLen, End, Start
    <2>3. CASE doc[1].len # 0
      <3>1. TextLen = 2 * (doc[1].word + doc[1].len) - 1
        BY <2>3 DEF TextLen, End
      <3>2. doc[1].word + doc[1].len \in Nat /\ doc[1].word + doc[1].len >= 1
        BY <2>1, <2>3
      <3> QED BY <3>1, <3>2
    <2> QED BY <2>2, <2>3
  <1>2. CASE chunks = <<>>
    BY <1>1, <1>2 DEF PrevEnd
  <1>3. CASE chunks # <<>>
    <2>1. Last(chunks) \in Ranges
      BY <1>3, Ends DEF SyntaxTypes
    <2> QED BY <1>1, <1>3, <2>1 DEF PrevEnd, Ranges
  <1> QED BY <1>2, <1>3

\* A chunk of a node ends with it, and starts with it, with the overlap or with the
\* context, which is then not before the end of the last chunk.
LEMMA RangeFacts ==
  ASSUME SyntaxTypes, NEW n \in TextNodes, NEW ctx \in {None} \cup 0 .. TextLen, NEW prevEnd \in Int
  PROVE  LET r == RangeOf(ctx, doc[n], prevEnd)
         IN  /\ r \in Ranges /\ r.end = End(doc[n]) /\ r.start <= Start(doc[n])
             /\ \/ r.start >= Start(doc[n]) - 2 * Overlap
                \/ r.start = ctx /\ ctx # None /\ ctx >= prevEnd
  <1> DEFINE w == doc[n].word
             s == Start(doc[n])
             o == OverlapStart(s)
             low == Lesser(s, o)
             r == RangeOf(ctx, doc[n], prevEnd)
  <1>1. w \in Nat /\ s = 2 * w /\ s \in 0 .. TextLen /\ End(doc[n]) \in 0 .. TextLen /\ TextLen \in Nat
    BY NodeFacts, PrevEndFacts DEF SyntaxTypes
  <1>2. Overlap \in Nat
    BY ChunkerAssumption
  <1> HIDE DEF w, s
  <1>3. o \in Nat /\ o <= s /\ o >= s - 2 * Overlap
    <2>1. Prefix(s) = w
      BY <1>1 DEF Prefix
    <2> QED BY <1>1, <1>2, <2>1 DEF OverlapStart
  <1> HIDE DEF o
  <1>4. low = o
    BY <1>1, <1>3 DEF Lesser
  <1>5. r = [start |-> IF TakesContext(ctx, o, prevEnd) THEN ctx ELSE o, end |-> End(doc[n])]
    BY <1>4 DEF RangeOf, s, o
  <1>6. TakesContext(ctx, o, prevEnd) => ctx # None /\ ctx < o /\ ctx >= prevEnd /\ ctx \in 0 .. TextLen
    BY DEF TakesContext
  <1>7. CASE TakesContext(ctx, o, prevEnd)
    <2>1. r.start = ctx /\ r.end = End(doc[n]) /\ r = [start |-> ctx, end |-> End(doc[n])]
      BY <1>5, <1>7
    <2>2. r \in Ranges
      BY <1>1, <1>6, <1>7, <2>1 DEF Ranges
    <2>3. ctx <= s
      BY <1>1, <1>3, <1>6, <1>7
    <2> QED BY <1>6, <1>7, <2>1, <2>2, <2>3 DEF s
  <1>8. CASE ~TakesContext(ctx, o, prevEnd)
    <2>1. r.start = o /\ r.end = End(doc[n]) /\ r = [start |-> o, end |-> End(doc[n])]
      BY <1>5, <1>8
    <2>2. r \in Ranges
      BY <1>1, <1>3, <2>1 DEF Ranges
    <2> QED BY <1>3, <2>1, <2>2 DEF s
  <1> QED BY <1>7, <1>8

\* A window of a child that is split.
PieceTo == EndOf(split.from, Child.len)
PieceStart == Start(Child) + 2 * split.from
PieceEnd == IF PieceTo = Child.len THEN End(Child) ELSE Start(Child) + 2 * PieceTo
PieceRange ==
    [start |-> IF TakesContext(parent, PieceStart, split.prevEnd) THEN parent ELSE PieceStart, end |-> PieceEnd]

\* Its words and its bytes: never empty, inside the child, at most MaxChunk words.
LEMMA PieceFacts ==
  ASSUME Base, pc = "split"
  PROVE  /\ children # <<>> /\ split.from \in Nat /\ split.from < Child.len
         /\ PieceTo \in Nat /\ split.from < PieceTo /\ PieceTo <= Child.len
         /\ PieceTo <= split.from + MaxChunk
         /\ PieceTo < Child.len => PieceTo = split.from + MaxChunk
         /\ PieceStart = 2 * (Child.word + split.from)
         /\ PieceTo = Child.len => PieceEnd = 2 * Behind(Child) - 1
         /\ PieceTo < Child.len => PieceEnd = 2 * (Child.word + PieceTo)
         /\ PieceStart \in 0 .. TextLen /\ PieceEnd \in 0 .. TextLen
         /\ PieceStart < PieceEnd /\ PieceEnd <= 2 * Behind(Child)
         /\ parent \in headers /\ parent \in 0 .. TextLen
         /\ [start |-> PieceStart, end |-> PieceEnd] \in Ranges /\ PieceRange \in Ranges
         /\ PieceRange.end = PieceEnd /\ PieceRange.start <= PieceStart
  <1> DEFINE w == Child.word
             l == Child.len
             f == split.from
  <1>1. children # <<>> /\ f \in Nat /\ f < l /\ parent \in headers /\ parent \in 0 .. TextLen
    BY DEF Base, SyntaxTypes, Control
  <1>2. Head(children) \in TextNodes /\ Child = doc[Head(children)] /\ doc \in Documents
    BY <1>1, ChildFacts DEF Base, SyntaxTypes
  <1>3. /\ w \in Nat /\ l \in Nat /\ Start(Child) = 2 * w /\ (l > 0 => End(Child) = 2 * Behind(Child) - 1)
        /\ Start(Child) \in 0 .. TextLen /\ End(Child) \in 0 .. TextLen /\ TextLen \in Nat
    BY <1>2, NodeFacts, PrevEndFacts DEF Base
  <1>4. MaxChunk \in Nat /\ MaxChunk > 0 /\ Behind(Child) = w + l
    BY ChunkerAssumption DEF Behind
  <1> HIDE DEF w, l, f
  <1>5. /\ PieceTo \in Nat /\ f < PieceTo /\ PieceTo <= l /\ PieceTo <= f + MaxChunk
        /\ PieceTo < l => PieceTo = f + MaxChunk
    <2>1. PieceTo = IF f + MaxChunk < l THEN f + MaxChunk ELSE l
      BY DEF PieceTo, EndOf, f, l
    <2>2. CASE f + MaxChunk < l
      BY <1>1, <1>3, <1>4, <2>1, <2>2
    <2>3. CASE ~(f + MaxChunk < l)
      <3>1. PieceTo = l
        BY <2>1, <2>3
      <3> QED BY <1>1, <1>3, <1>4, <2>3, <3>1
    <2> QED BY <2>2, <2>3
  <1>6. PieceStart = 2 * (w + f)
    BY <1>1, <1>3 DEF PieceStart, f
  <1>7. (PieceTo = l => PieceEnd = 2 * Behind(Child) - 1) /\ (PieceTo < l => PieceEnd = 2 * (w + PieceTo))
    <2>1. PieceEnd = IF PieceTo = l THEN End(Child) ELSE 2 * w + 2 * PieceTo
      BY <1>3 DEF PieceEnd, l
    <2>2. l > 0
      BY <1>1, <1>3
    <2>3. PieceTo = l => PieceEnd = 2 * Behind(Child) - 1
      BY <1>3, <2>1, <2>2
    <2>4. ASSUME PieceTo < l PROVE PieceEnd = 2 * (w + PieceTo)
      <3>1. PieceTo # l
        BY <1>3, <1>5, <2>4
      <3>2. PieceEnd = 2 * w + 2 * PieceTo
        BY <2>1, <3>1
      <3> QED BY <1>3, <1>5, <3>2
    <2> QED BY <2>3, <2>4
  <1>8. /\ PieceStart \in 0 .. TextLen /\ PieceEnd \in 0 .. TextLen
        /\ PieceStart < PieceEnd /\ PieceEnd <= 2 * Behind(Child)
    <2>1. l > 0 /\ 2 * (w + l) - 1 <= TextLen
      BY <1>1, <1>3, <1>4
    <2>2. CASE PieceTo = l
      <3>1. PieceEnd = 2 * (w + l) - 1
        BY <1>4, <1>7, <2>2
      <3> QED BY <1>1, <1>3, <1>4, <1>6, <2>1, <3>1
    <2>3. CASE PieceTo < l
      <3>1. PieceEnd = 2 * (w + PieceTo)
        BY <1>7, <2>3
      <3> QED BY <1>1, <1>3, <1>4, <1>5, <1>6, <2>1, <2>3, <3>1
    <2> QED BY <1>3, <1>5, <2>2, <2>3
  <1>9. [start |-> PieceStart, end |-> PieceEnd] \in Ranges
    BY <1>8 DEF Ranges
  <1>10. /\ PieceRange \in Ranges /\ PieceRange.end = PieceEnd /\ PieceRange.start <= PieceStart
    <2>1. CASE TakesContext(parent, PieceStart, split.prevEnd)
      <3>1. PieceRange = [start |-> parent, end |-> PieceEnd] /\ parent < PieceStart
        BY <2>1 DEF PieceRange, TakesContext
      <3>2. PieceRange \in Ranges
        BY <1>1, <1>8, <3>1 DEF Ranges
      <3>3. parent <= PieceStart
        BY <1>1, <1>3, <1>8, <3>1
      <3> QED BY <3>1, <3>2, <3>3
    <2>2. CASE ~TakesContext(parent, PieceStart, split.prevEnd)
      <3>1. PieceRange = [start |-> PieceStart, end |-> PieceEnd]
        BY <2>2 DEF PieceRange
      <3> QED BY <1>3, <1>8, <1>9, <3>1
    <2> QED BY <2>1, <2>2
  <1> QED BY <1>1, <1>5, <1>6, <1>7, <1>8, <1>9, <1>10 DEF w, l, f

\* A call starts well.
LEMMA BaseInit == SyntaxInit => Base
<1> SUFFICES ASSUME SyntaxInit PROVE Base
  OBVIOUS
<1>1. doc \in Documents /\ 1 \in DOMAIN doc /\ doc[1].word = 0 /\ doc[1].len \in Nat
  BY DocFacts DEF SyntaxInit
<1>2. TextLen \in Nat
  <2>1. CASE doc[1].len = 0
    BY <1>1, <2>1 DEF TextLen, End, Start
  <2>2. CASE doc[1].len # 0
    BY <1>1, <2>2 DEF TextLen, End
  <2> QED BY <2>1, <2>2
<1>3. 1 \in TextNodes
  <2>1. Start(doc[1]) = 0 /\ End(doc[1]) = TextLen
    BY <1>1 DEF Start, TextLen
  <2> QED BY <1>1, <1>2, <2>1 DEF TextNodes, InText, IsRange, Own
<1>4. [node |-> 1, ctx |-> None] \in Entries
  BY <1>3 DEF Entries
<1>5. stack \in Seq(Entries) /\ stack # <<>>
  BY <1>4 DEF SyntaxInit
<1>6. SyntaxTypes
  BY <1>1, <1>5 DEF SyntaxInit, SyntaxTypes, NoSplit, None
<1>7. Control
  BY <1>5 DEF SyntaxInit, Control
<1> QED BY <1>6, <1>7 DEF Base

\* What is pushed for the children of a node.
Pushes(kids, ctx) == [i \in DOMAIN kids |-> [node |-> kids[i], ctx |-> ctx]]

\* What Intermediate puts on the stack for the children of a node.
LEMMA Pushed ==
  ASSUME NEW S, NEW kids \in Seq(S), NEW ctx
  PROVE  /\ Pushes(kids, ctx) \in Seq([node : S, ctx : {ctx}]) /\ Len(Pushes(kids, ctx)) = Len(kids)
         /\ \A i \in 1 .. Len(kids) : Pushes(kids, ctx)[i] = [node |-> kids[i], ctx |-> ctx]
  <1> DEFINE n == Len(kids)
             f == Pushes(kids, ctx)
             E == [node : S, ctx : {ctx}]
  <1>1. n \in Nat /\ DOMAIN kids = 1 .. n /\ \A i \in 1 .. n : kids[i] \in S
    BY LenProperties, ElementOfSeq
  <1> HIDE DEF n
  <1>2. f \in [1 .. n -> E] /\ \A i \in 1 .. n : f[i] = [node |-> kids[i], ctx |-> ctx]
    BY <1>1 DEF Pushes
  <1>3. DOMAIN f = 1 .. n
    BY <1>1 DEF Pushes
  <1> HIDE DEF f, E
  <1>4. f \in Seq(E)
    BY <1>1, <1>2, SeqDef
  <1>5. Len(f) = n
    BY <1>1, <1>3, <1>4, LenProperties
  <1> QED BY <1>2, <1>4, <1>5 DEF n, f, E

\* The steps of the walk.
LEMMA WalkBase == ASSUME Base, Walk PROVE Base'
<1> USE DEF Base
<1>1. doc' = doc /\ pc = "walk" /\ stack # <<>>
  BY DEF Walk, Skip, Comment, WholeNode, Oversized, Intermediate, Leaf, Visits
<1>2. TextLen' = TextLen /\ Ranges' = Ranges /\ TextNodes' = TextNodes /\ Entries' = Entries
  BY <1>1, SameText
<1> DEFINE n == Last(stack).node
<1>3. /\ n \in TextNodes /\ Top = doc[n] /\ Context = None /\ Rest \in Seq(Entries)
      /\ Start(doc[n]) \in 0 .. TextLen /\ Own(doc[n]) \in Ranges
  BY <1>1, TopFacts, NodeFacts DEF SyntaxTypes
<1> HIDE DEF n
<1>4. RangeOf(Context, Top, PrevEnd) \in Ranges
  <2>1. Context \in {None} \cup 0 .. TextLen /\ PrevEnd \in Int
    BY <1>3, PrevEndFacts
  <2> QED BY <1>3, <2>1, RangeFacts
<1>5. children = <<>> /\ merged = <<>> /\ parent = None /\ split = NoSplit
  BY <1>1 DEF Control
<1>6. CASE Skip
  <2>1. SyntaxTypes'
    BY <1>1, <1>2, <1>3, <1>6 DEF Skip, SyntaxTypes
  <2>2. Control'
    BY <1>1, <1>5, <1>6 DEF Skip, Control
  <2> QED BY <2>1, <2>2
<1>7. CASE Comment
  <2>1. chunks' \in Seq(Ranges) /\ due' \in Seq(Ranges)
    BY <1>3, <1>7, More DEF Comment, Emit, SyntaxTypes
  <2>2. SyntaxTypes'
    BY <1>1, <1>2, <1>3, <1>7, <2>1 DEF Comment, SyntaxTypes
  <2>3. Control'
    BY <1>1, <1>5, <1>7 DEF Comment, Control
  <2> QED BY <2>2, <2>3
<1>8. CASE WholeNode
  <2>1. chunks' \in Seq(Ranges) /\ due' \in Seq(Ranges)
    BY <1>3, <1>4, <1>8, More DEF WholeNode, Emit, SyntaxTypes
  <2>2. SyntaxTypes'
    BY <1>1, <1>2, <1>3, <1>8, <2>1 DEF WholeNode, SyntaxTypes
  <2>3. Control'
    BY <1>1, <1>5, <1>8 DEF WholeNode, Control
  <2> QED BY <2>2, <2>3
<1>9. CASE Oversized
  <2>1. Top.kids \in Seq(TextNodes)
    BY <1>3, KidFacts DEF SyntaxTypes
  <2>2. headers' \subseteq 0 .. TextLen /\ parent' \in {None} \cup headers' /\ parent' # None
    <3>1. headers' = headers \cup {Start(doc[n])} /\ parent' = Start(doc[n])
      BY <1>3, <1>9 DEF Oversized
    <3>2. Start(doc[n]) # None
      BY <1>3 DEF None
    <3> QED BY <1>3, <3>1, <3>2 DEF SyntaxTypes
  <2>3. SyntaxTypes'
    BY <1>1, <1>2, <1>3, <1>9, <2>1, <2>2 DEF Oversized, SyntaxTypes
  <2>4. Control'
    BY <1>1, <1>5, <1>9, <2>2 DEF Oversized, Control
  <2> QED BY <2>3, <2>4
<1>10. CASE Intermediate
  <2>1. Top.kids \in Seq(TextNodes)
    BY <1>3, KidFacts DEF SyntaxTypes
  <2>2. Pushes(Top.kids, None) \in Seq(Entries)
    BY <2>1, Pushed DEF Entries
  <2>3. stack' \in Seq(Entries)
    <3>1. stack' = Rest \o Pushes(Top.kids, None)
      BY <1>3, <1>10 DEF Intermediate, Pushes
    <3> QED BY <1>3, <2>2, <3>1, ConcatProperties
  <2>4. SyntaxTypes'
    BY <1>1, <1>2, <1>10, <2>3 DEF Intermediate, SyntaxTypes
  <2>5. Control'
    BY <1>1, <1>5, <1>10 DEF Intermediate, Control
  <2> QED BY <2>4, <2>5
<1>11. CASE Leaf
  <2>1. chunks' \in Seq(Ranges) /\ due' \in Seq(Ranges) /\ headers' = headers /\ merged' = merged
    <3>1. \/ chunks' = chunks /\ due' = due
          \/ chunks' = chunks /\ due' = Append(due, Own(Top))
          \/ chunks' = Append(chunks, RangeOf(Context, Top, PrevEnd)) /\ due' = Append(due, Own(Top))
      BY <1>11 DEF Leaf, Emit
    <3>2. chunks \in Seq(Ranges) /\ due \in Seq(Ranges) /\ Own(Top) \in Ranges
      BY <1>3 DEF SyntaxTypes
    <3>3. headers' = headers /\ merged' = merged
      BY <1>11 DEF Leaf
    <3>4. /\ Append(chunks, RangeOf(Context, Top, PrevEnd)) \in Seq(Ranges)
          /\ Append(due, Own(Top)) \in Seq(Ranges)
      BY <1>4, <3>2, More
    <3> QED BY <3>1, <3>2, <3>3, <3>4
  <2>2. SyntaxTypes'
    BY <1>1, <1>2, <1>3, <1>11, <2>1 DEF Leaf, SyntaxTypes
  <2>3. Control'
    BY <1>1, <1>5, <1>11, <2>1 DEF Leaf, Control
  <2> QED BY <2>2, <2>3
<1> QED BY <1>6, <1>7, <1>8, <1>9, <1>10, <1>11 DEF Walk

\* The steps over the children of an oversized node.
LEMMA ChildrenBase == ASSUME Base, WalkChildren PROVE Base'
<1> USE DEF Base
<1>1. doc' = doc
  BY DEF WalkChildren, SkipChild, WholeChild, PushChild, SplitChild, Piece, NoChildren
<1>2. TextLen' = TextLen /\ Ranges' = Ranges /\ TextNodes' = TextNodes /\ Entries' = Entries
  BY <1>1, SameText
<1>3. ASSUME children # <<>>
      PROVE  /\ Head(children) \in TextNodes /\ Child = doc[Head(children)]
             /\ Tail(children) \in Seq(TextNodes)
             /\ Own(Child) \in Ranges /\ Words(Child) = Child.len /\ Child.len \in Nat
  BY <1>3, ChildFacts, NodeFacts DEF SyntaxTypes
<1>4. ASSUME pc = "children"
      PROVE  parent \in headers /\ parent \in 0 .. TextLen /\ split = NoSplit /\ merged = <<>> /\ parent # None
  BY <1>4 DEF Control, SyntaxTypes
<1>5. PrevEnd \in 0 .. TextLen /\ TextLen \in Nat
  BY PrevEndFacts
<1>6. CASE SkipChild
  <2>1. SyntaxTypes'
    BY <1>1, <1>2, <1>3, <1>6 DEF SkipChild, NextChild, SyntaxTypes
  <2>2. Control'
    BY <1>1, <1>6 DEF SkipChild, Control
  <2> QED BY <2>1, <2>2
<1>7. CASE WholeChild
  <2>1. pc = "children" /\ children # <<>>
    BY <1>7 DEF WholeChild
  <2>2. RangeOf(parent, Child, PrevEnd) \in Ranges
    <3>1. parent \in {None} \cup 0 .. TextLen /\ PrevEnd \in Int
      BY <1>4, <1>5, <2>1
    <3> QED BY <1>3, <2>1, <3>1, RangeFacts
  <2>3. chunks' \in Seq(Ranges) /\ due' \in Seq(Ranges)
    BY <1>3, <1>7, <2>1, <2>2, More DEF WholeChild, Emit, SyntaxTypes
  <2>4. SyntaxTypes'
    BY <1>1, <1>2, <1>3, <1>7, <2>1, <2>3 DEF WholeChild, NextChild, SyntaxTypes
  <2>5. Control'
    BY <1>1, <1>7 DEF WholeChild, Control
  <2> QED BY <2>4, <2>5
<1>8. CASE PushChild
  <2>1. pc = "children" /\ children # <<>>
    BY <1>8 DEF PushChild
  <2>2. [node |-> Head(children), ctx |-> None] \in Entries
    BY <1>3, <2>1 DEF Entries
  <2>3. stack' \in Seq(Entries)
    BY <1>8, <2>2, More DEF PushChild, SyntaxTypes
  <2>4. SyntaxTypes'
    BY <1>1, <1>2, <1>3, <1>8, <2>1, <2>3 DEF PushChild, NextChild, SyntaxTypes
  <2>5. Control'
    BY <1>1, <1>8 DEF PushChild, Control
  <2> QED BY <2>4, <2>5
<1>9. CASE SplitChild
  <2>1. pc = "children" /\ children # <<>> /\ children' = children /\ parent' = parent
    BY <1>9 DEF SplitChild
  <2>2. split' = [from |-> 0, prevEnd |-> PrevEnd] /\ pc' = "split"
    BY <1>9 DEF SplitChild
  <2>3. split' \in [from : Nat, prevEnd : {None} \cup 0 .. TextLen]
    BY <1>5, <2>2
  <2>4. split' # NoSplit
    <3>1. split'.prevEnd # NoSplit.prevEnd
      BY <1>5, <2>2 DEF NoSplit, None
    <3> QED BY <3>1
  <2>5. Child' = Child
    BY <1>1, <2>1 DEF Child
  <2>6. 0 < Child.len
    BY <1>3, <1>9, <2>1, ChunkerAssumption DEF SplitChild
  <2>7. SyntaxTypes'
    BY <1>1, <1>2, <1>9, <2>3 DEF SplitChild, SyntaxTypes
  <2>8. Control'
    BY <1>1, <1>4, <1>9, <2>1, <2>2, <2>4, <2>5, <2>6 DEF SplitChild, Control
  <2> QED BY <2>7, <2>8
<1>10. CASE Piece
  <2>1. pc = "split"
    BY <1>10 DEF Piece
  <2>2. /\ children # <<>> /\ split.from \in Nat /\ PieceRange \in Ranges
        /\ [start |-> PieceStart, end |-> PieceEnd] \in Ranges
        /\ PieceTo \in Nat /\ split.from < PieceTo /\ PieceTo <= Child.len
        /\ PieceTo < Child.len => PieceTo = split.from + MaxChunk
    BY <2>1, PieceFacts
  <2>3. /\ chunks' = Append(chunks, PieceRange)
        /\ due' = Append(due, [start |-> PieceStart, end |-> PieceEnd])
    BY <1>10 DEF Piece, PieceRange, PieceStart, PieceEnd, PieceTo
  <2>4. chunks' \in Seq(Ranges) /\ due' \in Seq(Ranges)
    BY <2>2, <2>3, More DEF SyntaxTypes
  <2>5. /\ doc' = doc /\ stack' = stack /\ parent' = parent /\ merged' = merged /\ headers' = headers
    BY <1>10 DEF Piece
  <2>6. CASE PieceTo >= Child.len
    <3>1. pc' = "children" /\ split' = NoSplit /\ children' = Tail(children)
      BY <1>10, <2>6 DEF Piece, PieceTo, NextChild
    <3>2. split' \in [from : Nat, prevEnd : {None} \cup 0 .. TextLen]
      BY <3>1 DEF NoSplit
    <3>3. SyntaxTypes'
      BY <1>2, <1>3, <2>2, <2>4, <2>5, <3>1, <3>2 DEF SyntaxTypes
    <3>4. Control'
      BY <2>1, <2>5, <3>1 DEF Control
    <3> QED BY <3>3, <3>4
  <2>7. CASE ~(PieceTo >= Child.len)
    <3>1. /\ pc' = "split" /\ children' = children
          /\ split' = [split EXCEPT !.from = NextStart(split.from)]
      BY <1>10, <2>1, <2>7 DEF Piece, PieceTo
    <3>2. split \in [from : Nat, prevEnd : {None} \cup 0 .. TextLen]
      BY DEF SyntaxTypes
    <3>3. split' = [from |-> split.from + (MaxChunk - Overlap), prevEnd |-> split.prevEnd]
      BY <3>1, <3>2 DEF NextStart
    <3>4. /\ split.from + (MaxChunk - Overlap) \in Nat
          /\ split.from + (MaxChunk - Overlap) < Child.len /\ split.from + (MaxChunk - Overlap) > 0
      <4>1. Child.len \in Nat
        BY <1>3, <2>2
      <4> QED BY <2>2, <2>7, <4>1, ChunkerAssumption
    <3>5. Child' = Child
      BY <2>5, <3>1 DEF Child
    <3>6. split' # NoSplit
      <4>1. split'.from # NoSplit.from
        BY <3>3, <3>4 DEF NoSplit
      <4> QED BY <4>1
    <3>7. split' \in [from : Nat, prevEnd : {None} \cup 0 .. TextLen]
      BY <3>2, <3>3, <3>4
    <3>8. SyntaxTypes'
      BY <1>2, <2>4, <2>5, <3>1, <3>7 DEF SyntaxTypes
    <3>9. Control'
      BY <2>1, <2>2, <2>5, <3>1, <3>3, <3>4, <3>5, <3>6 DEF Control
    <3> QED BY <3>8, <3>9
  <2> QED BY <2>6, <2>7
<1>11. CASE NoChildren
  <2>1. SyntaxTypes'
    BY <1>1, <1>2, <1>11 DEF NoChildren, SyntaxTypes
  <2>2. Control'
    BY <1>1, <1>4, <1>11 DEF NoChildren, Control
  <2> QED BY <2>1, <2>2
<1> QED BY <1>6, <1>7, <1>8, <1>9, <1>10, <1>11 DEF WalkChildren

\* A chunk that is joined to the last one is a range.
LEMMA JoinedFacts ==
  ASSUME NEW a \in Ranges, NEW b \in Ranges
  PROVE  Joined(a, b) \in Ranges /\ Joined(a, b).start = a.start /\ Joined(a, b).end = b.end
  BY DEF Joined, Ranges

\* The merging, and the word windows.
LEMMA MergeBase == ASSUME Base, Merge \/ WordWindows \/ UNCHANGED vars PROVE Base'
<1> USE DEF Base
<1>1. doc' = doc
  BY DEF Merge, WalkEnds, MergeChunk, MergeEnds, Cut, WordWindows, vars, syntaxVars
<1>2. TextLen' = TextLen /\ Ranges' = Ranges /\ TextNodes' = TextNodes /\ Entries' = Entries
  BY <1>1, SameText
<1>3. CASE WalkEnds
  <2>1. pc' \in {"cut", "merge"} /\ pc = "walk" /\ stack' = <<>>
    BY <1>3 DEF WalkEnds
  <2>2. SyntaxTypes'
    BY <1>1, <1>2, <1>3 DEF WalkEnds, SyntaxTypes
  <2>3. Control'
    BY <1>3, <2>1 DEF WalkEnds, Control
  <2> QED BY <2>2, <2>3
<1>4. CASE MergeChunk
  <2>1. pc = "merge" /\ chunks # <<>> /\ pc' = pc
    BY <1>4 DEF MergeChunk
  <2>2. Head(chunks) \in Ranges /\ Tail(chunks) \in Seq(Ranges)
    BY <2>1, Ends DEF SyntaxTypes
  <2>3. merged' \in Seq(Ranges)
    <3>1. CASE merged' = merged
      BY <3>1 DEF SyntaxTypes
    <3>2. CASE merged' = Append(merged, Head(chunks))
      BY <2>2, <3>2, More DEF SyntaxTypes
    <3>3. CASE merged # <<>> /\ merged' = Append(Front(merged), Joined(Last(merged), Head(chunks)))
      <4>1. Front(merged) \in Seq(Ranges) /\ Last(merged) \in Ranges
        BY <3>3, Ends DEF SyntaxTypes
      <4> QED BY <2>2, <3>3, <4>1, JoinedFacts, More
    <3> QED BY <1>4, <3>1, <3>2, <3>3 DEF MergeChunk
  <2>4. SyntaxTypes'
    BY <1>1, <1>2, <1>4, <2>2, <2>3 DEF MergeChunk, SyntaxTypes
  <2>5. Control'
    BY <1>4, <2>1 DEF MergeChunk, Control
  <2> QED BY <2>4, <2>5
<1>5. CASE MergeEnds
  <2>1. SyntaxTypes'
    BY <1>1, <1>2, <1>5 DEF MergeEnds, SyntaxTypes
  <2>2. Control'
    BY <1>5 DEF MergeEnds, Control
  <2> QED BY <2>1, <2>2
<1>6. CASE Cut
  <2>1. pc' \in {"windows", "done"} /\ pc = "cut" /\ (pc' = "windows" => chunks = <<>>)
    BY <1>6 DEF Cut
  <2>2. SyntaxTypes'
    BY <1>1, <1>2, <1>6 DEF Cut, SyntaxTypes
  <2>3. Control'
    BY <1>6, <2>1 DEF Cut, Control
  <2> QED BY <2>2, <2>3
<1>7. CASE UNCHANGED syntaxVars
  <2>1. SyntaxTypes'
    BY <1>2, <1>7 DEF syntaxVars, SyntaxTypes
  <2>2. Control'
    BY <1>7 DEF syntaxVars, Control, Child
  <2> QED BY <2>1, <2>2
<1> QED BY <1>3, <1>4, <1>5, <1>6, <1>7 DEF Merge, WordWindows, vars

\* Every step keeps the types, and knows where the call is.
LEMMA BaseNext == ASSUME Base, [SyntaxNext]_vars PROVE Base'
  BY WalkBase, ChildrenBase, MergeBase DEF SyntaxNext, Answered

\* Type correctness.
THEOREM SyntaxTypeCorrect == SyntaxSpec => []SyntaxTypeOK
<1>1. ASSUME Base PROVE SyntaxTypeOK
  <2>1. \A i \in DOMAIN stack : InText(stack[i].node) /\ stack[i].ctx \in {None} \cup 0 .. TextLen
    <3>1. \A i \in DOMAIN stack : stack[i] \in Entries
      BY <1>1 DEF Base, SyntaxTypes
    <3> QED BY <3>1 DEF Entries, TextNodes
  <2>2. \A i \in DOMAIN children : InText(children[i])
    <3>1. \A i \in DOMAIN children : children[i] \in TextNodes
      BY <1>1 DEF Base, SyntaxTypes
    <3> QED BY <3>1 DEF TextNodes
  <2>3. \A i \in DOMAIN chunks : IsRange(chunks[i])
    <3>1. \A i \in DOMAIN chunks : chunks[i] \in Ranges
      BY <1>1 DEF Base, SyntaxTypes
    <3> QED BY <3>1 DEF Ranges, IsRange
  <2>4. (parent # None) = (pc \in {"children", "split"}) /\ (split # NoSplit) = (pc = "split")
    BY <1>1 DEF Base, Control
  <2>5. Finished => stack = <<>> \/ chunks = <<>>
    BY <1>1 DEF Base, Control, Finished
  <2> QED BY <1>1, <2>1, <2>2, <2>3, <2>4, <2>5 DEF Base, Control, SyntaxTypeOK
<1> QED BY <1>1, BaseInit, BaseNext, PTL DEF SyntaxSpec

(***************************************************************************)
(* The word windows                                                        *)
(***************************************************************************)
\* Nothing moves before the call comes to them, and then it is the run of a Chunker.
WindowInv ==
    /\ pc = "windows" => Inv
    /\ pc # "windows" => words \in Nat /\ startWord = 0 /\ windows = <<>> /\ running = FALSE

\* The word windows have not begun.
LEMMA WindowInit == SyntaxInit => WindowInv
<1> SUFFICES ASSUME SyntaxInit PROVE WindowInv
  OBVIOUS
<1>1. words \in Nat
  BY DocFacts DEF SyntaxInit
<1>2. pc = "windows" => Init
  BY <1>1 DEF SyntaxInit, Init
<1>3. pc # "windows" => running = FALSE
  BY DEF SyntaxInit
<1> QED BY <1>1, <1>2, <1>3, InvInit DEF SyntaxInit, WindowInv

\* They go on as in module Chunker, and only in the state windows.
LEMMA WindowNext == ASSUME WindowInv, [SyntaxNext]_vars PROVE WindowInv'
<1>1. CASE Walk \/ WalkChildren \/ WalkEnds \/ MergeChunk \/ MergeEnds
  <2>1. pc # "windows" /\ pc' # "windows" /\ UNCHANGED chunkerVars
    BY <1>1 DEF Walk, Skip, Comment, WholeNode, Oversized, Intermediate, Leaf, Visits, WalkChildren,
         SkipChild, WholeChild, PushChild, SplitChild, Piece, NoChildren, WalkEnds, MergeChunk, MergeEnds
  <2> QED BY <2>1 DEF WindowInv, chunkerVars
<1>2. CASE Cut
  <2>1. /\ words \in Nat /\ startWord = 0 /\ windows = <<>>
        /\ words' = words /\ startWord' = startWord /\ windows' = windows
    BY <1>2 DEF Cut, WindowInv
  <2>2. CASE chunks = <<>>
    <3>1. pc' = "windows" /\ running' = TRUE
      BY <1>2, <2>2 DEF Cut
    <3>2. Inv'
      BY <2>1, <3>1 DEF Inv, TypeInv, LoopInv, WindowsCover, KeptInv
    <3> QED BY <3>1, <3>2 DEF WindowInv
  <2>3. CASE chunks # <<>>
    <3>1. pc' = "done" /\ running' = FALSE
      BY <1>2, <2>3 DEF Cut
    <3> QED BY <2>1, <3>1 DEF WindowInv
  <2> QED BY <2>2, <2>3
<1>3. CASE WordWindows
  <2>1. Inv /\ Next /\ pc = "windows" /\ pc' = "windows"
    BY <1>3 DEF WordWindows, WindowInv, syntaxVars
  <2> QED BY <2>1, InvNext DEF WindowInv
<1>4. CASE UNCHANGED vars
  <2>1. UNCHANGED chunkerVars /\ pc' = pc
    BY <1>4 DEF vars, syntaxVars
  <2>2. Inv => Inv'
    BY <2>1, InvNext
  <2> QED BY <2>1, <2>2 DEF WindowInv, chunkerVars
<1> QED BY <1>1, <1>2, <1>3, <1>4 DEF SyntaxNext, Merge, Answered

\* A text without grammar or chunks is cut into the windows of a Chunker, and any other
\* into none.
THEOREM FallbackCovers == SyntaxSpec => []WindowsCover
<1>1. ASSUME WindowInv PROVE WindowsCover
  <2>1. CASE pc = "windows"
    BY <1>1, <2>1 DEF WindowInv, Inv
  <2>2. CASE pc # "windows"
    BY <1>1, <2>2 DEF WindowInv, WindowsCover
  <2> QED BY <2>1, <2>2
<1> QED BY <1>1, WindowInit, WindowNext, PTL DEF SyntaxSpec

(***************************************************************************)
(* Counting words                                                          *)
(***************************************************************************)
\* The words that start before a byte.
LEMMA PrefixFacts ==
  ASSUME NEW b \in Nat
  PROVE  Prefix(b) \in Nat /\ b <= 2 * Prefix(b) /\ 2 * Prefix(b) <= b + 1
  BY DEF Prefix

\* Between the words a and b there are no more than b - a.
LEMMA FewWords ==
  ASSUME TextLen \in Nat, NEW s \in Nat, NEW e \in Nat, NEW a \in Int, NEW b \in Int,
         a <= b, 2 * a <= s, e <= 2 * b
  PROVE  /\ CountWords(s, e) <= b - a /\ CountWordsIn(s, e) <= b - a
         /\ CountWords(s, e) \in Int /\ CountWordsIn(s, e) \in Int
  <1>1. 0 <= b - a
    OBVIOUS
  <1>2. Prefix(s) \in Nat /\ a <= Prefix(s)
    BY PrefixFacts
  <1>3. ASSUME NEW x \in Nat, x <= e PROVE Prefix(x) - Prefix(s) <= b - a
    <2>1. Prefix(x) \in Nat /\ 2 * Prefix(x) <= x + 1
      BY PrefixFacts
    <2>2. Prefix(x) <= b
      BY <1>3, <2>1
    <2> QED BY <1>2, <2>1, <2>2
  <1>4. CountWords(s, e) <= b - a
    BY <1>1, <1>3 DEF CountWords
  <1>5. CountWordsIn(s, e) <= b - a
    <2>1. CASE s >= e \/ s >= TextLen
      BY <1>1, <2>1 DEF CountWordsIn
    <2>2. CASE ~(s >= e \/ s >= TextLen) /\ e < TextLen
      BY <1>3, <2>2 DEF CountWordsIn
    <2>3. CASE ~(s >= e \/ s >= TextLen) /\ ~(e < TextLen)
      <3>1. TextLen <= e
        BY <2>3
      <3> QED BY <1>3, <2>3, <3>1 DEF CountWordsIn
    <2> QED BY <2>1, <2>2, <2>3
  <1>6. Prefix(e) \in Nat /\ Prefix(TextLen) \in Nat
    BY PrefixFacts
  <1>7. CountWords(s, e) \in Int
    BY <1>2, <1>6 DEF CountWords
  <1>8. CountWordsIn(s, e) \in Int
    BY <1>2, <1>6 DEF CountWordsIn
  <1> QED BY <1>4, <1>5, <1>7, <1>8

\* The elements of sequences that grow and shrink.
LEMMA Elements ==
  ASSUME NEW S, NEW s \in Seq(S)
  PROVE  /\ \A e \in S : ToSet(Append(s, e)) = ToSet(s) \cup {e}
         /\ ToSet(s) \subseteq S
         /\ s # <<>> => /\ Head(s) \in ToSet(s) /\ Last(s) \in ToSet(s)
                        /\ ToSet(Tail(s)) \subseteq ToSet(s) /\ ToSet(Front(s)) \subseteq ToSet(s)
  <1>1. DOMAIN s = 1 .. Len(s) /\ Len(s) \in Nat
    BY LenProperties
  <1>2. ASSUME NEW e \in S PROVE ToSet(Append(s, e)) = ToSet(s) \cup {e}
    <2>1. /\ DOMAIN Append(s, e) = 1 .. Len(s) + 1 /\ Append(s, e)[Len(s) + 1] = e
          /\ \A i \in 1 .. Len(s) : Append(s, e)[i] = s[i]
      BY More, LenProperties
    <2>2. 1 .. Len(s) + 1 = (1 .. Len(s)) \cup {Len(s) + 1}
      BY <1>1
    <2> QED BY <1>1, <2>1, <2>2 DEF ToSet
  <1>3. ToSet(s) \subseteq S
    BY DEF ToSet
  <1>4. ASSUME s # <<>>
        PROVE  /\ Head(s) \in ToSet(s) /\ Last(s) \in ToSet(s)
               /\ ToSet(Tail(s)) \subseteq ToSet(s) /\ ToSet(Front(s)) \subseteq ToSet(s)
    <2>1. /\ Len(s) >= 1 /\ Last(s) = s[Len(s)] /\ Head(s) = s[1]
          /\ Front(s) \in Seq(S) /\ Len(Front(s)) = Len(s) - 1
          /\ Tail(s) \in Seq(S) /\ Len(Tail(s)) = Len(s) - 1
      BY <1>4, Ends
    <2>2. \A i \in 1 .. Len(s) - 1 : Front(s)[i] = s[i] /\ Tail(s)[i] = s[i + 1]
      BY <1>4, Ends
    <2>3. DOMAIN Front(s) = 1 .. Len(s) - 1 /\ DOMAIN Tail(s) = 1 .. Len(s) - 1
      BY <2>1, LenProperties
    <2>4. \A i \in 1 .. Len(s) - 1 : i \in 1 .. Len(s) /\ i + 1 \in 1 .. Len(s)
      BY <1>1
    <2>5. 1 \in 1 .. Len(s) /\ Len(s) \in 1 .. Len(s)
      BY <1>1, <2>1
    <2> QED BY <1>1, <2>1, <2>2, <2>3, <2>4, <2>5, SMTT(30) DEF ToSet
  <1> QED BY <1>2, <1>3, <1>4

(***************************************************************************)
(* Why a chunk is long                                                     *)
(***************************************************************************)
Reason(c) ==
    \/ CountWordsIn(c.start, c.end) <= MaxChunk + Overlap
    \/ c.start \in headers
    \/ \E d \in ToSet(due) : d.end = c.end /\ CountWords(d.start, d.end) > MaxChunk

\* LongHasReason at every turn, before the merging and in the middle of it.
ReasonInv == \A c \in ToSet(chunks) \cup ToSet(merged) : Reason(c)

\* A reason is not lost.
LEMMA ReasonStays ==
  ASSUME doc' = doc, headers \subseteq headers', ToSet(due) \subseteq ToSet(due'), NEW c, Reason(c)
  PROVE  Reason(c)'
<1>1. TextLen' = TextLen
  BY SameText
<1>2. \A s, e : CountWordsIn(s, e)' = CountWordsIn(s, e) /\ CountWords(s, e)' = CountWords(s, e)
  BY <1>1 DEF CountWordsIn, CountWords, Prefix
<1> QED BY <1>2 DEF Reason

\* A step that gives a new chunk for which there is a reason.
LEMMA ReasonOfNew ==
  ASSUME Base, ReasonInv, doc' = doc, headers' = headers, merged' = merged,
         NEW r \in Ranges, chunks' = Append(chunks, r), NEW d \in Ranges, due' = Append(due, d),
         \/ CountWordsIn(r.start, r.end) <= MaxChunk + Overlap
         \/ r.start \in headers
         \/ d.end = r.end /\ CountWords(d.start, d.end) > MaxChunk
  PROVE  ReasonInv'
<1>1. ToSet(chunks') = ToSet(chunks) \cup {r} /\ ToSet(due') = ToSet(due) \cup {d}
  BY Elements DEF Base, SyntaxTypes
<1>2. ASSUME NEW c \in ToSet(chunks) \cup ToSet(merged) PROVE Reason(c)'
  BY <1>1, <1>2, ReasonStays DEF ReasonInv
<1>3. Reason(r)'
  <2>1. TextLen' = TextLen
    BY SameText
  <2>2. \A s, e : CountWordsIn(s, e)' = CountWordsIn(s, e) /\ CountWords(s, e)' = CountWords(s, e)
    BY <2>1 DEF CountWordsIn, CountWords, Prefix
  <2> QED BY <1>1, <2>2 DEF Reason
<1> QED BY <1>1, <1>2, <1>3 DEF ReasonInv

\* The bytes and the words of a range are numbers.
LEMMA CountTypes ==
  ASSUME SyntaxTypes, NEW c \in Ranges
  PROVE  CountWordsIn(c.start, c.end) \in Int /\ c.start \in Nat /\ c.end \in Nat
<1>1. c.start \in Nat /\ c.end \in Nat /\ TextLen \in Nat
  BY PrevEndFacts DEF Ranges
<1>2. Prefix(c.start) \in Nat /\ Prefix(c.end) \in Nat /\ Prefix(TextLen) \in Nat
  BY <1>1, PrefixFacts
<1> QED BY <1>1, <1>2 DEF CountWordsIn

\* The words of the chunk of a node.
LEMMA ChunkOfNode ==
  ASSUME SyntaxTypes, NEW n \in TextNodes, NEW ctx \in {None} \cup headers
  PROVE  LET r == RangeOf(ctx, doc[n], PrevEnd)
         IN  r \in Ranges /\ (CountWordsIn(r.start, r.end) <= doc[n].len + Overlap \/ r.start \in headers)
<1> DEFINE r == RangeOf(ctx, doc[n], PrevEnd)
           w == doc[n].word
           l == doc[n].len
<1>1. /\ w \in Nat /\ l \in Nat /\ Start(doc[n]) = 2 * w /\ End(doc[n]) <= 2 * (w + l)
      /\ TextLen \in Nat /\ PrevEnd \in Int /\ Overlap \in Nat
  <2>1. /\ w \in Nat /\ l \in Nat /\ Start(doc[n]) = 2 * w
        /\ (l > 0 => End(doc[n]) = 2 * (w + l) - 1) /\ (l = 0 => End(doc[n]) = 2 * w)
        /\ TextLen \in Nat /\ PrevEnd \in Int /\ Overlap \in Nat
    BY NodeFacts, PrevEndFacts, ChunkerAssumption DEF SyntaxTypes, Behind
  <2> HIDE DEF w, l
  <2> QED BY <2>1
<1>2. ctx \in {None} \cup 0 .. TextLen
  BY DEF SyntaxTypes
<1>3. /\ r \in Ranges /\ r.end = End(doc[n])
      /\ \/ r.start >= Start(doc[n]) - 2 * Overlap
         \/ r.start = ctx /\ ctx # None
  BY <1>1, <1>2, RangeFacts
<1>4. r.start \in Nat /\ r.end \in Nat
  BY <1>1, <1>3 DEF Ranges
<1> HIDE DEF w, l, r
<1>5. CASE r.start >= Start(doc[n]) - 2 * Overlap
  <2>1. /\ w - Overlap \in Int /\ w + l \in Int /\ w - Overlap <= w + l
        /\ 2 * (w - Overlap) <= r.start /\ r.end <= 2 * (w + l)
    BY <1>1, <1>3, <1>4, <1>5
  <2>2. CountWordsIn(r.start, r.end) <= (w + l) - (w - Overlap)
    BY <1>1, <1>4, <2>1, FewWords
  <2>3. (w + l) - (w - Overlap) = l + Overlap
    BY <1>1
  <2> QED BY <1>3, <2>2, <2>3 DEF r, l
<1>6. CASE r.start = ctx /\ ctx # None
  BY <1>3, <1>6 DEF r
<1> QED BY <1>3, <1>5, <1>6

\* Every step gives its new chunk a reason; merging gives one that is not too long.
LEMMA ReasonNext == ASSUME Base, ReasonInv, [SyntaxNext]_vars PROVE ReasonInv'
<1>1. ASSUME doc' = doc, headers \subseteq headers', due' = due,
             ToSet(chunks') \cup ToSet(merged') \subseteq ToSet(chunks) \cup ToSet(merged)
      PROVE  ReasonInv'
  BY <1>1, ReasonStays DEF ReasonInv
<1>2. CASE Skip \/ Oversized \/ Intermediate \/ SkipChild \/ PushChild \/ SplitChild \/ NoChildren
           \/ WalkEnds \/ Cut \/ WordWindows \/ UNCHANGED vars
  BY <1>1, <1>2 DEF Skip, Oversized, Intermediate, SkipChild, PushChild, SplitChild, NoChildren,
       WalkEnds, Cut, WordWindows, vars, syntaxVars
<1>3. ASSUME stack # <<>>
      PROVE  /\ Last(stack).node \in TextNodes /\ Top = doc[Last(stack).node] /\ Context = None
             /\ Own(Top) \in Ranges /\ Words(Top) = Top.len /\ Top.len \in Nat
             /\ Own(Top).start = Start(Top) /\ Own(Top).end = End(Top)
  BY <1>3, TopFacts, NodeFacts DEF Base, SyntaxTypes, Own
<1>4. MaxChunk \in Nat /\ Overlap \in Nat
  BY ChunkerAssumption
<1>5. CASE Comment
  <2>1. stack # <<>> /\ chunks' = Append(chunks, Own(Top)) /\ due' = Append(due, Own(Top))
        /\ doc' = doc /\ headers' = headers /\ merged' = merged
    BY <1>5 DEF Comment, Visits, Emit
  <2>2. CASE Words(Top) > MaxChunk
    <3>1. CountWords(Own(Top).start, Own(Top).end) > MaxChunk
      BY <1>3, <2>1, <2>2 DEF Words
    <3> QED BY <1>3, <2>1, <3>1, ReasonOfNew
  <2>3. CASE ~(Words(Top) > MaxChunk)
    <3>1. CountWordsIn(Own(Top).start, Own(Top).end) <= MaxChunk + Overlap
      <4>1. Top.len <= MaxChunk
        BY <1>3, <1>4, <2>1, <2>3
      <4>2. /\ Top.word \in Nat /\ Start(Top) = 2 * Top.word /\ End(Top) <= 2 * (Top.word + Top.len)
            /\ Start(Top) \in Nat /\ End(Top) \in Nat /\ TextLen \in Nat
        <5>1. /\ Top.word \in Nat /\ Start(Top) = 2 * Top.word
              /\ (Top.len > 0 => End(Top) = 2 * (Top.word + Top.len) - 1)
              /\ (Top.len = 0 => End(Top) = 2 * Top.word)
              /\ TextLen \in Nat /\ Start(Top) \in 0 .. TextLen /\ End(Top) \in 0 .. TextLen
          BY <1>3, <2>1, NodeFacts, PrevEndFacts DEF Base, SyntaxTypes, Behind
        <5> QED BY <1>3, <2>1, <5>1
      <4>3. /\ CountWordsIn(Start(Top), End(Top)) <= (Top.word + Top.len) - Top.word
            /\ CountWordsIn(Start(Top), End(Top)) \in Int
        <5>1. Top.word \in Int /\ Top.word + Top.len \in Int /\ Top.word <= Top.word + Top.len
              /\ 2 * Top.word <= Start(Top)
          BY <1>3, <2>1, <4>2
        <5> QED BY <4>2, <5>1, FewWords
      <4>4. CountWordsIn(Start(Top), End(Top)) <= MaxChunk + Overlap
        BY <1>3, <1>4, <2>1, <4>1, <4>2, <4>3
      <4> QED BY <1>3, <2>1, <4>4
    <3> QED BY <1>3, <2>1, <3>1, ReasonOfNew
  <2> QED BY <2>2, <2>3
<1>6. ASSUME stack # <<>>, Words(Top) <= MaxChunk
      PROVE  LET r == RangeOf(Context, Top, PrevEnd)
             IN  r \in Ranges /\ (CountWordsIn(r.start, r.end) <= MaxChunk + Overlap \/ r.start \in headers)
  <2> DEFINE r == RangeOf(Context, Top, PrevEnd)
  <2>1. r \in Ranges /\ (CountWordsIn(r.start, r.end) <= Top.len + Overlap \/ r.start \in headers)
    BY <1>3, <1>6, ChunkOfNode DEF Base
  <2>2. CountWordsIn(r.start, r.end) \in Int
    BY <2>1, CountTypes DEF Base
  <2> HIDE DEF r
  <2>3. Top.len <= MaxChunk
    BY <1>3, <1>6
  <2>4. CountWordsIn(r.start, r.end) <= Top.len + Overlap => CountWordsIn(r.start, r.end) <= MaxChunk + Overlap
    BY <1>3, <1>4, <1>6, <2>2, <2>3
  <2> QED BY <2>1, <2>4 DEF r
<1>7. CASE WholeNode
  <2>1. /\ stack # <<>> /\ Words(Top) <= MaxChunk
        /\ chunks' = Append(chunks, RangeOf(Context, Top, PrevEnd)) /\ due' = Append(due, Own(Top))
        /\ doc' = doc /\ headers' = headers /\ merged' = merged
    BY <1>7 DEF WholeNode, Visits, Emit, Fits
  <2> QED BY <1>3, <1>6, <2>1, ReasonOfNew
<1>8. CASE Leaf
  <2>1. stack # <<>> /\ doc' = doc /\ headers' = headers /\ merged' = merged
    BY <1>8 DEF Leaf, Visits, Emit
  <2>2. CASE chunks' = chunks
    <3>1. due' = due \/ due' = Append(due, Own(Top))
      BY <1>8, <2>2 DEF Leaf, Emit
    <3>2. ToSet(due) \subseteq ToSet(due')
      <4>1. due \in Seq(Ranges) /\ Own(Top) \in Ranges
        BY <1>3, <2>1 DEF Base, SyntaxTypes
      <4>2. ToSet(Append(due, Own(Top))) = ToSet(due) \cup {Own(Top)}
        BY <4>1, Elements
      <4> QED BY <3>1, <4>2
    <3> QED BY <2>1, <2>2, <3>2, ReasonStays DEF ReasonInv
  <2>3. CASE chunks' = Append(chunks, RangeOf(Context, Top, PrevEnd)) /\ due' = Append(due, Own(Top))
    <3> DEFINE r == RangeOf(Context, Top, PrevEnd)
    <3>1. CASE Words(Top) <= MaxChunk
      BY <1>3, <1>6, <2>1, <2>3, <3>1, ReasonOfNew
    <3>2. CASE ~(Words(Top) <= MaxChunk)
      <4>1. CountWords(Own(Top).start, Own(Top).end) > MaxChunk
        BY <1>3, <1>4, <2>1, <3>2 DEF Words
      <4>2. Context \in {None} \cup 0 .. TextLen /\ PrevEnd \in Int /\ SyntaxTypes
        BY <1>3, <2>1, PrevEndFacts DEF Base
      <4>3. r \in Ranges /\ r.end = End(doc[Last(stack).node])
        BY <1>3, <2>1, <4>2, RangeFacts, SMTT(30)
      <4> QED BY <1>3, <2>1, <2>3, <4>1, <4>3, ReasonOfNew
    <3> QED BY <3>1, <3>2
  <2>4. chunks' = chunks \/ (chunks' = Append(chunks, RangeOf(Context, Top, PrevEnd)) /\ due' = Append(due, Own(Top)))
    BY <1>8 DEF Leaf, Emit
  <2> QED BY <2>2, <2>3, <2>4
<1>9. CASE WholeChild
  <2>1. /\ pc = "children" /\ children # <<>> /\ Words(Child) <= MaxChunk
        /\ chunks' = Append(chunks, RangeOf(parent, Child, PrevEnd)) /\ due' = Append(due, Own(Child))
        /\ doc' = doc /\ headers' = headers /\ merged' = merged
    BY <1>9 DEF WholeChild, Emit, Fits
  <2>2. /\ Head(children) \in TextNodes /\ Child = doc[Head(children)]
        /\ Own(Child) \in Ranges /\ Words(Child) = Child.len /\ Child.len \in Nat
    BY <2>1, ChildFacts, NodeFacts DEF Base, SyntaxTypes
  <2> DEFINE r == RangeOf(parent, Child, PrevEnd)
  <2>3. r \in Ranges /\ (CountWordsIn(r.start, r.end) <= Child.len + Overlap \/ r.start \in headers)
    <3>1. parent \in {None} \cup headers
      BY DEF Base, SyntaxTypes
    <3> QED BY <2>2, <3>1, ChunkOfNode DEF Base
  <2>4. CountWordsIn(r.start, r.end) \in Int
    BY <2>3, CountTypes DEF Base
  <2> HIDE DEF r
  <2>5. Child.len <= MaxChunk
    BY <2>1, <2>2
  <2>6. CountWordsIn(r.start, r.end) <= Child.len + Overlap => CountWordsIn(r.start, r.end) <= MaxChunk + Overlap
    BY <1>4, <2>2, <2>4, <2>5
  <2> QED BY <2>1, <2>2, <2>3, <2>6, ReasonOfNew DEF r
<1>10. CASE Piece
  <2>1. /\ pc = "split" /\ doc' = doc /\ headers' = headers /\ merged' = merged
        /\ chunks' = Append(chunks, PieceRange)
        /\ due' = Append(due, [start |-> PieceStart, end |-> PieceEnd])
    BY <1>10 DEF Piece, PieceRange, PieceStart, PieceEnd, PieceTo
  <2>2. /\ PieceRange \in Ranges /\ [start |-> PieceStart, end |-> PieceEnd] \in Ranges
        /\ PieceTo \in Nat /\ PieceTo <= split.from + MaxChunk /\ split.from \in Nat
        /\ split.from < PieceTo /\ PieceTo <= Child.len
        /\ PieceStart = 2 * (Child.word + split.from) /\ PieceStart \in 0 .. TextLen
        /\ PieceTo = Child.len => PieceEnd = 2 * Behind(Child) - 1
        /\ PieceTo < Child.len => PieceEnd = 2 * (Child.word + PieceTo)
        /\ PieceEnd \in 0 .. TextLen /\ parent \in headers /\ PieceRange.end = PieceEnd
        /\ children # <<>>
    BY <2>1, PieceFacts
  <2>3. PieceRange.start \in headers \/ PieceRange.start = PieceStart
    BY <2>2 DEF PieceRange
  <2>4. CountWordsIn(PieceStart, PieceEnd) <= MaxChunk + Overlap
    <3>1. Child.word \in Nat /\ Child.len \in Nat /\ TextLen \in Nat
      BY <2>2, ChildFacts, NodeFacts, PrevEndFacts DEF Base, SyntaxTypes
    <3>2. PieceEnd <= 2 * (Child.word + PieceTo)
      <4>1. CASE PieceTo = Child.len
        BY <2>2, <3>1, <4>1 DEF Behind
      <4>2. CASE PieceTo < Child.len
        BY <2>2, <3>1, <4>2
      <4> QED BY <2>2, <3>1, <4>1, <4>2
    <3>3. /\ Child.word + split.from \in Int /\ Child.word + PieceTo \in Int
          /\ Child.word + split.from <= Child.word + PieceTo
          /\ 2 * (Child.word + split.from) <= PieceStart
          /\ PieceStart \in Nat /\ PieceEnd \in Nat
      BY <2>2, <3>1
    <3>4. /\ CountWordsIn(PieceStart, PieceEnd) <= (Child.word + PieceTo) - (Child.word + split.from)
          /\ CountWordsIn(PieceStart, PieceEnd) \in Int
      BY <3>1, <3>2, <3>3, FewWords
    <3>5. (Child.word + PieceTo) - (Child.word + split.from) <= MaxChunk
      BY <1>4, <2>2, <3>1, SMTT(30)
    <3>6. (Child.word + PieceTo) - (Child.word + split.from) \in Int
      BY <2>2, <3>1
    <3> QED BY <1>4, <3>4, <3>5, <3>6
  <2> QED BY <2>1, <2>2, <2>3, <2>4, ReasonOfNew
<1>11. CASE MergeChunk
  <2>1. /\ chunks # <<>> /\ chunks' = Tail(chunks) /\ doc' = doc /\ due' = due /\ headers' = headers
        /\ \/ merged' = merged
           \/ merged # <<>> /\ Joins(Last(merged), Head(chunks))
              /\ merged' = Append(Front(merged), Joined(Last(merged), Head(chunks)))
           \/ merged' = Append(merged, Head(chunks))
    BY <1>11 DEF MergeChunk
  <2>2. /\ chunks \in Seq(Ranges) /\ merged \in Seq(Ranges) /\ Head(chunks) \in Ranges
        /\ Head(chunks) \in ToSet(chunks) /\ ToSet(Tail(chunks)) \subseteq ToSet(chunks)
    <3>1. chunks \in Seq(Ranges) /\ merged \in Seq(Ranges)
      BY DEF Base, SyntaxTypes
    <3> QED BY <2>1, <3>1, Elements, Ends
  <2>3. CASE merged' = merged
    BY <1>1, <2>1, <2>2, <2>3
  <2>4. CASE merged' = Append(merged, Head(chunks))
    <3>1. ToSet(merged') = ToSet(merged) \cup {Head(chunks)}
      BY <2>2, <2>4, Elements
    <3> QED BY <1>1, <2>1, <2>2, <3>1
  <2>5. CASE /\ merged # <<>> /\ Joins(Last(merged), Head(chunks))
             /\ merged' = Append(Front(merged), Joined(Last(merged), Head(chunks)))
    <3> DEFINE j == Joined(Last(merged), Head(chunks))
    <3>1. /\ Front(merged) \in Seq(Ranges) /\ Last(merged) \in Ranges
          /\ ToSet(Front(merged)) \subseteq ToSet(merged)
      BY <2>2, <2>5, Ends, Elements
    <3>2. j \in Ranges /\ j.start = Last(merged).start /\ j.end = Head(chunks).end
      BY <2>2, <3>1, JoinedFacts
    <3>3. ToSet(merged') = ToSet(Front(merged)) \cup {j}
      BY <2>5, <3>1, <3>2, Elements
    <3>4. CountWordsIn(j.start, j.end) <= MaxChunk
      BY <2>5, <3>2 DEF Joins
    <3>5. CountWordsIn(j.start, j.end) \in Int
      BY <3>2, CountTypes DEF Base
    <3> HIDE DEF j
    <3>6. Reason(j)
      <4>1. CountWordsIn(j.start, j.end) <= MaxChunk + Overlap
        BY <1>4, <3>4, <3>5
      <4> QED BY <4>1 DEF Reason
    <3>7. \A c \in ToSet(chunks') \cup ToSet(merged') : Reason(c)
      BY <2>1, <2>2, <3>1, <3>3, <3>6 DEF ReasonInv
    <3> QED BY <2>1, <3>7, ReasonStays DEF ReasonInv
  <2> QED BY <2>1, <2>3, <2>4, <2>5
<1>12. CASE MergeEnds
  <2>1. doc' = doc /\ headers' = headers /\ due' = due /\ chunks' = merged /\ merged' = <<>>
    BY <1>12 DEF MergeEnds
  <2>2. ToSet(merged') = {}
    BY <2>1 DEF ToSet
  <2> QED BY <1>1, <2>1, <2>2
<1> QED BY <1>2, <1>5, <1>7, <1>8, <1>9, <1>10, <1>11, <1>12
     DEF SyntaxNext, Walk, WalkChildren, Merge, Answered

\* Every long chunk has its reason.
THEOREM LongChunksHaveReasons == SyntaxSpec => []LongHasReason
<1>1. SyntaxInit => ReasonInv
  BY DEF SyntaxInit, ReasonInv, ToSet
<1>2. ReasonInv => LongHasReason
  BY DEF ReasonInv, Reason, LongHasReason
<1>3. Base /\ ReasonInv /\ [SyntaxNext]_vars => (Base /\ ReasonInv)'
  BY BaseNext, ReasonNext
<1>4. SyntaxInit => Base
  BY BaseInit
<1> QED BY <1>1, <1>2, <1>3, <1>4, PTL DEF SyntaxSpec

(***************************************************************************)
(* Where the nodes and the chunks lie                                      *)
(***************************************************************************)
\* One of two nodes is in front of the other; a range is in front of a node or behind it.
Apart(a, b) == Follows(a, b) \/ Follows(b, a)
Clear(node, d) == d.end <= Start(node) \/ d.start >= 2 * Behind(node)

\* The next child is in the middle of split_by_words.
InPieces(j) == pc = "split" /\ split.from > 0 /\ j = 1

\* The nodes still to come are apart from each other, and clear of what was found; of the
\* pieces of a child none ends behind the next.
LayoutInv ==
    /\ \A i, j \in 1 .. Len(stack) : i < j => Apart(doc[stack[i].node], doc[stack[j].node])
    /\ \A i \in 1 .. Len(stack), j \in 1 .. Len(children) : Apart(doc[stack[i].node], doc[children[j]])
    /\ \A i, j \in 1 .. Len(children) : i < j => Follows(doc[children[j]], doc[children[i]])
    /\ \A d \in ToSet(due), i \in 1 .. Len(stack) : Clear(doc[stack[i].node], d)
    /\ \A d \in ToSet(due), j \in 1 .. Len(children) :
          Clear(doc[children[j]], d) \/ (InPieces(j) /\ d.end <= PieceEnd)

\* What is clear of a node is clear of what is inside it.
LEMMA InsideFacts ==
  ASSUME SyntaxTypes, NEW n \in TextNodes, NEW k \in TextNodes, Inside(doc[k], doc[n])
  PROVE  /\ \A m \in TextNodes : Apart(doc[m], doc[n]) => Apart(doc[m], doc[k])
         /\ \A d \in Ranges : Clear(doc[n], d) => Clear(doc[k], d)
         /\ Start(doc[n]) <= Start(doc[k]) /\ Behind(doc[k]) <= Behind(doc[n])
<1>1. \A m \in TextNodes : doc[m].word \in Nat /\ doc[m].len \in Nat
  BY NodeFacts DEF SyntaxTypes
<1>2. /\ doc[n].word <= doc[k].word /\ doc[k].word + doc[k].len <= doc[n].word + doc[n].len
      /\ Start(doc[n]) = 2 * doc[n].word /\ Start(doc[k]) = 2 * doc[k].word
  BY DEF Inside, Start
<1>3. \A d \in Ranges : d.start \in Nat /\ d.end \in Nat
  BY PrevEndFacts DEF Ranges
<1>4. ASSUME NEW m \in TextNodes, Apart(doc[m], doc[n]) PROVE Apart(doc[m], doc[k])
  BY <1>1, <1>2, <1>4 DEF Apart, Follows
<1>5. ASSUME NEW d \in Ranges, Clear(doc[n], d) PROVE Clear(doc[k], d)
  <2>1. CASE d.end <= Start(doc[n])
    BY <1>1, <1>2, <1>3, <2>1 DEF Clear
  <2>2. CASE d.start >= 2 * Behind(doc[n])
    <3>1. d.start >= 2 * Behind(doc[k])
      BY <1>1, <1>2, <1>3, <2>2 DEF Behind
    <3> QED BY <3>1 DEF Clear
  <2> QED BY <1>5, <2>1, <2>2 DEF Clear
<1> QED BY <1>1, <1>2, <1>4, <1>5 DEF Behind

\* What lies in a node is clear of every node apart from it.
LEMMA ClearFacts ==
  ASSUME SyntaxTypes, NEW n \in TextNodes, NEW m \in TextNodes, Apart(doc[m], doc[n]),
         NEW d \in Ranges, Start(doc[n]) <= d.start, d.end <= 2 * Behind(doc[n])
  PROVE  Clear(doc[m], d)
<1>1. /\ doc[m].word \in Nat /\ doc[m].len \in Nat /\ Start(doc[m]) = 2 * doc[m].word
      /\ doc[n].word \in Nat /\ doc[n].len \in Nat /\ Start(doc[n]) = 2 * doc[n].word
  BY NodeFacts DEF SyntaxTypes
<1>2. d.start \in Nat /\ d.end \in Nat
  BY PrevEndFacts DEF Ranges
<1>3. CASE Follows(doc[m], doc[n])
  <2>1. d.end <= Start(doc[m])
    BY <1>1, <1>2, <1>3 DEF Follows, Behind
  <2> QED BY <2>1 DEF Clear
<1>4. CASE Follows(doc[n], doc[m])
  <2>1. d.start >= 2 * Behind(doc[m])
    BY <1>1, <1>2, <1>4 DEF Follows, Behind
  <2> QED BY <2>1 DEF Clear
<1> QED BY <1>3, <1>4 DEF Apart

\* The range of a node lies in it.
LEMMA OwnFacts ==
  ASSUME SyntaxTypes, NEW n \in TextNodes
  PROVE  /\ Own(doc[n]) \in Ranges /\ Own(doc[n]).start = Start(doc[n]) /\ Own(doc[n]).end = End(doc[n])
         /\ Start(doc[n]) <= End(doc[n]) /\ End(doc[n]) <= 2 * Behind(doc[n])
         /\ doc[n].len > 0 => Start(doc[n]) < End(doc[n])
<1>1. /\ doc[n].word \in Nat /\ doc[n].len \in Nat
      /\ Start(doc[n]) = 2 * doc[n].word /\ Own(doc[n]) \in Ranges
      /\ doc[n].len > 0 => End(doc[n]) = 2 * Behind(doc[n]) - 1
      /\ doc[n].len = 0 => End(doc[n]) = 2 * doc[n].word
  BY NodeFacts DEF SyntaxTypes
<1>2. Behind(doc[n]) = doc[n].word + doc[n].len
  BY DEF Behind
<1> QED BY <1>1, <1>2 DEF Own

\* The next window of a child does not end in front of this one.
LEMMA PiecesGrow ==
  ASSUME Base, Piece, PieceTo < Child.len
  PROVE  PieceEnd' \in Nat /\ PieceEnd <= PieceEnd' /\ InPieces(1)' /\ Child' = Child
<1>1. pc = "split" /\ doc' = doc
  BY DEF Piece
<1>2. /\ children # <<>> /\ split.from \in Nat /\ split.from < Child.len
      /\ PieceTo \in Nat /\ PieceTo = split.from + MaxChunk
      /\ PieceEnd = 2 * (Child.word + PieceTo)
  BY <1>1, PieceFacts
<1>3. Child.word \in Nat /\ Child.len \in Nat
  BY <1>2, ChildFacts, NodeFacts DEF Base, SyntaxTypes
<1>4. ~(PieceTo >= Child.len)
  BY <1>2, <1>3
<1>5. pc' = "split" /\ children' = children /\ split' = [split EXCEPT !.from = NextStart(split.from)]
  BY <1>1, <1>4 DEF Piece, PieceTo
<1>6. split'.from = split.from + (MaxChunk - Overlap)
  BY <1>5 DEF NextStart, Base, SyntaxTypes
<1>7. Child' = Child
  BY <1>1, <1>5 DEF Child
<1> DEFINE w == Child.word
           l == Child.len
           f == split.from
           g == split'.from
           to == EndOf(g, l)
<1>8. /\ MaxChunk \in Nat /\ Overlap \in Nat /\ Overlap < MaxChunk
      /\ w \in Nat /\ l \in Nat /\ PieceTo < l /\ PieceEnd = 2 * (w + PieceTo)
      /\ Start(Child) = 2 * w /\ (l > 0 => End(Child) = 2 * (w + l) - 1)
  BY <1>2, <1>3, ChunkerAssumption DEF Start, End
<1>9. PieceEnd' = IF to = l THEN End(Child) ELSE Start(Child) + 2 * to
  BY <1>7 DEF PieceEnd, PieceTo
<1>10. split'.from > 0
  BY <1>2, <1>6, <1>8
<1>11. /\ to = IF g + MaxChunk < l THEN g + MaxChunk ELSE l
       /\ f \in Nat /\ g = f + (MaxChunk - Overlap) /\ PieceTo = f + MaxChunk
  BY <1>2, <1>6 DEF EndOf
<1> HIDE DEF w, l, f, g, to
<1>12. to \in Nat /\ PieceTo <= to
  <2>1. CASE g + MaxChunk < l
    <3>1. g \in Nat /\ f <= g
      BY <1>8, <1>11
    <3>2. to = g + MaxChunk
      BY <1>11, <2>1
    <3> QED BY <1>8, <1>11, <3>1, <3>2
  <2>2. CASE ~(g + MaxChunk < l)
    BY <1>2, <1>8, <1>11, <2>2
  <2> QED BY <2>1, <2>2
<1>13. PieceEnd' \in Nat /\ PieceEnd <= PieceEnd'
  <2>1. CASE to = l
    <3>1. PieceEnd' = 2 * (w + l) - 1 /\ l > 0
      BY <1>2, <1>8, <1>9, <2>1
    <3> QED BY <1>2, <1>8, <3>1
  <2>2. CASE to # l
    <3>1. PieceEnd' = 2 * w + 2 * to
      BY <1>8, <1>9, <2>2
    <3> QED BY <1>2, <1>8, <1>12, <3>1
  <2> QED BY <2>1, <2>2
<1>14. InPieces(1)'
  BY <1>5, <1>10 DEF InPieces
<1> QED BY <1>7, <1>13, <1>14

\* At the start there is the root only.
LEMMA LayoutInit == SyntaxInit => LayoutInv
<1> SUFFICES ASSUME SyntaxInit PROVE LayoutInv
  OBVIOUS
<1>1. Len(stack) = 1 /\ Len(children) = 0 /\ ToSet(due) = {}
  BY DEF SyntaxInit, ToSet
<1>2. \A i, j \in 1 .. 1 : ~(i < j)
  OBVIOUS
<1> QED BY <1>1, <1>2 DEF LayoutInv

\* The stack without its top.
LEMMA Popped ==
  ASSUME SyntaxTypes, LayoutInv, stack # <<>>
  PROVE  /\ \A i, j \in 1 .. Len(Rest) : i < j => Apart(doc[Rest[i].node], doc[Rest[j].node])
         /\ \A i \in 1 .. Len(Rest) : Rest[i].node \in TextNodes /\ Apart(doc[Rest[i].node], Top)
         /\ \A i \in 1 .. Len(Rest), j \in 1 .. Len(children) : Apart(doc[Rest[i].node], doc[children[j]])
         /\ \A d \in ToSet(due), i \in 1 .. Len(Rest) : Clear(doc[Rest[i].node], d)
         /\ \A d \in ToSet(due) : Clear(Top, d)
         /\ Len(Rest) \in Nat
<1>1. /\ Last(stack) = stack[Len(stack)] /\ Len(stack) \in Nat /\ Len(stack) >= 1
      /\ Len(Rest) = Len(stack) - 1 /\ Rest \in Seq(Entries)
      /\ \A i \in 1 .. Len(stack) - 1 : Rest[i] = stack[i]
      /\ Top = doc[Last(stack).node]
  BY TopFacts
<1>2. \A i \in 1 .. Len(Rest) : i \in 1 .. Len(stack) /\ i < Len(stack) /\ Rest[i] = stack[i]
  BY <1>1
<1>3. Len(stack) \in 1 .. Len(stack) /\ Top = doc[stack[Len(stack)].node]
  BY <1>1
<1>4. \A i \in 1 .. Len(Rest) : Rest[i].node \in TextNodes
  <2>1. \A i \in 1 .. Len(Rest) : Rest[i] \in Entries
    BY <1>1, ElementOfSeq
  <2> QED BY <2>1 DEF Entries
<1>5. \A i \in 1 .. Len(Rest) : Apart(doc[Rest[i].node], Top)
  BY <1>2, <1>3 DEF LayoutInv
<1>6. \A d \in ToSet(due) : Clear(Top, d)
  BY <1>3 DEF LayoutInv
<1>7. \A i, j \in 1 .. Len(Rest) : i < j => Apart(doc[Rest[i].node], doc[Rest[j].node])
  BY <1>2 DEF LayoutInv
<1>8. /\ \A i \in 1 .. Len(Rest), j \in 1 .. Len(children) : Apart(doc[Rest[i].node], doc[children[j]])
      /\ \A d \in ToSet(due), i \in 1 .. Len(Rest) : Clear(doc[Rest[i].node], d)
  BY <1>2 DEF LayoutInv
<1>9. Len(Rest) \in Nat
  BY <1>1
<1> QED BY <1>4, <1>5, <1>6, <1>7, <1>8, <1>9

\* A step of the walk takes the top off, and may put its children there.
LEMMA LayoutWalk == ASSUME Base, LayoutInv, Walk PROVE LayoutInv'
<1> DEFINE n == Last(stack).node
<1>1. /\ doc' = doc /\ pc = "walk" /\ stack # <<>> /\ SyntaxTypes /\ doc \in Documents
      /\ children = <<>> /\ Len(children) = 0
  BY DEF Walk, Skip, Comment, WholeNode, Oversized, Intermediate, Leaf, Visits, Base, Control, SyntaxTypes
<1>2. n \in TextNodes /\ Top = doc[n] /\ Context = None /\ Rest \in Seq(Entries)
  BY <1>1, TopFacts
<1>3. /\ \A i, j \in 1 .. Len(Rest) : i < j => Apart(doc[Rest[i].node], doc[Rest[j].node])
      /\ \A i \in 1 .. Len(Rest) : Rest[i].node \in TextNodes /\ Apart(doc[Rest[i].node], Top)
      /\ \A d \in ToSet(due), i \in 1 .. Len(Rest) : Clear(doc[Rest[i].node], d)
      /\ \A d \in ToSet(due) : Clear(Top, d)
      /\ Len(Rest) \in Nat
  BY <1>1, Popped
<1>4. due \in Seq(Ranges) /\ ToSet(due) \subseteq Ranges
  BY <1>1, Elements DEF SyntaxTypes
<1>5. ASSUME stack' = Rest, children' = children, due' = due \/ due' = Append(due, Own(Top))
      PROVE  LayoutInv'
  <2>1. /\ Own(doc[n]) \in Ranges /\ Own(doc[n]).start = Start(doc[n])
        /\ Own(doc[n]).end <= 2 * Behind(doc[n]) /\ Start(doc[n]) <= Own(doc[n]).start
    <3>1. /\ Own(doc[n]) \in Ranges /\ Own(doc[n]).start = Start(doc[n]) /\ Own(doc[n]).end = End(doc[n])
          /\ End(doc[n]) <= 2 * Behind(doc[n])
      BY <1>1, <1>2, OwnFacts
    <3>2. Own(doc[n]).start \in Nat
      BY <1>1, <3>1, PrevEndFacts DEF Ranges
    <3> QED BY <3>1, <3>2
  <2>2. \A i \in 1 .. Len(Rest) : Clear(doc[Rest[i].node], Own(Top))
    BY <1>1, <1>2, <1>3, <2>1, ClearFacts
  <2>3. ToSet(due') \subseteq ToSet(due) \cup {Own(Top)}
    BY <1>2, <1>4, <1>5, <2>1, Elements
  <2>4. \A d \in ToSet(due'), i \in 1 .. Len(Rest) : Clear(doc[Rest[i].node], d)
    BY <1>3, <2>2, <2>3
  <2>5. 1 .. Len(children) = {}
    BY <1>1
  <2> QED BY <1>1, <1>3, <1>5, <2>4, <2>5 DEF LayoutInv
<1>6. CASE Skip \/ Comment \/ WholeNode \/ Leaf
  <2>1. stack' = Rest /\ children' = children /\ (due' = due \/ due' = Append(due, Own(Top)))
    BY <1>6 DEF Skip, Comment, WholeNode, Leaf, Emit
  <2> QED BY <1>5, <2>1
<1> DEFINE kids == Top.kids
<1>7. /\ kids \in Seq(TextNodes) /\ Len(kids) \in Nat
      /\ \A i \in 1 .. Len(kids) : kids[i] \in TextNodes /\ Inside(doc[kids[i]], doc[n])
      /\ \A i, j \in 1 .. Len(kids) : i < j => Follows(doc[kids[j]], doc[kids[i]])
  <2>1. /\ kids \in Seq(TextNodes)
        /\ \A i \in DOMAIN kids : Inside(doc[kids[i]], doc[n])
        /\ \A i, j \in DOMAIN kids : j < i => Follows(doc[kids[i]], doc[kids[j]])
    BY <1>1, <1>2, KidFacts
  <2>2. DOMAIN kids = 1 .. Len(kids) /\ Len(kids) \in Nat /\ \A i \in 1 .. Len(kids) : kids[i] \in TextNodes
    BY <2>1, LenProperties, ElementOfSeq
  <2> QED BY <2>1, <2>2
<1> HIDE DEF kids
<1>8. /\ \A i \in 1 .. Len(Rest), j \in 1 .. Len(kids) : Apart(doc[Rest[i].node], doc[kids[j]])
      /\ \A d \in ToSet(due), j \in 1 .. Len(kids) : Clear(doc[kids[j]], d)
  BY <1>1, <1>2, <1>3, <1>4, <1>7, InsideFacts
<1>9. CASE Oversized
  <2>1. stack' = Rest /\ children' = kids /\ due' = due
    BY <1>9 DEF Oversized, kids
  <2> QED BY <1>1, <1>3, <1>7, <1>8, <2>1 DEF LayoutInv
<1>10. CASE Intermediate
  <2>1. stack' = Rest \o Pushes(kids, None) /\ children' = children /\ due' = due
    BY <1>2, <1>10 DEF Intermediate, Pushes, kids
  <2>2. /\ Pushes(kids, None) \in Seq(Entries) /\ Len(Pushes(kids, None)) = Len(kids)
        /\ \A i \in 1 .. Len(kids) : Pushes(kids, None)[i].node = kids[i]
    <3>1. /\ Pushes(kids, None) \in Seq([node : TextNodes, ctx : {None}])
          /\ Len(Pushes(kids, None)) = Len(kids)
          /\ \A i \in 1 .. Len(kids) : Pushes(kids, None)[i] = [node |-> kids[i], ctx |-> None]
      <4> DEFINE ctx == None
      <4> HIDE DEF ctx
      <4>1. /\ Pushes(kids, ctx) \in Seq([node : TextNodes, ctx : {ctx}])
            /\ Len(Pushes(kids, ctx)) = Len(kids)
            /\ \A i \in 1 .. Len(kids) : Pushes(kids, ctx)[i] = [node |-> kids[i], ctx |-> ctx]
        <5>1. kids \in Seq(TextNodes)
          BY <1>7
        <5> QED BY <5>1, Pushed, SMTT(30)
      <4> QED BY <4>1 DEF ctx
    <3>2. ASSUME NEW i \in 1 .. Len(kids) PROVE Pushes(kids, None)[i].node = kids[i]
      <4>1. Pushes(kids, None)[i] = [node |-> kids[i], ctx |-> None]
        BY <3>1
      <4> QED BY <4>1
    <3> QED BY <3>1, <3>2 DEF Entries
  <2> DEFINE r == Len(Rest)
             node(i) == IF i <= r THEN Rest[i].node ELSE kids[i - r]
  <2>3. Len(stack') = r + Len(kids) /\ \A i \in 1 .. r + Len(kids) : stack'[i].node = node(i)
    <3>1. /\ Len(stack') = r + Len(kids)
          /\ \A i \in 1 .. r + Len(kids) : stack'[i] = IF i <= r THEN Rest[i] ELSE Pushes(kids, None)[i - r]
      <4> DEFINE p == Pushes(kids, None)
      <4>1. Rest \in Seq(Entries) /\ p \in Seq(Entries) /\ Len(p) = Len(kids) /\ stack' = Rest \o p
        BY <1>2, <2>1, <2>2
      <4> HIDE DEF p
      <4>2. /\ Len(Rest \o p) = Len(Rest) + Len(p)
            /\ \A i \in 1 .. Len(Rest) + Len(p) : (Rest \o p)[i] = IF i <= Len(Rest) THEN Rest[i] ELSE p[i - Len(Rest)]
        BY <4>1, ConcatProperties
      <4> QED BY <4>1, <4>2 DEF p
    <3>2. ASSUME NEW i \in 1 .. r + Len(kids), ~(i <= r) PROVE i - r \in 1 .. Len(kids)
      BY <1>3, <1>7, <3>2
    <3> QED BY <2>2, <3>1, <3>2
  <2>4. \A i \in 1 .. r + Len(kids) : (i <= r => i \in 1 .. r) /\ (~(i <= r) => i - r \in 1 .. Len(kids))
    BY <1>3, <1>7
  <2>5. ASSUME NEW i \in 1 .. r + Len(kids), NEW j \in 1 .. r + Len(kids), i < j
        PROVE  Apart(doc[node(i)], doc[node(j)])
    <3>1. CASE i <= r /\ j <= r
      BY <1>3, <2>4, <2>5, <3>1
    <3>2. CASE i <= r /\ ~(j <= r)
      BY <1>8, <2>4, <3>2
    <3>3. CASE ~(i <= r) /\ ~(j <= r)
      <4>1. i - r \in 1 .. Len(kids) /\ j - r \in 1 .. Len(kids) /\ i - r < j - r
        BY <1>3, <1>7, <2>4, <2>5, <3>3
      <4> QED BY <1>7, <3>3, <4>1 DEF Apart
    <3>4. i <= r \/ ~(j <= r)
      BY <1>3, <1>7, <2>5
    <3> QED BY <3>1, <3>2, <3>3, <3>4
  <2>6. ASSUME NEW d \in ToSet(due), NEW i \in 1 .. r + Len(kids) PROVE Clear(doc[node(i)], d)
    BY <1>3, <1>8, <2>4
  <2>7. 1 .. Len(children) = {}
    BY <1>1
  <2> HIDE DEF node, r
  <2> QED BY <1>1, <2>1, <2>3, <2>5, <2>6, <2>7, SMTT(30) DEF LayoutInv
<1> QED BY <1>6, <1>9, <1>10 DEF Walk

\* The children without the next.
LEMMA Passed ==
  ASSUME SyntaxTypes, LayoutInv, children # <<>>
  PROVE  LET rest == Tail(children)
         IN  /\ rest \in Seq(TextNodes) /\ Len(rest) \in Nat
             /\ \A j \in 1 .. Len(rest) :
                   /\ rest[j] \in TextNodes /\ rest[j] = children[j + 1] /\ j + 1 \in 1 .. Len(children)
                   /\ Follows(doc[rest[j]], Child)
             /\ \A i, j \in 1 .. Len(rest) : i < j => Follows(doc[rest[j]], doc[rest[i]])
             /\ \A i \in 1 .. Len(stack), j \in 1 .. Len(rest) : Apart(doc[stack[i].node], doc[rest[j]])
             /\ \A i \in 1 .. Len(stack) : Apart(doc[stack[i].node], Child)
             /\ \A d \in ToSet(due), j \in 1 .. Len(rest) : Clear(doc[rest[j]], d)
             /\ \A d \in ToSet(due) : Clear(Child, d) \/ (InPieces(1) /\ d.end <= PieceEnd)
<1> DEFINE rest == Tail(children)
<1>1. /\ Child = doc[children[1]] /\ Len(children) \in Nat /\ Len(children) >= 1
      /\ rest \in Seq(TextNodes) /\ Len(rest) = Len(children) - 1
      /\ \A j \in 1 .. Len(children) - 1 : rest[j] = children[j + 1]
  BY ChildFacts
<1> HIDE DEF rest
<1>2. 1 \in 1 .. Len(children) /\ Len(rest) \in Nat
  BY <1>1
<1>3. ASSUME NEW j \in 1 .. Len(rest)
      PROVE  /\ rest[j] \in TextNodes /\ rest[j] = children[j + 1] /\ j + 1 \in 1 .. Len(children)
             /\ 1 < j + 1 /\ j + 1 # 1
  BY <1>1, ElementOfSeq
<1>4. ASSUME NEW j \in 1 .. Len(rest) PROVE Follows(doc[rest[j]], Child)
  BY <1>1, <1>2, <1>3 DEF LayoutInv
<1>5. ASSUME NEW i \in 1 .. Len(rest), NEW j \in 1 .. Len(rest), i < j
      PROVE  Follows(doc[rest[j]], doc[rest[i]])
  <2>1. i + 1 < j + 1
    BY <1>1, <1>5
  <2> QED BY <1>3, <2>1 DEF LayoutInv
<1>6. /\ \A i \in 1 .. Len(stack), j \in 1 .. Len(rest) : Apart(doc[stack[i].node], doc[rest[j]])
      /\ \A i \in 1 .. Len(stack) : Apart(doc[stack[i].node], Child)
  BY <1>1, <1>2, <1>3 DEF LayoutInv
<1>7. ASSUME NEW d \in ToSet(due), NEW j \in 1 .. Len(rest) PROVE Clear(doc[rest[j]], d)
  BY <1>3 DEF LayoutInv, InPieces
<1>8. \A d \in ToSet(due) : Clear(Child, d) \/ (InPieces(1) /\ d.end <= PieceEnd)
  BY <1>1, <1>2 DEF LayoutInv
<1> QED BY <1>1, <1>2, <1>3, <1>4, <1>5, <1>6, <1>7, <1>8 DEF rest

\* A range in the next child is clear of every other node still to come.
LEMMA NewInChild ==
  ASSUME SyntaxTypes, LayoutInv, children # <<>>,
         NEW e \in Ranges, Start(Child) <= e.start, e.end <= 2 * Behind(Child)
  PROVE  /\ \A i \in 1 .. Len(stack) : Clear(doc[stack[i].node], e)
         /\ \A j \in 1 .. Len(Tail(children)) :
               Clear(doc[Tail(children)[j]], e) /\ e.end <= Start(doc[Tail(children)[j]])
<1>1. /\ \A j \in 1 .. Len(Tail(children)) : Tail(children)[j] \in TextNodes /\ Follows(doc[Tail(children)[j]], Child)
      /\ \A i \in 1 .. Len(stack) : Apart(doc[stack[i].node], Child)
  BY Passed
<1>2. Head(children) \in TextNodes /\ Child = doc[Head(children)]
  BY ChildFacts
<1>3. \A i \in 1 .. Len(stack) : stack[i].node \in TextNodes
  <2>1. \A i \in 1 .. Len(stack) : stack[i] \in Entries
    BY ElementOfSeq DEF SyntaxTypes
  <2> QED BY <2>1 DEF Entries
<1>4. \A i \in 1 .. Len(stack) : Clear(doc[stack[i].node], e)
  BY <1>1, <1>2, <1>3, ClearFacts
<1>5. ASSUME NEW m \in TextNodes, Follows(doc[m], Child) PROVE e.end <= Start(doc[m])
  <2>1. /\ doc[m].word \in Nat /\ Start(doc[m]) = 2 * doc[m].word
        /\ Child.word \in Nat /\ Child.len \in Nat
    BY <1>2, NodeFacts DEF SyntaxTypes
  <2>2. e.end \in Nat
    BY PrevEndFacts DEF Ranges
  <2> QED BY <1>5, <2>1, <2>2 DEF Follows, Behind
<1> QED BY <1>1, <1>4, <1>5 DEF Clear

\* A step over the children of an oversized node.
LEMMA LayoutChildren == ASSUME Base, LayoutInv, WalkChildren PROVE LayoutInv'
<1>1. /\ doc' = doc /\ SyntaxTypes /\ doc \in Documents /\ due \in Seq(Ranges)
  BY DEF WalkChildren, SkipChild, WholeChild, PushChild, SplitChild, Piece, NoChildren, Base, SyntaxTypes
<1> DEFINE rest == Tail(children)
<1>2. ASSUME children # <<>>, children' = rest, stack' = stack,
             \/ due' = due
             \/ \E e \in Ranges : /\ due' = Append(due, e)
                                  /\ Start(Child) <= e.start /\ e.end <= 2 * Behind(Child)
      PROVE  LayoutInv'
  <2>1. /\ \A i, j \in 1 .. Len(rest) : i < j => Follows(doc[rest[j]], doc[rest[i]])
        /\ \A i \in 1 .. Len(stack), j \in 1 .. Len(rest) : Apart(doc[stack[i].node], doc[rest[j]])
        /\ \A d \in ToSet(due), j \in 1 .. Len(rest) : Clear(doc[rest[j]], d)
    BY <1>1, <1>2, Passed
  <2>2. /\ \A d \in ToSet(due'), i \in 1 .. Len(stack) : Clear(doc[stack[i].node], d)
        /\ \A d \in ToSet(due'), j \in 1 .. Len(rest) : Clear(doc[rest[j]], d)
    <3>1. CASE due' = due
      BY <2>1, <3>1 DEF LayoutInv
    <3>2. CASE due' # due
      <4>1. PICK e \in Ranges : due' = Append(due, e) /\ Start(Child) <= e.start /\ e.end <= 2 * Behind(Child)
        BY <1>2, <3>2
      <4>2. ToSet(due') = ToSet(due) \cup {e}
        BY <1>1, <4>1, Elements
      <4>3. /\ \A i \in 1 .. Len(stack) : Clear(doc[stack[i].node], e)
            /\ \A j \in 1 .. Len(rest) : Clear(doc[rest[j]], e)
        BY <1>1, <1>2, <4>1, NewInChild
      <4> QED BY <2>1, <4>2, <4>3 DEF LayoutInv
    <3> QED BY <3>1, <3>2
  <2> HIDE DEF rest
  <2>3. \A i, j \in 1 .. Len(stack) : i < j => Apart(doc[stack[i].node], doc[stack[j].node])
    BY DEF LayoutInv
  <2> QED BY <1>1, <1>2, <2>1, <2>2, <2>3 DEF LayoutInv
<1>3. CASE SkipChild
  BY <1>2, <1>3 DEF SkipChild, NextChild
<1>4. CASE WholeChild
  <2>1. children # <<>> /\ children' = rest /\ stack' = stack /\ due' = Append(due, Own(Child))
    BY <1>4 DEF WholeChild, NextChild, Emit
  <2>2. /\ Own(Child) \in Ranges /\ Own(Child).start = Start(Child)
        /\ Own(Child).end <= 2 * Behind(Child) /\ Start(Child) \in Nat
    <3>1. Head(children) \in TextNodes /\ Child = doc[Head(children)]
      BY <1>1, <2>1, ChildFacts
    <3> QED BY <1>1, <3>1, OwnFacts, NodeFacts
  <2>3. Start(Child) <= Own(Child).start
    BY <2>2
  <2> QED BY <1>2, <2>1, <2>2, <2>3
<1>5. CASE PushChild
  <2>1. /\ children # <<>> /\ pc = "children" /\ children' = rest /\ due' = due
        /\ stack' = Append(stack, [node |-> Head(children), ctx |-> None])
    BY <1>5 DEF PushChild, NextChild
  <2>2. /\ \A i, j \in 1 .. Len(rest) : i < j => Follows(doc[rest[j]], doc[rest[i]])
        /\ \A j \in 1 .. Len(rest) : Follows(doc[rest[j]], Child)
        /\ \A i \in 1 .. Len(stack), j \in 1 .. Len(rest) : Apart(doc[stack[i].node], doc[rest[j]])
        /\ \A i \in 1 .. Len(stack) : Apart(doc[stack[i].node], Child)
        /\ \A d \in ToSet(due), j \in 1 .. Len(rest) : Clear(doc[rest[j]], d)
        /\ \A d \in ToSet(due) : Clear(Child, d) \/ (InPieces(1) /\ d.end <= PieceEnd)
    BY <1>1, <2>1, Passed
  <2>3. \A d \in ToSet(due) : Clear(Child, d)
    BY <2>1, <2>2 DEF InPieces
  <2>4. Child = doc[Head(children)] /\ Head(children) \in TextNodes
    BY <1>1, <2>1, ChildFacts
  <2> DEFINE n == Len(stack)
  <2>5. /\ n \in Nat /\ Len(stack') = n + 1 /\ stack'[n + 1].node = Head(children)
        /\ \A i \in 1 .. n : stack'[i] = stack[i]
    <3>1. [node |-> Head(children), ctx |-> None] \in Entries
      BY <2>4 DEF Entries
    <3>2. stack \in Seq(Entries)
      BY <1>1 DEF SyntaxTypes
    <3>3. /\ n \in Nat /\ Len(stack') = n + 1
          /\ stack'[n + 1] = [node |-> Head(children), ctx |-> None]
          /\ \A i \in 1 .. n : stack'[i] = stack[i]
      BY <2>1, <3>1, <3>2, More
    <3> QED BY <3>3
  <2> HIDE DEF rest, n
  <2>6. \A i \in 1 .. n + 1 : i \in 1 .. n \/ i = n + 1
    BY <2>5
  <2>7. \A i, j \in 1 .. n + 1 : i < j => i \in 1 .. n
    BY <2>5
  <2>8. ASSUME NEW i \in 1 .. n + 1, NEW j \in 1 .. n + 1, i < j
        PROVE  Apart(doc[stack'[i].node], doc[stack'[j].node])
    <3>1. i \in 1 .. n
      BY <2>7, <2>8
    <3>2. CASE j \in 1 .. n
      BY <2>5, <2>8, <3>1, <3>2 DEF LayoutInv, n
    <3>3. CASE j = n + 1
      BY <2>2, <2>4, <2>5, <3>1, <3>3 DEF n
    <3> QED BY <2>6, <3>2, <3>3
  <2>9. ASSUME NEW i \in 1 .. n + 1, NEW j \in 1 .. Len(rest)
        PROVE  Apart(doc[stack'[i].node], doc[rest[j]])
    <3>1. CASE i \in 1 .. n
      BY <2>2, <2>5, <3>1 DEF n
    <3>2. CASE i = n + 1
      BY <2>2, <2>4, <2>5, <3>2 DEF Apart
    <3> QED BY <2>6, <3>1, <3>2
  <2>10. ASSUME NEW i \in 1 .. n + 1, NEW d \in ToSet(due)
         PROVE  Clear(doc[stack'[i].node], d)
    <3>1. CASE i \in 1 .. n
      BY <2>5, <3>1 DEF LayoutInv, n
    <3>2. CASE i = n + 1
      BY <2>3, <2>4, <2>5, <3>2
    <3> QED BY <2>6, <3>1, <3>2
  <2> QED BY <1>1, <2>1, <2>2, <2>5, <2>8, <2>9, <2>10 DEF LayoutInv
<1>6. CASE SplitChild
  <2>1. /\ pc = "children" /\ children' = children /\ stack' = stack /\ due' = due
    BY <1>6 DEF SplitChild
  <2>2. \A j : ~InPieces(j)
    BY <2>1 DEF InPieces
  <2> QED BY <1>1, <2>1, <2>2 DEF LayoutInv
<1>7. CASE Piece
  <2> DEFINE e == [start |-> PieceStart, end |-> PieceEnd]
  <2>1. pc = "split" /\ due' = Append(due, e) /\ stack' = stack
    BY <1>7 DEF Piece, PieceStart, PieceEnd, PieceTo
  <2>2. /\ children # <<>> /\ PieceTo \in Nat /\ PieceTo <= Child.len
        /\ e \in Ranges /\ PieceEnd <= 2 * Behind(Child)
        /\ PieceStart = 2 * (Child.word + split.from) /\ split.from \in Nat
    BY <2>1, PieceFacts
  <2>3. Child.word \in Nat /\ Child.len \in Nat /\ Start(Child) = 2 * Child.word
    BY <1>1, <2>2, ChildFacts, NodeFacts
  <2>4. Start(Child) <= e.start /\ e.end <= 2 * Behind(Child)
    BY <2>2, <2>3
  <2>5. CASE PieceTo >= Child.len
    <3>1. children' = rest
      BY <1>7, <2>5 DEF Piece, PieceTo, NextChild
    <3> QED BY <1>2, <2>1, <2>2, <2>4, <3>1
  <2>6. CASE PieceTo < Child.len
    <3>1. PieceEnd' \in Nat /\ PieceEnd <= PieceEnd' /\ InPieces(1)' /\ Child' = Child
      BY <1>7, <2>6, PiecesGrow
    <3>2. children' = children
      <4>1. ~(PieceTo >= Child.len)
        BY <2>2, <2>3, <2>6
      <4> QED BY <1>7, <4>1 DEF Piece, PieceTo
    <3>3. /\ \A j \in 1 .. Len(rest) : rest[j] = children[j + 1]
          /\ \A d \in ToSet(due), j \in 1 .. Len(rest) : Clear(doc[rest[j]], d)
          /\ \A d \in ToSet(due) : Clear(Child, d) \/ (InPieces(1) /\ d.end <= PieceEnd)
          /\ \A i \in 1 .. Len(stack) : Clear(doc[stack[i].node], e)
          /\ \A j \in 1 .. Len(rest) : Clear(doc[rest[j]], e)
      BY <1>1, <2>2, <2>4, Passed, NewInChild
    <3>4. ToSet(due') = ToSet(due) \cup {e} /\ ToSet(due) \subseteq Ranges
      BY <1>1, <2>1, <2>2, Elements
    <3>5. \A d \in Ranges : d.end <= PieceEnd => d.end <= PieceEnd'
      <4>1. \A d \in Ranges : d.end \in Nat
        BY <1>1, PrevEndFacts DEF Ranges
      <4>2. PieceEnd \in Nat
        BY <2>2, <4>1
      <4> QED BY <3>1, <4>1, <4>2
    <3>6. ASSUME NEW d \in ToSet(due'), NEW j \in 1 .. Len(children)
          PROVE  Clear(doc[children[j]], d) \/ (InPieces(j)' /\ d.end <= PieceEnd')
      <4>1. CASE j = 1
        <5>1. Child = doc[children[1]]
          BY <1>1, <2>2, ChildFacts
        <5>2. e.end <= PieceEnd'
          BY <3>1
        <5>3. InPieces(j)'
          BY <3>1, <4>1 DEF InPieces
        <5> QED BY <3>3, <3>4, <3>5, <4>1, <5>1, <5>2, <5>3
      <4>2. CASE j # 1
        <5>1. j - 1 \in 1 .. Len(rest) /\ rest[j - 1] = children[j]
          <6>1. Len(children) \in Nat /\ Len(rest) = Len(children) - 1
            BY <1>1, <2>2, ChildFacts
          <6>2. j - 1 \in 1 .. Len(rest) /\ (j - 1) + 1 = j
            BY <4>2, <6>1
          <6> QED BY <3>3, <6>2
        <5> QED BY <3>3, <3>4, <5>1
      <4> QED BY <4>1, <4>2
    <3>7. \A d \in ToSet(due'), i \in 1 .. Len(stack) : Clear(doc[stack[i].node], d)
      BY <3>3, <3>4 DEF LayoutInv
    <3> HIDE DEF rest, e
    <3> QED BY <1>1, <2>1, <3>2, <3>6, <3>7 DEF LayoutInv
  <2> QED BY <2>2, <2>3, <2>5, <2>6
<1>8. CASE NoChildren
  <2>1. /\ pc = "children" /\ children' = children /\ stack' = stack /\ due' = due
    BY <1>8 DEF NoChildren
  <2>2. \A j : ~InPieces(j)
    BY <2>1 DEF InPieces
  <2> QED BY <1>1, <2>1, <2>2 DEF LayoutInv
<1> QED BY <1>3, <1>4, <1>5, <1>6, <1>7, <1>8 DEF WalkChildren

\* Nothing else moves a node or finds anything.
LEMMA LayoutNext == ASSUME Base, LayoutInv, [SyntaxNext]_vars PROVE LayoutInv'
<1>1. CASE Merge \/ WordWindows \/ UNCHANGED vars
  <2>1. doc' = doc /\ stack' = stack /\ children' = children /\ due' = due
    BY <1>1 DEF Merge, WalkEnds, MergeChunk, MergeEnds, Cut, WordWindows, vars, syntaxVars
  <2>2. CASE UNCHANGED <<pc, split>>
    <3>1. PieceEnd' = PieceEnd /\ \A j : InPieces(j)' = InPieces(j)
      BY <2>1, <2>2 DEF PieceEnd, PieceTo, Child, InPieces, EndOf, End, Start
    <3> QED BY <2>1, <3>1 DEF LayoutInv
  <2>3. CASE pc \notin {"children", "split"}
    <3>1. \A j : ~InPieces(j)
      BY <2>3 DEF InPieces
    <3> QED BY <2>1, <3>1 DEF LayoutInv
  <2> QED BY <1>1, <2>2, <2>3 DEF Merge, WalkEnds, MergeChunk, MergeEnds, Cut, WordWindows, vars, syntaxVars
<1> QED BY <1>1, LayoutWalk, LayoutChildren DEF SyntaxNext, Answered

(***************************************************************************)
(* What was found, seen from the children of an oversized node             *)
(***************************************************************************)
\* It lies in front of the node, or behind all children still to come, or is one of the
\* children before them and not behind the last chunk.
BeforeNext(d, j) == d.end <= Start(doc[children[j]]) \/ (InPieces(j) /\ d.end <= PieceEnd)
Placed(d) ==
    \/ d.end <= parent
    \/ \A j \in 1 .. Len(children) : d.start >= 2 * Behind(doc[children[j]])
    \/ d.end <= PrevEnd /\ \A j \in 1 .. Len(children) : BeforeNext(d, j)

HeaderInv ==
    pc \in {"children", "split"} =>
        /\ \A j \in 1 .. Len(children) : parent <= Start(doc[children[j]])
        /\ \A d \in ToSet(due) : Placed(d)
        /\ pc = "split" /\ split.from = 0 => split.prevEnd = PrevEnd

\* The chunk that was appended last.
LEMMA LastChunk ==
  ASSUME SyntaxTypes, NEW r \in Ranges, chunks' = Append(chunks, r)
  PROVE  PrevEnd' = r.end /\ Last(chunks') = r
<1>1. chunks' # <<>> /\ Last(chunks') = r
  BY More, SMTT(30) DEF SyntaxTypes
<1> QED BY <1>1 DEF PrevEnd

\* Every step keeps what was found in its place.
LEMMA HeaderNext == ASSUME Base, LayoutInv, HeaderInv, [SyntaxNext]_vars PROVE HeaderInv'
<1> USE DEF Base
<1>1. CASE pc' \notin {"children", "split"}
  BY <1>1 DEF HeaderInv
<1>2. CASE UNCHANGED vars
  <2>1. /\ PieceEnd' = PieceEnd /\ PrevEnd' = PrevEnd
        /\ \A j : InPieces(j)' = InPieces(j)
    BY <1>2 DEF vars, syntaxVars, PieceEnd, PieceTo, Child, InPieces, EndOf, End, Start, PrevEnd
  <2> QED BY <1>2, <2>1 DEF vars, syntaxVars, HeaderInv, Placed, BeforeNext
<1>3. due \in Seq(Ranges) /\ chunks \in Seq(Ranges) /\ ToSet(due) \subseteq Ranges /\ doc \in Documents
  BY Elements DEF SyntaxTypes
<1>4. \A d \in Ranges : d.start \in Nat /\ d.end \in Nat
  BY PrevEndFacts DEF Ranges
<1> DEFINE rest == Tail(children)
<1>5. ASSUME children # <<>>
      PROVE  /\ Len(rest) \in Nat /\ Child = doc[children[1]] /\ 1 \in 1 .. Len(children)
             /\ \A j \in 1 .. Len(rest) : rest[j] = children[j + 1] /\ j + 1 \in 1 .. Len(children)
             /\ \A d \in ToSet(due) : Clear(Child, d) \/ (InPieces(1) /\ d.end <= PieceEnd)
             /\ Head(children) \in TextNodes /\ Child = doc[Head(children)]
  <2>1. 1 \in 1 .. Len(children)
    BY <1>5, ChildFacts
  <2> QED BY <1>5, <2>1, ChildFacts, Passed
<1>6. ASSUME children # <<>>, NEW j \in 1 .. Len(rest) PROVE ~InPieces(j + 1)
  BY <1>5, <1>6 DEF InPieces
<1>7. CASE Oversized
  <2> DEFINE n == Last(stack).node
             kids == Top.kids
  <2>1. /\ stack # <<>> /\ doc' = doc /\ pc' = "children" /\ parent' = Start(Top)
        /\ children' = kids /\ due' = due
    BY <1>7 DEF Oversized, Visits
  <2>2. n \in TextNodes /\ Top = doc[n] /\ \A d \in ToSet(due) : Clear(Top, d)
    BY <2>1, TopFacts, Popped
  <2>3. \A j \in 1 .. Len(kids) : kids[j] \in TextNodes /\ Inside(doc[kids[j]], doc[n])
    <3>1. kids \in Seq(TextNodes) /\ \A i \in DOMAIN kids : Inside(doc[kids[i]], doc[n])
      BY <1>3, <2>2, KidFacts
    <3> QED BY <3>1, LenProperties, ElementOfSeq
  <2>4. \A j \in 1 .. Len(kids) : Start(Top) <= Start(doc[kids[j]]) /\ Behind(doc[kids[j]]) <= Behind(Top)
    BY <2>2, <2>3, InsideFacts
  <2>5. ASSUME NEW d \in ToSet(due)
        PROVE  d.end <= Start(Top) \/ \A j \in 1 .. Len(kids) : d.start >= 2 * Behind(doc[kids[j]])
    <3>1. CASE d.start >= 2 * Behind(Top)
      <4>1. \A m \in TextNodes : Behind(doc[m]) \in Nat
        BY <1>3, NodeFacts DEF Behind
      <4> QED BY <1>3, <1>4, <2>2, <2>3, <2>4, <3>1, <4>1, SMTT(30)
    <3> QED BY <2>2, <3>1 DEF Clear
  <2> HIDE DEF kids
  <2> QED BY <2>1, <2>4, <2>5 DEF HeaderInv, Placed
<1>8. CASE SkipChild \/ PushChild
  <2>1. /\ doc' = doc /\ pc = "children" /\ pc' = pc /\ children # <<>> /\ children' = rest /\ due' = due
        /\ parent' = parent /\ chunks' = chunks
    BY <1>8 DEF SkipChild, PushChild, NextChild
  <2>2. PrevEnd' = PrevEnd
    BY <2>1 DEF PrevEnd
  <2>3. \A j \in 1 .. Len(rest) : parent <= Start(doc[rest[j]])
    BY <1>5, <2>1 DEF HeaderInv
  <2>4. ASSUME NEW d \in ToSet(due) PROVE Placed(d)'
    <3>1. Placed(d)
      BY <2>1 DEF HeaderInv
    <3>2. ASSUME NEW j \in 1 .. Len(rest), BeforeNext(d, j + 1) PROVE d.end <= Start(doc[rest[j]])
      BY <1>5, <1>6, <2>1, <3>2 DEF BeforeNext
    <3> HIDE DEF rest
    <3> QED BY <1>5, <2>1, <2>2, <3>1, <3>2 DEF Placed, BeforeNext
  <2> HIDE DEF rest
  <2> QED BY <2>1, <2>3, <2>4 DEF HeaderInv
<1>9. CASE WholeChild
  <2>1. /\ doc' = doc /\ pc = "children" /\ pc' = pc /\ children # <<>> /\ children' = rest
        /\ parent' = parent /\ due' = Append(due, Own(Child))
        /\ chunks' = Append(chunks, RangeOf(parent, Child, PrevEnd))
    BY <1>9 DEF WholeChild, NextChild, Emit
  <2>2. /\ Own(Child) \in Ranges /\ Own(Child).start = Start(Child) /\ Own(Child).end = End(Child)
        /\ Start(Child) <= End(Child) /\ End(Child) <= 2 * Behind(Child)
    BY <1>5, <2>1, OwnFacts
  <2>3. RangeOf(parent, Child, PrevEnd) \in Ranges /\ RangeOf(parent, Child, PrevEnd).end = End(Child)
    <3>1. parent \in {None} \cup 0 .. TextLen /\ PrevEnd \in Int
      <4>1. PrevEnd \in Int
        BY PrevEndFacts
      <4>2. parent \in {None} \cup 0 .. TextLen
        BY DEF SyntaxTypes
      <4> QED BY <4>1, <4>2
    <3>2. Head(children) \in TextNodes /\ Child = doc[Head(children)]
      BY <1>5, <2>1
    <3> QED BY <3>1, <3>2, RangeFacts
  <2>4. PrevEnd' = End(Child)
    BY <2>1, <2>3, LastChunk
  <2>5. \A j \in 1 .. Len(rest) : parent <= Start(doc[rest[j]])
    BY <1>5, <2>1 DEF HeaderInv
  <2>6. \A j \in 1 .. Len(rest) : End(Child) <= Start(doc[rest[j]])
    <3>1. Start(Child) <= Own(Child).start /\ Own(Child).end <= 2 * Behind(Child)
      <4>1. Start(Child) \in Nat
        BY <1>4, <2>2
      <4> QED BY <2>2, <4>1
    <3> QED BY <2>1, <2>2, <3>1, NewInChild
  <2>7. ASSUME NEW d \in ToSet(due) PROVE Placed(d)'
    <3>1. Placed(d)
      BY <2>1 DEF HeaderInv
    <3>2. ASSUME NEW j \in 1 .. Len(rest), BeforeNext(d, j + 1) PROVE d.end <= Start(doc[rest[j]])
      BY <1>5, <1>6, <2>1, <3>2 DEF BeforeNext
    <3>3. ASSUME BeforeNext(d, 1) PROVE d.end <= End(Child)
      <4>1. d.end <= Start(Child)
        BY <1>5, <2>1, <3>3 DEF BeforeNext, InPieces
      <4>2. d.end \in Nat /\ Start(Child) \in Nat /\ End(Child) \in Nat
        BY <1>3, <1>4, <2>2
      <4> QED BY <2>2, <4>1, <4>2
    <3> HIDE DEF rest
    <3> QED BY <1>5, <2>1, <2>4, <3>1, <3>2, <3>3 DEF Placed, BeforeNext
  <2>8. PICK e \in Ranges : e = Own(Child)
    BY <2>2
  <2>9. Placed(e)'
    <3>1. e.end <= PrevEnd'
      BY <1>4, <2>2, <2>4, <2>8
    <3>2. \A j \in 1 .. Len(rest) : e.end <= Start(doc[rest[j]])
      BY <2>2, <2>6, <2>8
    <3> HIDE DEF rest
    <3> QED BY <2>1, <3>1, <3>2 DEF Placed, BeforeNext
  <2>10. ToSet(due') = ToSet(due) \cup {e}
    BY <1>3, <2>1, <2>8, Elements
  <2> HIDE DEF rest
  <2> QED BY <2>1, <2>5, <2>7, <2>9, <2>10 DEF HeaderInv
<1>10. CASE SplitChild
  <2>1. /\ doc' = doc /\ pc = "children" /\ pc' = "split" /\ children' = children /\ parent' = parent
        /\ due' = due /\ chunks' = chunks /\ split' = [from |-> 0, prevEnd |-> PrevEnd]
    BY <1>10 DEF SplitChild
  <2>2. PrevEnd' = PrevEnd /\ split'.prevEnd = PrevEnd
    BY <2>1 DEF PrevEnd
  <2>3. \A j : ~InPieces(j)
    BY <2>1 DEF InPieces
  <2>4. ASSUME NEW d \in ToSet(due) PROVE Placed(d)'
    <3>1. Placed(d)
      BY <2>1 DEF HeaderInv
    <3> QED BY <2>1, <2>2, <2>3, <3>1 DEF Placed, BeforeNext
  <2> QED BY <2>1, <2>2, <2>4 DEF HeaderInv
<1>11. CASE Piece
  <2>0. pc = "split"
    BY <1>11 DEF Piece
  <2> PICK e \in Ranges : e = [start |-> PieceStart, end |-> PieceEnd]
    BY <2>0, PieceFacts
  <2>1. /\ doc' = doc /\ pc = "split" /\ parent' = parent /\ due' = Append(due, e)
        /\ chunks' = Append(chunks, PieceRange)
    BY <1>11 DEF Piece, PieceRange, PieceStart, PieceEnd, PieceTo
  <2>2. /\ children # <<>> /\ PieceTo \in Nat /\ PieceTo <= Child.len
        /\ e \in Ranges /\ e.start = PieceStart /\ e.end = PieceEnd /\ PieceEnd <= 2 * Behind(Child)
        /\ PieceStart = 2 * (Child.word + split.from) /\ split.from \in Nat
        /\ PieceStart \in 0 .. TextLen /\ PieceEnd \in 0 .. TextLen /\ PieceStart < PieceEnd
        /\ PieceRange \in Ranges /\ PieceRange.end = PieceEnd
    BY <2>1, PieceFacts
  <2>3. Child.word \in Nat /\ Child.len \in Nat /\ Start(Child) = 2 * Child.word /\ TextLen \in Nat
    BY <1>3, <1>5, <2>2, NodeFacts, PrevEndFacts
  <2>4. Start(Child) <= e.start /\ e.end <= 2 * Behind(Child) /\ Start(Child) <= PieceEnd /\ PieceEnd \in Nat
    BY <2>2, <2>3
  <2>5. PrevEnd' = PieceEnd
    BY <2>1, <2>2, LastChunk
  <2>6. ToSet(due') = ToSet(due) \cup {e}
    BY <1>3, <2>1, <2>2, Elements
  <2>7. \A j \in 1 .. Len(rest) : e.end <= Start(doc[rest[j]])
    BY <2>2, <2>4, NewInChild
  <2>8. ASSUME NEW d \in ToSet(due), BeforeNext(d, 1) PROVE d.end <= PieceEnd
    <3>1. d.end \in Nat /\ Start(Child) \in Nat
      BY <1>3, <1>4, <2>3
    <3> QED BY <1>5, <2>2, <2>4, <2>8, <3>1 DEF BeforeNext
  <2>9. CASE PieceTo >= Child.len
    <3>1. pc' = "children" /\ children' = rest
      BY <1>11, <2>9 DEF Piece, PieceTo, NextChild
    <3>2. \A j \in 1 .. Len(rest) : parent <= Start(doc[rest[j]])
      BY <1>5, <2>1, <2>2 DEF HeaderInv
    <3>3. ASSUME NEW d \in ToSet(due) PROVE Placed(d)'
      <4>1. Placed(d)
        BY <2>1 DEF HeaderInv
      <4>2. ASSUME NEW j \in 1 .. Len(rest), BeforeNext(d, j + 1) PROVE d.end <= Start(doc[rest[j]])
        BY <1>5, <1>6, <2>2, <4>2 DEF BeforeNext
      <4> HIDE DEF rest
      <4> QED BY <1>5, <2>1, <2>2, <2>5, <2>8, <3>1, <4>1, <4>2 DEF Placed, BeforeNext
    <3>4. Placed(e)'
      <4>1. e.end <= PrevEnd'
        BY <2>4, <2>5
      <4> HIDE DEF rest
      <4> QED BY <2>1, <2>7, <3>1, <4>1 DEF Placed, BeforeNext
    <3> HIDE DEF rest
    <3> QED BY <2>1, <2>6, <3>1, <3>2, <3>3, <3>4 DEF HeaderInv
  <2>10. CASE PieceTo < Child.len
    <3>1. PieceEnd' \in Nat /\ PieceEnd <= PieceEnd' /\ InPieces(1)' /\ Child' = Child
      BY <1>11, <2>10, PiecesGrow
    <3>2. children' = children
      <4>1. ~(PieceTo >= Child.len)
        BY <2>2, <2>3, <2>10
      <4> QED BY <1>11, <4>1 DEF Piece, PieceTo
    <3>3. pc' = "split" /\ split'.from > 0
      BY <3>1 DEF InPieces
    <3>4. \A j \in 1 .. Len(children) : j # 1 => j - 1 \in 1 .. Len(rest) /\ rest[j - 1] = children[j]
      <4>1. Len(children) \in Nat /\ Len(rest) = Len(children) - 1
        BY <2>2, ChildFacts
      <4>2. ASSUME NEW j \in 1 .. Len(children), j # 1
            PROVE  j - 1 \in 1 .. Len(rest) /\ (j - 1) + 1 = j
        BY <4>1, <4>2
      <4> QED BY <1>5, <2>2, <4>2
    <3>5. ASSUME NEW d \in ToSet(due) PROVE Placed(d)'
      <4>1. Placed(d)
        BY <2>1 DEF HeaderInv
      <4>2. ASSUME \A j \in 1 .. Len(children) : BeforeNext(d, j)
            PROVE  d.end <= PieceEnd /\ \A j \in 1 .. Len(children) : BeforeNext(d, j)'
        <5>1. d.end <= PieceEnd /\ d.end <= PieceEnd'
          <6>1. d.end <= PieceEnd
            BY <1>5, <2>2, <2>8, <4>2
          <6>2. d.end \in Nat
            BY <1>3, <1>4
          <6> QED BY <2>4, <3>1, <6>1, <6>2
        <5>2. ASSUME NEW j \in 1 .. Len(children), j # 1 PROVE d.end <= Start(doc[children[j]])
          BY <4>2, <5>2 DEF BeforeNext, InPieces
        <5>3. ASSUME NEW j \in 1 .. Len(children) PROVE BeforeNext(d, j)'
          <6>1. CASE j = 1
            BY <3>1, <5>1, <6>1 DEF BeforeNext, InPieces
          <6>2. CASE j # 1
            BY <2>1, <3>2, <5>2, <6>2 DEF BeforeNext
          <6> QED BY <6>1, <6>2
        <5> QED BY <5>1, <5>3
      <4> QED BY <2>1, <2>5, <3>2, <4>1, <4>2 DEF Placed
    <3>6. Placed(e)'
      <4>1. e.end <= PrevEnd'
        BY <2>4, <2>5
      <4>2. ASSUME NEW j \in 1 .. Len(children) PROVE BeforeNext(e, j)'
        <5>1. CASE j = 1
          <6>1. InPieces(j)' /\ e.end <= PieceEnd'
            BY <3>1, <5>1 DEF InPieces
          <6> QED BY <6>1 DEF BeforeNext
        <5>2. CASE j # 1
          <6>1. e.end <= Start(doc[children[j]])
            BY <2>7, <3>4, <5>2
          <6> QED BY <2>1, <3>2, <6>1 DEF BeforeNext
        <5> QED BY <5>1, <5>2
      <4> QED BY <3>2, <4>1, <4>2 DEF Placed
    <3>7. \A j \in 1 .. Len(children) : parent <= Start(doc[children[j]])
      BY <2>1 DEF HeaderInv
    <3>8. ~(split'.from = 0)
      BY <3>3
    <3> HIDE DEF rest
    <3> QED BY <2>1, <2>6, <3>2, <3>3, <3>5, <3>6, <3>7, <3>8 DEF HeaderInv
  <2> QED BY <2>2, <2>3, <2>9, <2>10
<1>12. ASSUME Walk \/ NoChildren \/ Merge \/ WordWindows PROVE Oversized \/ pc' \notin {"children", "split"} \/ UNCHANGED vars
  BY <1>12 DEF Walk, Skip, Comment, WholeNode, Oversized, Intermediate, Leaf, Visits, NoChildren,
     Merge, WalkEnds, MergeChunk, MergeEnds, Cut, WordWindows, syntaxVars
<1> QED BY <1>1, <1>2, <1>7, <1>8, <1>9, <1>10, <1>11, <1>12 DEF SyntaxNext, WalkChildren, Answered

\* A chunk shares the overlap at most with what is clear of its node, unless it starts in
\* a header in front of that.
LEMMA SharedFew ==
  ASSUME SyntaxTypes, NEW n \in TextNodes, NEW r \in Ranges, NEW d \in Ranges,
         r.end <= 2 * Behind(doc[n]), Clear(doc[n], d),
         \/ r.start >= Start(doc[n]) - 2 * Overlap
         \/ d.end <= r.start
         \/ d.start >= 2 * Behind(doc[n])
  PROVE  Shared(r, d) <= Overlap
<1> DEFINE w == doc[n].word
           b == Behind(doc[n])
           s == IF r.start < d.start THEN d.start ELSE r.start
           e == Lesser(r.end, d.end)
<1>1. /\ w \in Nat /\ b \in Nat /\ Start(doc[n]) = 2 * w /\ Overlap \in Nat /\ TextLen \in Nat
      /\ r.start \in Nat /\ r.end \in Nat /\ d.start \in Nat /\ d.end \in Nat
  <2>1. w \in Nat /\ doc[n].len \in Nat /\ Start(doc[n]) = 2 * w /\ TextLen \in Nat
    BY NodeFacts, PrevEndFacts DEF SyntaxTypes
  <2>2. r.start \in Nat /\ r.end \in Nat /\ d.start \in Nat /\ d.end \in Nat
    BY <2>1 DEF Ranges
  <2> QED BY <2>1, <2>2, ChunkerAssumption DEF Behind
<1>2. Shared(r, d) = CountWords(s, e)
  BY DEF Shared
<1>3. /\ s \in Nat /\ e \in Nat /\ r.start <= s /\ d.start <= s /\ e <= r.end /\ e <= d.end
  BY <1>1 DEF Lesser
<1>4. s >= e => Shared(r, d) <= Overlap
  BY <1>1, <1>2 DEF CountWords
<1>5. (d.end <= 2 * w /\ r.start >= 2 * w - 2 * Overlap) \/ d.end <= r.start \/ d.start >= 2 * b
  BY <1>1 DEF Clear
<1>6. r.end <= 2 * b
  OBVIOUS
<1> HIDE DEF w, b, s, e
<1>7. CASE d.end <= 2 * w /\ r.start >= 2 * w - 2 * Overlap
  <2>1. w - Overlap \in Int /\ w \in Int /\ w - Overlap <= w /\ 2 * (w - Overlap) <= s /\ e <= 2 * w
    BY <1>1, <1>3, <1>7
  <2>2. CountWords(s, e) <= w - (w - Overlap)
    BY <1>1, <1>3, <2>1, FewWords
  <2>3. w - (w - Overlap) = Overlap
    BY <1>1
  <2> QED BY <1>2, <2>2, <2>3
<1>8. CASE d.end <= r.start
  BY <1>1, <1>3, <1>4, <1>8
<1>9. CASE d.start >= 2 * b
  BY <1>1, <1>3, <1>4, <1>6, <1>9
<1> QED BY <1>5, <1>7, <1>8, <1>9

\* A step of the walk or of the children repeats no text.
LEMMA HeadersStep ==
  ASSUME Base, LayoutInv, HeaderInv, SyntaxNext, pc # "merge", Len(chunks') > Len(chunks),
         pc # "split" \/ split.from = 0, NEW d \in ToSet(due)
  PROVE  Shared(Last(chunks'), d) <= Overlap
<1> USE DEF Base
<1>1. d \in Ranges /\ chunks \in Seq(Ranges) /\ Len(chunks) \in Nat
  BY Elements DEF SyntaxTypes
<1>2. d.start \in Nat /\ d.end \in Nat
  BY <1>1, PrevEndFacts DEF Ranges
<1>3. CASE Comment \/ WholeNode \/ Leaf
  <2> DEFINE n == Last(stack).node
  <2>1. stack # <<>> /\ (chunks' = Append(chunks, Own(Top)) \/ chunks' = Append(chunks, RangeOf(Context, Top, PrevEnd)))
    BY <1>1, <1>3 DEF Comment, WholeNode, Leaf, Visits, Emit
  <2>2. n \in TextNodes /\ Top = doc[n] /\ Context = None /\ Clear(Top, d)
    BY <2>1, TopFacts, Popped
  <2>3. /\ Own(Top) \in Ranges /\ Own(Top).start = Start(Top) /\ Own(Top).end = End(Top)
        /\ End(Top) <= 2 * Behind(Top) /\ Start(Top) \in Nat /\ Overlap \in Nat
    BY <2>2, OwnFacts, NodeFacts, ChunkerAssumption DEF SyntaxTypes
  <2>4. PICK r \in Ranges : chunks' = Append(chunks, r) /\ r.end = End(Top) /\ r.start >= Start(Top) - 2 * Overlap
    <3>1. CASE chunks' = Append(chunks, Own(Top))
      <4>1. Own(Top).start >= Start(Top) - 2 * Overlap
        BY <2>3
      <4> QED BY <2>3, <3>1, <4>1
    <3>2. CASE chunks' = Append(chunks, RangeOf(Context, Top, PrevEnd))
      <4>1. Context \in {None} \cup 0 .. TextLen /\ PrevEnd \in Int
        BY <2>2, PrevEndFacts
      <4>2. LET r == RangeOf(Context, doc[n], PrevEnd)
            IN  /\ r \in Ranges /\ r.end = End(doc[n]) /\ r.start <= Start(doc[n])
                /\ \/ r.start >= Start(doc[n]) - 2 * Overlap
                   \/ r.start = Context /\ Context # None /\ Context >= PrevEnd
        BY <2>2, <4>1, RangeFacts
      <4> QED BY <2>2, <3>2, <4>2
    <3> QED BY <2>1, <3>1, <3>2
  <2>5. Last(chunks') = r
    BY <2>4, LastChunk
  <2>6. r.end <= 2 * Behind(doc[n])
    BY <2>2, <2>3, <2>4
  <2> QED BY <1>1, <2>2, <2>4, <2>5, <2>6, SharedFew
<1> DEFINE n == Head(children)
<1>4. ASSUME children # <<>>, pc \in {"children", "split"}, ~InPieces(1), NEW r \in Ranges,
             chunks' = Append(chunks, r), r.end <= 2 * Behind(Child),
             r.start >= Start(Child) - 2 * Overlap \/ (r.start = parent /\ PrevEnd <= parent)
      PROVE  Shared(Last(chunks'), d) <= Overlap
  <2>1. n \in TextNodes /\ Child = doc[n] /\ Child = doc[children[1]] /\ 1 \in 1 .. Len(children)
    BY <1>4, ChildFacts
  <2>2. Clear(Child, d)
    BY <1>4, Passed
  <2>3. Last(chunks') = r
    BY <1>4, LastChunk
  <2>4. CASE r.start >= Start(Child) - 2 * Overlap
    BY <1>1, <1>4, <2>1, <2>2, <2>3, <2>4, SharedFew
  <2>5. CASE r.start = parent /\ PrevEnd <= parent
    <3>1. Placed(d)
      BY <1>4 DEF HeaderInv
    <3>2. d.end <= parent \/ d.start >= 2 * Behind(Child) \/ d.end <= PrevEnd
      BY <2>1, <3>1 DEF Placed
    <3>3. PrevEnd \in Int /\ parent \in Int
      BY <2>5, PrevEndFacts, <1>4 DEF Ranges
    <3>4. d.end <= r.start \/ d.start >= 2 * Behind(Child)
      BY <1>2, <2>5, <3>2, <3>3
    <3> QED BY <1>1, <1>4, <2>1, <2>2, <2>3, <3>4, SharedFew
  <2> QED BY <1>4, <2>4, <2>5
<1>5. CASE WholeChild
  <2>1. pc = "children" /\ children # <<>> /\ chunks' = Append(chunks, RangeOf(parent, Child, PrevEnd))
    BY <1>5 DEF WholeChild, Emit
  <2>2. n \in TextNodes /\ Child = doc[n]
    BY <2>1, ChildFacts
  <2>3. parent \in {None} \cup 0 .. TextLen /\ PrevEnd \in Int
    <3>1. PrevEnd \in Int
      BY PrevEndFacts
    <3> QED BY <3>1 DEF SyntaxTypes
  <2>4. PICK r \in Ranges :
          /\ chunks' = Append(chunks, r) /\ r.end = End(Child)
          /\ \/ r.start >= Start(Child) - 2 * Overlap
             \/ r.start = parent /\ parent # None /\ parent >= PrevEnd
    <3>1. LET r == RangeOf(parent, doc[n], PrevEnd)
          IN  /\ r \in Ranges /\ r.end = End(doc[n]) /\ r.start <= Start(doc[n])
              /\ \/ r.start >= Start(doc[n]) - 2 * Overlap
                 \/ r.start = parent /\ parent # None /\ parent >= PrevEnd
      BY <2>2, <2>3, RangeFacts
    <3> QED BY <2>1, <2>2, <3>1
  <2>5. r.end <= 2 * Behind(Child)
    BY <2>2, <2>4, OwnFacts
  <2>6. parent >= PrevEnd => PrevEnd <= parent
    BY <2>3
  <2>7. ~InPieces(1)
    BY <2>1 DEF InPieces
  <2> QED BY <1>4, <2>1, <2>4, <2>5, <2>6, <2>7
<1>6. CASE Piece
  <2>1. pc = "split" /\ split.from = 0 /\ chunks' = Append(chunks, PieceRange)
    BY <1>6 DEF Piece, PieceRange, PieceStart, PieceEnd, PieceTo
  <2>2. /\ children # <<>> /\ PieceRange \in Ranges /\ PieceRange.end = PieceEnd
        /\ PieceEnd <= 2 * Behind(Child) /\ parent \in 0 .. TextLen
    BY <2>1, PieceFacts
  <2>3. Child.word \in Nat /\ Start(Child) = 2 * Child.word /\ Overlap \in Nat
    BY <2>2, ChildFacts, NodeFacts, ChunkerAssumption DEF SyntaxTypes
  <2>4. split.prevEnd = PrevEnd /\ PieceStart = Start(Child) /\ ~InPieces(1)
    <3>1. PieceStart = Start(Child)
      BY <2>1, <2>3 DEF PieceStart
    <3> QED BY <2>1, <3>1 DEF HeaderInv, InPieces
  <2>5. PieceRange.start >= Start(Child) - 2 * Overlap \/ (PieceRange.start = parent /\ PrevEnd <= parent)
    <3>1. CASE TakesContext(parent, PieceStart, split.prevEnd)
      <4>1. PrevEnd \in Int /\ parent \in Int
        BY <2>2, PrevEndFacts
      <4> QED BY <2>4, <3>1, <4>1 DEF TakesContext, PieceRange
    <3>2. CASE ~TakesContext(parent, PieceStart, split.prevEnd)
      <4>1. PieceRange.start = Start(Child)
        BY <2>4, <3>2 DEF PieceRange
      <4> QED BY <2>3, <4>1
    <3> QED BY <3>1, <3>2
  <2>6. PICK r \in Ranges : r = PieceRange
    BY <2>2
  <2> QED BY <1>4, <2>1, <2>2, <2>4, <2>5, <2>6
<1>7. CASE MergeEnds \/ MergeChunk
  BY <1>7 DEF MergeEnds, MergeChunk
<1>8. ASSUME chunks' = chunks PROVE FALSE
  BY <1>1, <1>8
<1>9. CASE Skip \/ Oversized \/ Intermediate \/ SkipChild \/ PushChild \/ SplitChild \/ NoChildren
           \/ WalkEnds \/ Cut \/ WordWindows \/ Answered
  BY <1>8, <1>9 DEF Skip, Oversized, Intermediate, SkipChild, PushChild, SplitChild, NoChildren,
       WalkEnds, Cut, WordWindows, Answered, vars, syntaxVars
<1> QED BY <1>3, <1>5, <1>6, <1>7, <1>9 DEF SyntaxNext, Walk, WalkChildren, Merge

\* A header in front of a chunk repeats no text.
THEOREM HeadersOwn == SyntaxSpec => HeadersAreOwn
<1>1. SyntaxInit => HeaderInv
  BY DEF SyntaxInit, HeaderInv
<1>2. ASSUME Base, LayoutInv, HeaderInv, [SyntaxNext]_vars
      PROVE  [pc # "merge" /\ Len(chunks') > Len(chunks) /\ (pc # "split" \/ split.from = 0) =>
                \A d \in ToSet(due) : Shared(Last(chunks'), d) <= Overlap]_vars
  BY <1>2, HeadersStep
<1>3. Base /\ LayoutInv /\ HeaderInv /\ [SyntaxNext]_vars => (Base /\ LayoutInv /\ HeaderInv)'
  BY BaseNext, LayoutNext, HeaderNext
<1>4. SyntaxInit => Base /\ LayoutInv
  BY BaseInit, LayoutInit
<1> QED BY <1>1, <1>2, <1>3, <1>4, PTL DEF SyntaxSpec, HeadersAreOwn

(***************************************************************************)
(* What was found in the order of the text, and the chunks that keep it    *)
(***************************************************************************)
\* A range inside another; a chunk that ends with what it is for.
Covers(c, d) == c.start <= d.start /\ d.end <= c.end
Carries(c, d) == c.start <= d.start /\ c.end = d.end

KeptIn(cs, ds) == \A i \in 1 .. Len(ds) : \E c \in ToSet(cs) : Covers(c, ds[i])
Stepping(ds) == \A i \in 1 .. Len(ds) - 1 : ds[i].start < ds[i + 1].start
Rising(ds) ==
    \A i, j \in 1 .. Len(ds) : i < j => ds[i].start < ds[j].start /\ ds[i].end <= ds[j].end
Matching(cs, ds) == Len(cs) = Len(ds) /\ \A j \in 1 .. Len(cs) : Carries(cs[j], ds[j])

\* In the middle of the merging, ms is done and cs is to come.
Merging(ms, cs, ds) ==
    LET done == Len(ds) - Len(cs) IN
    /\ done >= 0 /\ (ms = <<>> <=> done = 0)
    /\ \A j \in 1 .. Len(cs) : Carries(cs[j], ds[done + j])
    /\ done > 0 => Carries(Last(ms), ds[done])
    /\ \A i \in 1 .. done : \E c \in ToSet(ms) : Covers(c, ds[i])

OrderInv ==
    /\ \A i \in 1 .. Len(due) : due[i].start < due[i].end
    /\ pc # "split" /\ due # <<>> => \A w \in 0 .. TextLen : Last(due).end # 2 * w
    /\ Stepping(due) =>
          /\ Rising(due)
          /\ pc \in {"walk", "children", "split"} => Matching(chunks, due)
          /\ pc = "merge" => Merging(merged, chunks, due)
          /\ pc \in {"cut", "done"} => KeptIn(chunks, due)

\* The bytes of a range.
LEMMA RangeNats ==
  ASSUME TextLen \in Nat, NEW r \in Ranges
  PROVE  r.start \in Nat /\ r.end \in Nat
  BY DEF Ranges

\* One more found.
LEMMA RisingMore ==
  ASSUME TextLen \in Nat, NEW ds \in Seq(Ranges), NEW e \in Ranges, Stepping(Append(ds, e)),
         Stepping(ds) => Rising(ds),
         \A i \in 1 .. Len(ds) : ds[i].start < e.start => ds[i].end <= e.end
  PROVE  /\ Stepping(ds) /\ Rising(Append(ds, e))
         /\ \A i \in 1 .. Len(ds) : ds[i].start < e.start
<1> DEFINE es == Append(ds, e)
           n == Len(ds)
<1>1. /\ n \in Nat /\ Len(es) = n + 1 /\ es[n + 1] = e
      /\ \A i \in 1 .. n : es[i] = ds[i]
  BY More
<1>2. \A i \in 1 .. n : ds[i].start \in Nat /\ ds[i].end \in Nat
  <2>1. \A i \in 1 .. n : ds[i] \in Ranges
    BY ElementOfSeq
  <2> QED BY <2>1 DEF Ranges
<1>3. e.start \in Nat /\ e.end \in Nat
  BY DEF Ranges
<1> HIDE DEF es, n
<1>4. \A i \in 1 .. n : es[i].start < es[i + 1].start
  <2>1. \A i \in 1 .. Len(es) - 1 : es[i].start < es[i + 1].start
    BY DEF Stepping, es
  <2> QED BY <1>1, <2>1
<1>5. Stepping(ds)
  <2>1. ASSUME NEW i \in 1 .. n - 1 PROVE ds[i].start < ds[i + 1].start
    <3>1. i \in 1 .. n /\ i + 1 \in 1 .. n
      BY <1>1
    <3> QED BY <1>1, <1>4, <3>1
  <2> QED BY <2>1 DEF Stepping, n
<1>6. \A i, j \in 1 .. n : i < j => ds[i].start < ds[j].start /\ ds[i].end <= ds[j].end
  BY <1>5 DEF Rising, n
<1>7. ASSUME NEW i \in 1 .. n PROVE ds[i].start < e.start
  <2>1. n \in 1 .. n /\ ds[n].start < e.start
    BY <1>1, <1>4
  <2>2. CASE i = n
    BY <2>1, <2>2
  <2>3. CASE i < n
    <3>1. ds[i].start < ds[n].start
      BY <1>6, <2>1, <2>3
    <3> QED BY <1>2, <1>3, <2>1, <3>1
  <2> QED BY <1>1, <2>2, <2>3
<1>8. ASSUME NEW i \in 1 .. n + 1, NEW j \in 1 .. n + 1, i < j
      PROVE  es[i].start < es[j].start /\ es[i].end <= es[j].end
  <2>1. i \in 1 .. n
    BY <1>1, <1>8
  <2>2. CASE j = n + 1
    BY <1>1, <1>7, <2>1, <2>2 DEF n
  <2>3. CASE j \in 1 .. n
    BY <1>1, <1>6, <1>8, <2>1, <2>3
  <2> QED BY <1>1, <2>2, <2>3
<1>9. Rising(es)
  BY <1>1, <1>8 DEF Rising
<1> QED BY <1>5, <1>7, <1>9 DEF es, n

\* One more chunk.
LEMMA MatchingMore ==
  ASSUME NEW cs \in Seq(Ranges), NEW ds \in Seq(Ranges), NEW c \in Ranges, NEW d \in Ranges,
         Matching(cs, ds), Carries(c, d)
  PROVE  Matching(Append(cs, c), Append(ds, d))
<1>1. /\ Len(cs) \in Nat /\ Len(Append(cs, c)) = Len(cs) + 1 /\ Append(cs, c)[Len(cs) + 1] = c
      /\ \A i \in 1 .. Len(cs) : Append(cs, c)[i] = cs[i]
  BY More
<1>2. /\ Len(ds) \in Nat /\ Len(Append(ds, d)) = Len(ds) + 1 /\ Append(ds, d)[Len(ds) + 1] = d
      /\ \A i \in 1 .. Len(ds) : Append(ds, d)[i] = ds[i]
  BY More
<1>3. Len(cs) = Len(ds) /\ \A j \in 1 .. Len(cs) : Carries(cs[j], ds[j])
  BY DEF Matching
<1>4. ASSUME NEW j \in 1 .. Len(cs) + 1 PROVE Carries(Append(cs, c)[j], Append(ds, d)[j])
  <2>1. CASE j \in 1 .. Len(cs)
    BY <1>1, <1>2, <1>3, <2>1
  <2>2. CASE j = Len(cs) + 1
    BY <1>1, <1>2, <1>3, <2>2
  <2>3. j \in 1 .. Len(cs) \/ j = Len(cs) + 1
    BY <1>1
  <2> QED BY <2>1, <2>2, <2>3
<1> QED BY <1>1, <1>2, <1>3, <1>4 DEF Matching

\* The elements of a sequence by their places.
LEMMA Places ==
  ASSUME NEW S, NEW s \in Seq(S)
  PROVE  /\ \A i \in 1 .. Len(s) : s[i] \in ToSet(s) /\ s[i] \in S
         /\ \A e \in ToSet(s) : \E i \in 1 .. Len(s) : s[i] = e
<1>1. DOMAIN s = 1 .. Len(s)
  BY LenProperties
<1> QED BY <1>1, ElementOfSeq DEF ToSet

\* Before the merging, and after it.
LEMMA MergingStarts ==
  ASSUME NEW cs \in Seq(Ranges), NEW ds \in Seq(Ranges), TextLen \in Nat, Matching(cs, ds)
  PROVE  Merging(<<>>, cs, ds) /\ KeptIn(cs, ds)
<1>1. Len(cs) \in Nat /\ Len(ds) = Len(cs) /\ \A j \in 1 .. Len(cs) : Carries(cs[j], ds[j])
  BY LenProperties DEF Matching
<1>2. Merging(<<>>, cs, ds)
  <2>1. Len(ds) - Len(cs) = 0 /\ \A j \in 1 .. Len(cs) : 0 + j = j
    BY <1>1
  <2> QED BY <1>1, <2>1 DEF Merging
<1>3. ASSUME NEW i \in 1 .. Len(ds) PROVE \E c \in ToSet(cs) : Covers(c, ds[i])
  <2>1. cs[i] \in ToSet(cs) /\ cs[i] \in Ranges /\ ds[i] \in Ranges /\ Carries(cs[i], ds[i])
    BY <1>1, Places
  <2>2. cs[i].end \in Nat
    BY <2>1 DEF Ranges
  <2> QED BY <2>1, <2>2 DEF Carries, Covers
<1> QED BY <1>2, <1>3 DEF KeptIn

\* With nothing to come, all is kept.
LEMMA MergingEnds ==
  ASSUME NEW ms, NEW ds \in Seq(Ranges), Merging(ms, <<>>, ds)
  PROVE  KeptIn(ms, ds)
<1>1. Len(ds) - 0 = Len(ds) /\ Len(<<>>) = 0
  BY LenProperties
<1> QED BY <1>1 DEF Merging, KeptIn

\* One chunk is merged.
LEMMA MergingMore ==
  ASSUME NEW ms \in Seq(Ranges), NEW cs \in Seq(Ranges), NEW ds \in Seq(Ranges), TextLen \in Nat,
         Merging(ms, cs, ds), Rising(ds), cs # <<>>, NEW new,
         \/ new = Append(ms, Head(cs))
         \/ ms # <<>> /\ new = Append(Front(ms), Joined(Last(ms), Head(cs)))
  PROVE  Merging(new, Tail(cs), ds)
<1> DEFINE done == Len(ds) - Len(cs)
           c == Head(cs)
           d == ds[done + 1]
<1>1. /\ Len(cs) \in Nat /\ Len(cs) >= 1 /\ c = cs[1] /\ c \in Ranges
      /\ Tail(cs) \in Seq(Ranges) /\ Len(Tail(cs)) = Len(cs) - 1
      /\ \A i \in 1 .. Len(cs) - 1 : Tail(cs)[i] = cs[i + 1]
  BY Ends
<1>2. /\ done >= 0 /\ (ms = <<>> <=> done = 0)
      /\ \A j \in 1 .. Len(cs) : Carries(cs[j], ds[done + j])
      /\ done > 0 => Carries(Last(ms), ds[done])
      /\ \A i \in 1 .. done : \E m \in ToSet(ms) : Covers(m, ds[i])
  BY DEF Merging
<1>3. Len(ds) \in Nat /\ done \in Nat /\ done + 1 \in 1 .. Len(ds) /\ done + 1 <= Len(ds)
  BY <1>1, <1>2, LenProperties
<1>4. Len(ds) - Len(Tail(cs)) = done + 1
  BY <1>1, <1>3
<1>5. d \in Ranges /\ Carries(c, d)
  <2>1. 1 \in 1 .. Len(cs)
    BY <1>1
  <2> QED BY <1>1, <1>2, <1>3, <2>1, Places
<1>6. c.start \in Nat /\ c.end \in Nat /\ d.start \in Nat /\ d.end \in Nat /\ c.start <= d.start /\ c.end = d.end
  BY <1>1, <1>5 DEF Ranges, Carries
<1> HIDE DEF done, c, d
<1>7. ASSUME NEW j \in 1 .. Len(Tail(cs)) PROVE Carries(Tail(cs)[j], ds[(done + 1) + j])
  <2>1. j + 1 \in 1 .. Len(cs) /\ Tail(cs)[j] = cs[j + 1] /\ (done + 1) + j = done + (j + 1)
    BY <1>1, <1>3
  <2> QED BY <1>2, <2>1
<1>8. ASSUME new # <<>>, Carries(Last(new), d), Last(new) \in ToSet(new),
             \A i \in 1 .. done : \E m \in ToSet(new) : Covers(m, ds[i])
      PROVE  Merging(new, Tail(cs), ds)
  <2>1. Covers(Last(new), d)
    BY <1>6, <1>8 DEF Covers, Carries
  <2>2. ASSUME NEW i \in 1 .. done + 1 PROVE \E m \in ToSet(new) : Covers(m, ds[i])
    <3>1. i \in 1 .. done \/ i = done + 1
      BY <1>3
    <3> QED BY <1>8, <2>1, <3>1 DEF d
  <2>3. done + 1 >= 0 /\ done + 1 # 0
    BY <1>3
  <2> QED BY <1>4, <1>7, <1>8, <2>2, <2>3 DEF Merging, d
<1>9. CASE new = Append(ms, c)
  <2>1. ToSet(new) = ToSet(ms) \cup {c} /\ new # <<>> /\ Last(new) = c
    BY <1>1, <1>9, Elements, More
  <2>2. \A i \in 1 .. done : \E m \in ToSet(new) : Covers(m, ds[i])
    BY <1>2, <2>1
  <2> QED BY <1>5, <1>8, <2>1, <2>2
<1>10. CASE ms # <<>> /\ new = Append(Front(ms), Joined(Last(ms), c))
  <2> DEFINE m == Last(ms)
             j == Joined(m, c)
  <2>1. m \in Ranges /\ Front(ms) \in Seq(Ranges)
    BY <1>10, Ends
  <2>2. j \in Ranges /\ j.start = m.start /\ j.end = c.end
    BY <1>1, <2>1, JoinedFacts
  <2>3. m.start \in Nat /\ m.end \in Nat
    BY <2>1 DEF Ranges
  <2>4. ToSet(new) = ToSet(Front(ms)) \cup {j} /\ new # <<>> /\ Last(new) = j
    BY <1>10, <2>1, <2>2, Elements, More
  <2>5. \A x \in ToSet(ms) : x \in ToSet(Front(ms)) \/ x = m
    <3>1. Front(ms) \in Seq(Ranges) /\ Len(Front(ms)) = Len(ms) - 1 /\ m = ms[Len(ms)] /\ Len(ms) \in Nat
          /\ \A i \in 1 .. Len(ms) - 1 : Front(ms)[i] = ms[i]
      BY <1>10, Ends
    <3>2. ASSUME NEW i \in 1 .. Len(ms), i # Len(ms) PROVE ms[i] \in ToSet(Front(ms))
      <4>1. i \in 1 .. Len(Front(ms)) /\ Front(ms)[i] = ms[i]
        BY <3>1, <3>2
      <4> QED BY <3>1, <4>1, Places
    <3> QED BY <3>1, <3>2, Places
  <2>6. done > 0 /\ done \in 1 .. Len(ds) /\ Carries(m, ds[done])
    BY <1>2, <1>3, <1>10
  <2>7. ds[done] \in Ranges /\ ds[done].start \in Nat /\ ds[done].end \in Nat
    <3>1. ds[done] \in Ranges
      BY <2>6, Places
    <3> QED BY <3>1, RangeNats
  <2>8. ds[done].start < d.start /\ ds[done].end <= d.end
    BY <1>3, <2>6 DEF Rising, d
  <2>9. m.start <= ds[done].start /\ m.end = ds[done].end
    BY <2>6 DEF Carries
  <2> HIDE DEF m, j
  <2>10. Carries(j, d)
    BY <1>6, <2>2, <2>3, <2>7, <2>8, <2>9 DEF Carries
  <2>11. ASSUME NEW i \in 1 .. done, Covers(m, ds[i]) PROVE Covers(j, ds[i])
    <3>1. i \in 1 .. Len(ds)
      BY <1>3
    <3>2. ds[i] \in Ranges
      BY <3>1, Places
    <3>3. ds[i].start \in Nat /\ ds[i].end \in Nat
      BY <3>2, RangeNats
    <3>4. m.start <= ds[i].start /\ ds[i].end <= m.end
      BY <2>11 DEF Covers
    <3>5. ds[i].end <= j.end
      BY <1>6, <2>2, <2>3, <2>7, <2>8, <2>9, <3>3, <3>4, SMTT(30)
    <3> QED BY <2>2, <3>4, <3>5 DEF Covers
  <2>12. \A i \in 1 .. done : \E x \in ToSet(new) : Covers(x, ds[i])
    BY <1>2, <2>4, <2>5, <2>11
  <2> QED BY <1>8, <2>4, <2>10, <2>12
<1> QED BY <1>9, <1>10 DEF c

\* A node with words does not end where a word starts.
LEMMA EndsInWord ==
  ASSUME SyntaxTypes, NEW n \in TextNodes, doc[n].len > 0
  PROVE  \A w \in 0 .. TextLen : End(doc[n]) # 2 * w
<1>1. /\ doc[n].word \in Nat /\ doc[n].len \in Nat /\ End(doc[n]) = 2 * Behind(doc[n]) - 1
      /\ Behind(doc[n]) = doc[n].word + doc[n].len /\ TextLen \in Nat
  BY NodeFacts, PrevEndFacts DEF SyntaxTypes, Behind
<1>2. Behind(doc[n]) \in Nat
  BY <1>1
<1> QED BY <1>1, <1>2

\* What is clear of a node, and starts in front of a range in it, ends in front of it.
LEMMA ClearEnds ==
  ASSUME SyntaxTypes, NEW n \in TextNodes, NEW d \in Ranges, NEW e \in Ranges, Clear(doc[n], d),
         e.start < 2 * Behind(doc[n]), Start(doc[n]) <= e.end, d.start < e.start
  PROVE  d.end <= Start(doc[n]) /\ d.end <= e.end
<1>1. Behind(doc[n]) \in Nat /\ Start(doc[n]) \in Nat /\ TextLen \in Nat
  <2>1. doc[n].word \in Nat /\ doc[n].len \in Nat /\ Start(doc[n]) = 2 * doc[n].word /\ TextLen \in Nat
    BY NodeFacts, PrevEndFacts DEF SyntaxTypes
  <2> QED BY <2>1 DEF Behind
<1>2. d.start \in Nat /\ d.end \in Nat /\ e.start \in Nat /\ e.end \in Nat
  BY <1>1, RangeNats
<1> QED BY <1>1, <1>2 DEF Clear

\* The first two parts, when something is found.
LEMMA FoundParts ==
  ASSUME Base, OrderInv, doc' = doc, NEW e \in Ranges, due' = Append(due, e), e.start < e.end,
         pc' # "split" => \A w \in 0 .. TextLen : e.end # 2 * w
  PROVE  /\ \A i \in 1 .. Len(due') : due'[i].start < due'[i].end
         /\ pc' # "split" /\ due' # <<>> => \A w \in 0 .. TextLen' : Last(due').end # 2 * w
<1>1. /\ Len(due) \in Nat /\ Len(due') = Len(due) + 1 /\ due'[Len(due) + 1] = e /\ Last(due') = e
      /\ \A i \in 1 .. Len(due) : due'[i] = due[i]
  BY More DEF Base, SyntaxTypes
<1>2. TextLen' = TextLen
  BY SameText
<1>3. ASSUME NEW i \in 1 .. Len(due) + 1 PROVE due'[i].start < due'[i].end
  <2>1. CASE i \in 1 .. Len(due)
    BY <1>1, <2>1 DEF OrderInv
  <2>2. CASE i = Len(due) + 1
    BY <1>1, <2>2
  <2>3. i \in 1 .. Len(due) \/ i = Len(due) + 1
    BY <1>1
  <2> QED BY <2>1, <2>2, <2>3
<1> QED BY <1>1, <1>2, <1>3

\* A step that finds something and makes a chunk of it.
LEMMA OrderFound ==
  ASSUME Base, OrderInv, doc' = doc, NEW r \in Ranges, NEW e \in Ranges,
         chunks' = Append(chunks, r), due' = Append(due, e), Carries(r, e), e.start < e.end,
         pc \in {"walk", "children", "split"}, pc' \in {"walk", "children", "split"},
         pc' # "split" => \A w \in 0 .. TextLen : e.end # 2 * w,
         \A d \in ToSet(due) : d.start < e.start => d.end <= e.end
  PROVE  OrderInv'
<1>1. chunks \in Seq(Ranges) /\ due \in Seq(Ranges) /\ TextLen \in Nat
  BY PrevEndFacts DEF Base, SyntaxTypes
<1>2. /\ \A i \in 1 .. Len(due') : due'[i].start < due'[i].end
      /\ pc' # "split" /\ due' # <<>> => \A w \in 0 .. TextLen' : Last(due').end # 2 * w
  BY FoundParts
<1>3. ASSUME Stepping(due') PROVE Rising(due') /\ Matching(chunks', due')
  <2>1. Stepping(Append(due, e))
    BY <1>3
  <2>2. \A i \in 1 .. Len(due) : due[i].start < e.start => due[i].end <= e.end
    BY <1>1, Places
  <2>3. Stepping(due) /\ Rising(Append(due, e))
    BY <1>1, <2>1, <2>2, RisingMore DEF OrderInv
  <2>4. Matching(Append(chunks, r), Append(due, e))
    BY <1>1, <2>3, MatchingMore DEF OrderInv
  <2> QED BY <2>3, <2>4
<1>4. pc' # "merge" /\ pc' \notin {"cut", "done"}
  OBVIOUS
<1> QED BY <1>2, <1>3, <1>4 DEF OrderInv

\* A step that finds nothing.
LEMMA OrderStays ==
  ASSUME OrderInv, doc' = doc, chunks' = chunks, due' = due,
         pc \in {"walk", "children", "split"}, pc' \in {"walk", "children", "split"},
         pc' # "split" => pc # "split"
  PROVE  OrderInv'
<1>1. TextLen' = TextLen
  BY SameText
<1> QED BY <1>1 DEF OrderInv

\* A step of the walk: a leaf that the last chunk reaches was not met in order.
LEMMA OrderWalk == ASSUME Base, LayoutInv, OrderInv, Walk PROVE OrderInv'
<1> USE DEF Base
<1> DEFINE n == Last(stack).node
<1>1. /\ pc = "walk" /\ pc' \in {"walk", "children"} /\ doc' = doc /\ stack # <<>>
      /\ due \in Seq(Ranges) /\ chunks \in Seq(Ranges) /\ ToSet(due) \subseteq Ranges
  BY Elements DEF Walk, Skip, Comment, WholeNode, Oversized, Intermediate, Leaf, Visits, SyntaxTypes
<1>2. /\ n \in TextNodes /\ Top = doc[n] /\ Context = None /\ \A d \in ToSet(due) : Clear(Top, d)
      /\ Words(Top) = Top.len /\ Top.len \in Nat /\ Top.word \in Nat /\ Start(Top) = 2 * Top.word
      /\ Start(Top) \in 0 .. TextLen /\ TextLen \in Nat /\ PrevEnd \in Int
  <2>1. n \in TextNodes /\ Top = doc[n] /\ Context = None
    BY <1>1, TopFacts
  <2>2. \A d \in ToSet(due) : Clear(Top, d)
    BY <1>1, Popped
  <2>3. /\ Words(Top) = Top.len /\ Top.len \in Nat /\ Top.word \in Nat /\ Start(Top) = 2 * Top.word
        /\ Start(Top) \in 0 .. TextLen
    BY <2>1, NodeFacts DEF SyntaxTypes
  <2>4. TextLen \in Nat /\ PrevEnd \in Int
    BY PrevEndFacts
  <2> QED BY <2>1, <2>2, <2>3, <2>4
<1>3. PICK e \in Ranges : e = Own(Top)
  BY <1>2, OwnFacts
<1>4. /\ e.start = Start(Top) /\ e.end = End(Top)
      /\ Start(Top) <= End(Top) /\ End(Top) <= 2 * Behind(Top)
      /\ Top.len > 0 => Start(Top) < End(Top)
  BY <1>2, <1>3, OwnFacts
<1>5. Behind(Top) \in Nat /\ e.start \in Nat /\ e.end \in Nat
  BY <1>2, RangeNats DEF Behind
<1>6. ASSUME Top.len > 0
      PROVE  /\ e.start < e.end /\ \A w \in 0 .. TextLen : e.end # 2 * w
             /\ \A d \in ToSet(due) : d.start < e.start => d.end <= Start(Top) /\ d.end <= e.end
  <2>1. e.start < e.end /\ e.start < 2 * Behind(Top) /\ Start(Top) <= e.end
    BY <1>4, <1>5, <1>6
  <2>2. \A w \in 0 .. TextLen : e.end # 2 * w
    BY <1>2, <1>4, <1>6, EndsInWord
  <2> QED BY <1>1, <1>2, <2>1, <2>2, ClearEnds
<1>7. ASSUME Top.len > 0, due' = Append(due, Own(Top)), NEW r \in Ranges, chunks' = Append(chunks, r),
             r.start <= Start(Top), r.end = End(Top)
      PROVE  OrderInv'
  <2>1. Carries(r, e)
    BY <1>4, <1>7 DEF Carries
  <2> QED BY <1>1, <1>3, <1>6, <1>7, <2>1, OrderFound
<1>8. CASE Skip \/ Oversized \/ Intermediate
  BY <1>1, <1>8, OrderStays DEF Skip, Oversized, Intermediate
<1>9. CASE Comment
  <2>1. /\ Top.len > 0 /\ due' = Append(due, Own(Top)) /\ chunks' = Append(chunks, e)
    BY <1>2, <1>3, <1>9 DEF Comment, Emit
  <2>2. e.start <= Start(Top)
    BY <1>4, <1>5
  <2> QED BY <1>4, <1>7, <2>1, <2>2
<1>10. PICK r \in Ranges : r = RangeOf(Context, Top, PrevEnd) /\ r.start <= Start(Top) /\ r.end = End(Top)
  <2>1. Context \in {None} \cup 0 .. TextLen
    BY <1>2
  <2>2. LET r == RangeOf(Context, doc[n], PrevEnd)
        IN  /\ r \in Ranges /\ r.end = End(doc[n]) /\ r.start <= Start(doc[n])
            /\ \/ r.start >= Start(doc[n]) - 2 * Overlap
               \/ r.start = Context /\ Context # None /\ Context >= PrevEnd
    BY <1>2, <2>1, RangeFacts
  <2> QED BY <1>2, <2>2
<1>11. CASE WholeNode
  <2>1. Top.len > 0 /\ due' = Append(due, Own(Top)) /\ chunks' = Append(chunks, r)
    BY <1>2, <1>10, <1>11 DEF WholeNode, Fits, Emit
  <2> QED BY <1>7, <1>10, <2>1
<1>12. CASE Leaf
  <2>1. CASE Words(Top) < 2
    <3>1. chunks' = chunks /\ due' = due /\ pc' = pc
      BY <1>12, <2>1 DEF Leaf
    <3> QED BY <1>1, <3>1, OrderStays
  <2>2. CASE ~(Words(Top) < 2) /\ ~(chunks # <<>> /\ Last(chunks).end >= Start(Top))
    <3>1. Top.len > 0 /\ due' = Append(due, Own(Top)) /\ chunks' = Append(chunks, r)
      BY <1>2, <1>10, <1>12, <2>2 DEF Leaf, Emit
    <3> QED BY <1>7, <1>10, <3>1
  <2>3. CASE ~(Words(Top) < 2) /\ chunks # <<>> /\ Last(chunks).end >= Start(Top)
    <3>1. Top.len > 0 /\ due' = Append(due, e) /\ chunks' = chunks /\ pc' = "walk"
      BY <1>1, <1>2, <1>3, <1>12, <2>3 DEF Leaf
    <3>2. /\ \A i \in 1 .. Len(due') : due'[i].start < due'[i].end
          /\ pc' # "split" /\ due' # <<>> => \A w \in 0 .. TextLen' : Last(due').end # 2 * w
      BY <1>1, <1>6, <3>1, FoundParts
    <3>3. ASSUME Stepping(due') PROVE FALSE
      <4>1. \A i \in 1 .. Len(due) : due[i] \in ToSet(due)
        BY <1>1, Places
      <4>2. Stepping(Append(due, e)) /\ \A i \in 1 .. Len(due) : due[i].start < e.start => due[i].end <= e.end
        BY <1>6, <3>1, <3>3, <4>1
      <4>3. Stepping(due) /\ \A i \in 1 .. Len(due) : due[i].start < e.start
        BY <1>1, <1>2, <4>2, RisingMore DEF OrderInv
      <4>4. Len(chunks) = Len(due) /\ \A j \in 1 .. Len(chunks) : Carries(chunks[j], due[j])
        BY <1>1, <4>3 DEF OrderInv, Matching
      <4>5. Len(chunks) \in 1 .. Len(chunks) /\ Last(chunks) = chunks[Len(chunks)]
        BY <1>1, <2>3, Ends
      <4>6. due # <<>>
        BY <4>4, <4>5, LenProperties
      <4>7. Last(due) = due[Len(due)] /\ Last(due).end = Last(chunks).end
        BY <1>1, <4>4, <4>5, <4>6, Ends DEF Carries
      <4>8. Last(due).end <= Start(Top)
        BY <1>6, <3>1, <4>1, <4>3, <4>4, <4>5, <4>7
      <4>9. Last(due).end = 2 * Top.word /\ Top.word \in 0 .. TextLen
        <5>1. Last(due) \in Ranges
          BY <1>1, <4>6, Ends
        <5>2. Last(due).end \in Nat
          BY <1>2, <5>1, RangeNats
        <5> QED BY <1>2, <2>3, <4>7, <4>8, <5>2
      <4> QED BY <1>1, <4>6, <4>9 DEF OrderInv
    <3> QED BY <3>2, <3>3 DEF OrderInv
  <2> QED BY <2>1, <2>2, <2>3
<1> QED BY <1>8, <1>9, <1>11, <1>12 DEF Walk

\* A step over the children of an oversized node.
LEMMA OrderChildren == ASSUME Base, LayoutInv, OrderInv, WalkChildren PROVE OrderInv'
<1> USE DEF Base
<1> DEFINE n == Head(children)
<1>1. /\ pc \in {"children", "split"} /\ pc' \in {"walk", "children", "split"} /\ doc' = doc
      /\ due \in Seq(Ranges) /\ chunks \in Seq(Ranges) /\ ToSet(due) \subseteq Ranges /\ TextLen \in Nat
      /\ PrevEnd \in Int
  <2>1. /\ pc \in {"children", "split"} /\ pc' \in {"walk", "children", "split"} /\ doc' = doc
    BY DEF WalkChildren, SkipChild, WholeChild, PushChild, SplitChild, Piece, NoChildren
  <2>2. due \in Seq(Ranges) /\ chunks \in Seq(Ranges)
    BY DEF SyntaxTypes
  <2> QED BY <2>1, <2>2, Elements, PrevEndFacts
<1>2. CASE SkipChild \/ PushChild \/ SplitChild \/ NoChildren
  BY <1>1, <1>2, OrderStays DEF SkipChild, PushChild, SplitChild, NoChildren
<1>3. ASSUME children # <<>>
      PROVE  /\ n \in TextNodes /\ Child = doc[n]
             /\ \A d \in ToSet(due) : Clear(Child, d) \/ (InPieces(1) /\ d.end <= PieceEnd)
             /\ Words(Child) = Child.len /\ Child.len \in Nat /\ Child.word \in Nat
             /\ Start(Child) = 2 * Child.word /\ Behind(Child) \in Nat
             /\ Child.len > 0 => End(Child) = 2 * Behind(Child) - 1
  <2>1. n \in TextNodes /\ Child = doc[n] /\ doc \in Documents
    BY <1>3, ChildFacts DEF SyntaxTypes
  <2>2. \A d \in ToSet(due) : Clear(Child, d) \/ (InPieces(1) /\ d.end <= PieceEnd)
    BY <1>3, Passed
  <2> QED BY <2>1, <2>2, NodeFacts DEF Behind
<1>4. CASE WholeChild
  <2>1. /\ pc = "children" /\ pc' = "children" /\ children # <<>> /\ Child.len > 0
        /\ due' = Append(due, Own(Child)) /\ chunks' = Append(chunks, RangeOf(parent, Child, PrevEnd))
    BY <1>3, <1>4 DEF WholeChild, Fits, Emit
  <2>2. parent \in {None} \cup 0 .. TextLen
    BY DEF SyntaxTypes
  <2>3. PICK r \in Ranges : r = RangeOf(parent, Child, PrevEnd) /\ r.start <= Start(Child) /\ r.end = End(Child)
    <3>1. LET r == RangeOf(parent, doc[n], PrevEnd)
          IN  /\ r \in Ranges /\ r.end = End(doc[n]) /\ r.start <= Start(doc[n])
              /\ \/ r.start >= Start(doc[n]) - 2 * Overlap
                 \/ r.start = parent /\ parent # None /\ parent >= PrevEnd
      BY <1>1, <1>3, <2>1, <2>2, RangeFacts
    <3> QED BY <1>3, <2>1, <3>1
  <2>4. PICK e \in Ranges : e = Own(Child)
    BY <1>3, <2>1, OwnFacts
  <2>5. /\ e.start = Start(Child) /\ e.end = End(Child)
        /\ Start(Child) < End(Child) /\ End(Child) <= 2 * Behind(Child) /\ Start(Child) <= End(Child)
    BY <1>3, <2>1, <2>4, OwnFacts
  <2>6. Carries(r, e)
    BY <2>3, <2>5 DEF Carries
  <2>7. \A w \in 0 .. TextLen : e.end # 2 * w
    BY <1>3, <2>1, <2>5, EndsInWord
  <2>8. \A d \in ToSet(due) : d.start < e.start => d.end <= e.end
    <3>1. \A d \in ToSet(due) : Clear(Child, d)
      BY <1>3, <2>1 DEF InPieces
    <3>2. e.start < 2 * Behind(Child) /\ Start(Child) <= e.end
      <4>1. e.end \in Nat /\ e.start \in Nat
        BY <1>1, RangeNats
      <4> QED BY <1>3, <2>1, <2>5, <4>1
    <3> QED BY <1>1, <1>3, <2>1, <3>1, <3>2, ClearEnds
  <2> QED BY <1>1, <2>1, <2>3, <2>4, <2>5, <2>6, <2>7, <2>8, OrderFound
<1>5. CASE Piece
  <2>1. /\ pc = "split" /\ chunks' = Append(chunks, PieceRange)
        /\ due' = Append(due, [start |-> PieceStart, end |-> PieceEnd])
        /\ PieceTo < Child.len => pc' = "split" \/ PieceTo >= Child.len
    BY <1>5 DEF Piece, PieceRange, PieceStart, PieceEnd, PieceTo
  <2>2. /\ children # <<>> /\ PieceRange \in Ranges /\ PieceRange.end = PieceEnd
        /\ PieceRange.start <= PieceStart /\ PieceStart < PieceEnd /\ PieceEnd <= 2 * Behind(Child)
        /\ PieceTo \in Nat /\ PieceTo <= Child.len
        /\ PieceTo = Child.len => PieceEnd = 2 * Behind(Child) - 1
        /\ PieceStart = 2 * (Child.word + split.from) /\ split.from \in Nat /\ split.from < Child.len
        /\ [start |-> PieceStart, end |-> PieceEnd] \in Ranges
    BY <2>1, PieceFacts
  <2>3. PICK e \in Ranges : e = [start |-> PieceStart, end |-> PieceEnd]
    BY <2>2
  <2>4. PICK r \in Ranges : r = PieceRange
    BY <2>2
  <2>5. e.start = PieceStart /\ e.end = PieceEnd /\ e.start \in Nat /\ e.end \in Nat
    BY <1>1, <2>3, RangeNats
  <2>6. Carries(r, e)
    BY <2>2, <2>4, <2>5 DEF Carries
  <2>7. pc' # "split" => \A w \in 0 .. TextLen : e.end # 2 * w
    <3>1. pc' # "split" => PieceTo = Child.len
      BY <1>3, <2>1, <2>2
    <3>2. Behind(Child) \in Nat
      BY <1>3, <2>2
    <3> QED BY <1>1, <2>2, <2>5, <3>1, <3>2
  <2>8. \A d \in ToSet(due) : d.start < e.start => d.end <= e.end
    <3>1. e.start < 2 * Behind(Child) /\ Start(Child) <= e.end
      BY <1>3, <2>2, <2>5
    <3> QED BY <1>1, <1>3, <2>2, <2>5, <3>1, ClearEnds
  <2> QED BY <1>1, <2>1, <2>2, <2>3, <2>4, <2>5, <2>6, <2>7, <2>8, OrderFound
<1> QED BY <1>2, <1>4, <1>5 DEF WalkChildren

\* A step of the merging: in order no chunk is empty, and a joined one covers both.
LEMMA OrderMerge == ASSUME Base, OrderInv, Merge PROVE OrderInv'
<1> USE DEF Base
<1>1. /\ doc' = doc /\ due' = due /\ pc # "split" /\ pc' # "split"
      /\ due \in Seq(Ranges) /\ chunks \in Seq(Ranges) /\ merged \in Seq(Ranges) /\ TextLen \in Nat
  BY PrevEndFacts DEF Merge, WalkEnds, MergeChunk, MergeEnds, Cut, SyntaxTypes
<1>2. TextLen' = TextLen
  BY <1>1, SameText
<1>3. ASSUME Stepping(due) => /\ pc' \notin {"walk", "children"}
                              /\ pc' = "merge" => Merging(merged', chunks', due)
                              /\ pc' \in {"cut", "done"} => KeptIn(chunks', due)
      PROVE  OrderInv'
  BY <1>1, <1>2, <1>3 DEF OrderInv
<1>4. CASE WalkEnds
  <2>1. pc = "walk" /\ pc' \in {"cut", "merge"} /\ merged' = <<>> /\ chunks' = chunks
    BY <1>4 DEF WalkEnds, Control
  <2>2. Stepping(due) => Matching(chunks, due)
    BY <2>1 DEF OrderInv
  <2> QED BY <1>1, <1>3, <2>1, <2>2, MergingStarts
<1>5. CASE MergeChunk
  <2>1. pc = "merge" /\ pc' = "merge" /\ chunks # <<>> /\ chunks' = Tail(chunks)
    BY <1>5 DEF MergeChunk
  <2>2. ASSUME Stepping(due) PROVE Merging(merged', chunks', due)
    <3>1. Merging(merged, chunks, due) /\ Rising(due)
      BY <2>1, <2>2 DEF OrderInv
    <3>2. ~(Head(chunks).start >= Head(chunks).end)
      <4> DEFINE k == Len(due) - Len(chunks) + 1
      <4>1. Head(chunks) = chunks[1] /\ Head(chunks) \in Ranges /\ Len(chunks) \in Nat /\ Len(chunks) >= 1
        BY <1>1, <2>1, Ends
      <4>2. Len(due) \in Nat /\ Len(due) - Len(chunks) >= 0 /\ Carries(Head(chunks), due[k])
        <5>1. 1 \in 1 .. Len(chunks)
          BY <4>1
        <5> QED BY <1>1, <3>1, <4>1, <5>1, LenProperties DEF Merging
      <4>3. k \in 1 .. Len(due)
        BY <4>1, <4>2
      <4> HIDE DEF k
      <4>4. due[k] \in Ranges /\ due[k].start < due[k].end
        BY <1>1, <4>3, Places DEF OrderInv
      <4>5. due[k].start \in Nat /\ due[k].end \in Nat /\ Head(chunks).start \in Nat /\ Head(chunks).end \in Nat
        BY <1>1, <4>1, <4>4, RangeNats
      <4> QED BY <4>2, <4>4, <4>5 DEF Carries
    <3>3. \/ merged' = Append(merged, Head(chunks))
          \/ merged # <<>> /\ merged' = Append(Front(merged), Joined(Last(merged), Head(chunks)))
      BY <1>5, <3>2 DEF MergeChunk
    <3>4. PICK new : new = merged'
      OBVIOUS
    <3>5. Merging(new, Tail(chunks), due)
      BY <1>1, <2>1, <3>1, <3>3, <3>4, MergingMore
    <3> QED BY <2>1, <3>4, <3>5
  <2> QED BY <1>3, <2>1, <2>2
<1>6. CASE MergeEnds
  <2>1. pc = "merge" /\ pc' = "cut" /\ chunks = <<>> /\ chunks' = merged
    BY <1>6 DEF MergeEnds
  <2>2. Stepping(due) => KeptIn(merged, due)
    BY <1>1, <2>1, MergingEnds DEF OrderInv
  <2> QED BY <1>3, <2>1, <2>2
<1>7. CASE Cut
  <2>1. pc = "cut" /\ pc' \in {"windows", "done"} /\ chunks' = chunks
    BY <1>7 DEF Cut
  <2> QED BY <1>3, <2>1 DEF OrderInv
<1> QED BY <1>4, <1>5, <1>6, <1>7 DEF Merge

\* No other step makes or loses a chunk.
LEMMA OrderNext == ASSUME Base, LayoutInv, OrderInv, [SyntaxNext]_vars PROVE OrderInv'
<1>1. CASE WordWindows \/ UNCHANGED vars
  <2>1. UNCHANGED <<doc, pc, chunks, merged, due>>
    BY <1>1 DEF WordWindows, vars, syntaxVars
  <2>2. TextLen' = TextLen
    BY <2>1, SameText
  <2> QED BY <2>1, <2>2 DEF OrderInv
<1> QED BY <1>1, OrderWalk, OrderChildren, OrderMerge DEF SyntaxNext, Answered

\* What is met in order is kept.
THEOREM WhatIsInOrderIsKept == SyntaxSpec => []OrderedIsKept
<1>1. SyntaxInit => OrderInv
  <2> SUFFICES ASSUME SyntaxInit PROVE OrderInv
    OBVIOUS
  <2>1. due = <<>> /\ chunks = <<>> /\ pc \in {"walk", "windows"}
    BY DEF SyntaxInit
  <2>2. Len(<<>>) = 0 /\ 1 .. 0 = {}
    BY LenProperties
  <2> QED BY <2>1, <2>2 DEF OrderInv, Rising, Matching
<1>2. ASSUME Base, OrderInv PROVE OrderedIsKept
  <2> SUFFICES ASSUME pc = "done", InOrder PROVE \A range \in ToSet(due) : Kept(range)
    BY DEF OrderedIsKept
  <2>1. KeptIn(chunks, due)
    BY <1>2 DEF OrderInv, InOrder, Stepping
  <2>2. due \in Seq(Ranges)
    BY <1>2 DEF Base, SyntaxTypes
  <2> QED BY <2>1, <2>2, Places DEF KeptIn, Kept, Covers
<1>3. Base /\ LayoutInv /\ OrderInv /\ [SyntaxNext]_vars => (Base /\ LayoutInv /\ OrderInv)'
  BY BaseNext, LayoutNext, OrderNext
<1>4. SyntaxInit => Base /\ LayoutInv
  BY BaseInit, LayoutInit
<1> QED BY <1>1, <1>2, <1>3, <1>4, PTL DEF SyntaxSpec
=============================================================================
