-------------------------- MODULE Extraction_proofs --------------------------
(***************************************************************************)
(* Proofs about Extraction, for every text, chunk size and answer: no      *)
(* character of a text is lost to the cuts, a text of more than one chunk  *)
(* is never finished when chunks overlap, and the merge of the answers     *)
(* says what the answers say.                                              *)
(***************************************************************************)
EXTENDS Extraction, Integers, WellFoundedInduction, TLAPS

\* What the proofs need of the types.
Pieces ==
    /\ text \in Texts
    /\ pc \in {"chunking", "asking", "done", "raised"}
    /\ start \in 0..Len(text)
    /\ todo \in Seq([from: Int, to: Int, depth: Nat])
    /\ results \in Seq([from: Int, to: Int, answer: Answers])

\* A character is in a part still to be asked about or in one answered.
Covered(c) ==
    \/ \E n \in 1..Len(todo) : todo[n].from <= c /\ c < todo[n].to
    \/ \E n \in 1..Len(results) : results[n].from <= c /\ c < results[n].to

\* How much of the text has been cut into chunks.
Reach == IF pc = "chunking" THEN Before(start) ELSE Size

\* The inductive strengthening of NothingSkipped: all that was cut is covered,
\* so is every chunk that the list is not given again, and at the end nothing
\* is left to do.
CutIsCovered ==
    /\ Pieces
    /\ \A c \in Nat : c < Reach => Covered(c)
    /\ \A k \in chunks : \A c \in Nat : k[1] <= c /\ c < k[2] => Covered(c)
    /\ pc = "done" => todo = <<>>

-----------------------------------------------------------------------------
\* The positions where lines end grow with the line (splitlines).
LEMMA LinesGrow ==
    ASSUME NEW x \in Texts
    PROVE  /\ x \in Seq(Nat \ {0}) /\ Len(x) \in Nat \ {0}
           /\ \A i, j \in 1..Len(x) : i <= j => x[i] <= x[j]
           /\ \A i \in 1..Len(x) : x[i] \in Nat \ {0}
<1>1. IsText(x)
  BY TextsAssumption
<1>2. x \in Seq(Nat \ {0}) /\ x # <<>>
  BY <1>1 DEF IsText
<1>3. Len(x) \in Nat \ {0}
  BY <1>2
<1>4. \A i \in 1..Len(x) : x[i] \in Nat \ {0}
  BY <1>2
<1>5. ASSUME NEW i \in 1..Len(x), NEW j \in 1..Len(x), i <= j
      PROVE  x[i] <= x[j]
  <2>1. CASE i = j
    BY <2>1, <1>4
  <2>2. CASE i < j
    BY <2>2, <1>1, <1>4 DEF IsText
  <2> QED
    BY <1>5, <2>1, <2>2
<1> QED
  BY <1>2, <1>3, <1>4, <1>5

\* Before(i) is a position of the text and grows with i.
LEMMA PositionsGrow ==
    ASSUME text \in Texts
    PROVE  /\ \A i \in 0..Len(text) : Before(i) \in Nat
           /\ \A i, j \in 0..Len(text) : i <= j => Before(i) <= Before(j)
           /\ Len(text) \in Nat \ {0} /\ Before(Len(text)) = Size
           /\ Size \in Nat \ {0} /\ Before(0) = 0
  BY LinesGrow DEF Before, Size

\* A part is cut some number of characters after its start (_split_in_half).
LEMMA CutIsInt ==
    ASSUME NEW p \in [from: Int, to: Int, depth: Nat]
    PROVE  Cut(p) \subseteq Int
<1>1. (p.to - p.from) \div 2 \in Int
  OBVIOUS
<1>2. Newlines(p) \subseteq Int
  BY DEF Newlines
<1> QED
  BY <1>1, <1>2 DEF Cut

-----------------------------------------------------------------------------
\* _chunk_text: the next chunk begins within this one or at its end, so that
\* with it everything up to there is covered.
LEMMA ChunkKeepsCover ==
    ASSUME CutIsCovered, NextChunk
    PROVE  CutIsCovered'
<1> USE DEF CutIsCovered, Pieces
<1>1. start \in Nat /\ Len(text) \in Nat
  BY PositionsGrow
<1>2. PICK end \in start + 1 .. Len(text) :
          \E next \in start .. end :
              /\ Takes(end) /\ Rewinds(end, next)
              /\ chunks' = chunks \cup {<<Before(start), Before(end)>>}
              /\ todo' = IF <<Before(start), Before(end)>> \in chunks THEN todo
                         ELSE Append(todo, Part(Before(start), Before(end), 0))
              /\ start' = next
              /\ pc' = IF next < Len(text) THEN "chunking" ELSE "asking"
  BY Zenon DEF NextChunk
<1>3. PICK next \in start .. end :
          /\ chunks' = chunks \cup {<<Before(start), Before(end)>>}
          /\ todo' = IF <<Before(start), Before(end)>> \in chunks THEN todo
                     ELSE Append(todo, Part(Before(start), Before(end), 0))
          /\ start' = next
          /\ pc' = IF next < Len(text) THEN "chunking" ELSE "asking"
  BY <1>2
<1>4. pc = "chunking" /\ UNCHANGED <<text, results>>
  BY DEF NextChunk
<1>5. /\ start \in 0..Len(text) /\ end \in 0..Len(text) /\ next \in 0..Len(text)
      /\ start <= end /\ next <= end
  BY <1>1, <1>3
<1>6. /\ Before(start) \in Nat /\ Before(end) \in Nat /\ Before(next) \in Nat
      /\ Before(next) <= Before(end)
  BY <1>5, PositionsGrow
<1> DEFINE chunk == <<Before(start), Before(end)>>
           new == Part(Before(start), Before(end), 0)
<1>7. new \in [from: Int, to: Int, depth: Nat] /\ new.from = chunk[1] /\ new.to = chunk[2]
  BY <1>6 DEF Part
<1>8. Pieces'
  <2>1. todo' \in Seq([from: Int, to: Int, depth: Nat])
    <3>1. CASE chunk \in chunks
      BY <3>1, <1>3
    <3>2. CASE chunk \notin chunks
      BY <3>2, <1>3, <1>7
    <3> QED
      BY <3>1, <3>2
  <2>2. text' \in Texts /\ start' \in 0..Len(text')
    BY <1>3, <1>4, <1>5
  <2>3. pc' \in {"chunking", "asking", "done", "raised"}
    BY <1>3
  <2> QED
    BY <2>1, <2>2, <2>3, <1>4
<1>9. ASSUME NEW c \in Nat, Covered(c)
      PROVE  Covered(c)'
  <2>1. CASE \E n \in 1..Len(results) : results[n].from <= c /\ c < results[n].to
    BY <2>1, <1>4 DEF Covered
  <2>2. CASE \E n \in 1..Len(todo) : todo[n].from <= c /\ c < todo[n].to
    <3>1. PICK n \in 1..Len(todo) : todo[n].from <= c /\ c < todo[n].to
      BY <2>2
    <3>2. n \in 1..Len(todo') /\ todo'[n] = todo[n]
      BY <1>3, <1>7
    <3> QED
      BY <3>1, <3>2 DEF Covered
  <2> QED
    BY <1>9, <2>1, <2>2 DEF Covered
<1>10. ASSUME NEW c \in Nat, chunk[1] <= c, c < chunk[2]
      PROVE  Covered(c)'
  <2>1. CASE chunk \in chunks
    BY <2>1, <1>9, <1>10
  <2>2. CASE chunk \notin chunks
    <3>1. todo' = Append(todo, new)
      BY <2>2, <1>3
    <3>2. Len(todo') \in 1..Len(todo') /\ todo'[Len(todo')] = new
      BY <3>1, <1>7
    <3> QED
      BY <3>2, <1>7, <1>10 DEF Covered
  <2> QED
    BY <2>1, <2>2
<1>11. ASSUME NEW c \in Nat, c < Before(next)
      PROVE  Covered(c)'
  <2>1. CASE c < Before(start)
    BY <2>1, <1>4, <1>9 DEF Reach
  <2>2. CASE Before(start) <= c
    BY <2>2, <1>6, <1>10, <1>11
  <2> QED
    BY <2>1, <2>2, <1>6
<1>12. Reach' = Before(next)
  <2>1. CASE next < Len(text)
    BY <2>1, <1>3, <1>4 DEF Reach, Before
  <2>2. CASE next = Len(text)
    BY <2>2, <1>3, <1>4, PositionsGrow DEF Reach, Size
  <2> QED
    BY <2>1, <2>2, <1>5
<1>13. \A c \in Nat : c < Reach' => Covered(c)'
  BY <1>11, <1>12
<1>14. \A k \in chunks' : \A c \in Nat : k[1] <= c /\ c < k[2] => Covered(c)'
  BY <1>3, <1>9, <1>10
<1>15. pc' # "done"
  BY <1>3
<1> QED
  BY <1>8, <1>13, <1>14, <1>15

\* The head and the tail of a sequence that is not empty.
LEMMA HeadAndTail ==
    ASSUME NEW S, NEW x \in Seq(S), x # <<>>
    PROVE  /\ Len(x) \in Nat \ {0} /\ Head(x) = x[1] /\ x[1] \in S
           /\ Tail(x) \in Seq(S) /\ Len(Tail(x)) = Len(x) - 1
           /\ \A n \in 1 .. Len(x) - 1 : Tail(x)[n] = x[n + 1]
  OBVIOUS

\* One sequence after another.
LEMMA InARow ==
    ASSUME NEW S, NEW x \in Seq(S), NEW y \in Seq(S)
    PROVE  /\ x \o y \in Seq(S) /\ Len(x \o y) = Len(x) + Len(y)
           /\ \A n \in 1 .. Len(x) + Len(y) :
                  (x \o y)[n] = IF n <= Len(x) THEN x[n] ELSE y[n - Len(x)]
  OBVIOUS

\* Answered: the part at the head of the list moves to the results.
LEMMA AnswerKeepsCover ==
    ASSUME CutIsCovered, Answered
    PROVE  CutIsCovered'
<1>1. PICK a \in Answers :
          results' = Append(results, [from |-> Head(todo).from, to |-> Head(todo).to, answer |-> a])
  BY DEF Answered
<1>2. /\ pc = "asking" /\ todo # <<>> /\ todo' = Tail(todo)
      /\ UNCHANGED <<text, pc, start, chunks>>
  BY DEF Answered
<1> DEFINE new == [from |-> Head(todo).from, to |-> Head(todo).to, answer |-> a]
<1>3. /\ todo \in Seq([from: Int, to: Int, depth: Nat])
      /\ results \in Seq([from: Int, to: Int, answer: Answers])
  BY DEF CutIsCovered, Pieces
<1>4. /\ Len(todo) \in Nat \ {0} /\ Head(todo) = todo[1]
      /\ todo[1] \in [from: Int, to: Int, depth: Nat]
      /\ todo' \in Seq([from: Int, to: Int, depth: Nat]) /\ Len(todo') = Len(todo) - 1
      /\ \A n \in 1 .. Len(todo) - 1 : todo'[n] = todo[n + 1]
  BY <1>2, <1>3, HeadAndTail
<1>5. /\ new \in [from: Int, to: Int, answer: Answers]
      /\ new.from = todo[1].from /\ new.to = todo[1].to
  BY <1>4
<1>6. results' \in Seq([from: Int, to: Int, answer: Answers])
  BY <1>1, <1>3, <1>5
<1>7. Pieces'
  BY <1>2, <1>4, <1>6 DEF CutIsCovered, Pieces
<1>8. /\ Len(results') = Len(results) + 1 /\ Len(results) \in Nat
      /\ \A n \in 1..Len(results) : results'[n] = results[n]
      /\ results'[Len(results) + 1] = new
  BY <1>1, <1>3, <1>5
<1> HIDE DEF new
<1>9. ASSUME NEW c \in Nat, Covered(c)
      PROVE  Covered(c)'
  <2>1. CASE \E n \in 1..Len(results) : results[n].from <= c /\ c < results[n].to
    BY <2>1, <1>8 DEF Covered
  <2>2. CASE \E n \in 1..Len(todo) : todo[n].from <= c /\ c < todo[n].to
    <3>1. PICK n \in 1..Len(todo) : todo[n].from <= c /\ c < todo[n].to
      BY <2>2
    <3>2. CASE n = 1
      <4>1. Len(results) + 1 \in 1..Len(results')
        BY <1>8
      <4>2. new.from <= c /\ c < new.to
        BY <3>1, <3>2, <1>5
      <4> QED
        BY <4>1, <4>2, <1>8 DEF Covered
    <3>3. CASE n # 1
      <4>1. n - 1 \in 1 .. Len(todo) - 1 /\ n - 1 + 1 = n
        BY <3>3, <1>4
      <4>2. n - 1 \in 1..Len(todo') /\ todo'[n - 1] = todo[n]
        BY <4>1, <1>4
      <4> QED
        BY <4>2, <3>1 DEF Covered
    <3> QED
      BY <3>2, <3>3
  <2> QED
    BY <1>9, <2>1, <2>2 DEF Covered
<1>10. Reach' = Reach
  BY <1>2 DEF Reach, Size
<1> QED
  BY <1>2, <1>7, <1>9, <1>10 DEF CutIsCovered

\* Halved: the two halves cover what the part did.
LEMMA HalvesKeepCover ==
    ASSUME CutIsCovered, Halved
    PROVE  CutIsCovered'
<1> DEFINE p == Head(todo)
<1>1. PICK q \in Cut(p) : todo' = Halves(p, q) \o Tail(todo)
  BY DEF Halved
<1>2. pc = "asking" /\ todo # <<>> /\ UNCHANGED <<text, pc, start, chunks, results>>
  BY DEF Halved
<1>3. todo \in Seq([from: Int, to: Int, depth: Nat])
  BY DEF CutIsCovered, Pieces
<1>4. /\ Len(todo) \in Nat \ {0} /\ p = todo[1]
      /\ p \in [from: Int, to: Int, depth: Nat]
      /\ Tail(todo) \in Seq([from: Int, to: Int, depth: Nat])
      /\ Len(Tail(todo)) = Len(todo) - 1
      /\ \A n \in 1 .. Len(todo) - 1 : Tail(todo)[n] = todo[n + 1]
  BY <1>2, <1>3, HeadAndTail
<1>5. q \in Int
  BY <1>4, CutIsInt
<1> DEFINE left == Part(p.from, p.from + q, p.depth + 1)
           right == Part(p.from + q, p.to, p.depth + 1)
<1>6. /\ left \in [from: Int, to: Int, depth: Nat] /\ right \in [from: Int, to: Int, depth: Nat]
      /\ left.from = todo[1].from /\ left.to = todo[1].from + q
      /\ right.from = todo[1].from + q /\ right.to = todo[1].to
  BY <1>4, <1>5 DEF Part
<1>7. todo' = <<left, right>> \o Tail(todo)
  BY <1>1 DEF Halves
<1> HIDE DEF left, right, p
<1>8. /\ todo' \in Seq([from: Int, to: Int, depth: Nat])
      /\ Len(todo') = Len(todo) + 1
      /\ todo'[1] = left /\ todo'[2] = right
      /\ \A n \in 3 .. Len(todo) + 1 : todo'[n] = Tail(todo)[n - 2]
  <2> DEFINE two == <<left, right>>
             rest == Tail(todo)
  <2>1. /\ two \in Seq([from: Int, to: Int, depth: Nat]) /\ Len(two) = 2
        /\ two[1] = left /\ two[2] = right
    BY <1>6
  <2>2. rest \in Seq([from: Int, to: Int, depth: Nat]) /\ Len(rest) = Len(todo) - 1
    BY <1>4
  <2>3. todo' = two \o rest
    BY <1>7
  <2> HIDE DEF two, rest
  <2>4. Len(two) + Len(rest) = Len(todo) + 1 /\ Len(todo) \in Nat \ {0}
    BY <2>1, <2>2, <1>4
  <2>5. todo' \in Seq([from: Int, to: Int, depth: Nat]) /\ Len(todo') = Len(todo) + 1
    BY <2>4, <2>1, <2>2, <2>3, InARow
  <2>6. \A n \in 1 .. Len(todo) + 1 : todo'[n] = IF n <= 2 THEN two[n] ELSE rest[n - 2]
    <3>1. \A n \in 1 .. Len(two) + Len(rest) :
              (two \o rest)[n] = IF n <= Len(two) THEN two[n] ELSE rest[n - Len(two)]
      BY <2>1, <2>2, InARow
    <3>2. \A n \in 1 .. Len(todo) + 1 :
              (two \o rest)[n] = IF n <= Len(two) THEN two[n] ELSE rest[n - Len(two)]
      BY <2>4, <3>1
    <3>3. Len(two) = 2
      BY <2>1
    <3> QED
      BY <2>3, <3>2, <3>3
  <2>7. todo'[1] = left /\ todo'[2] = right
    <3>1. 1 \in 1 .. Len(todo) + 1 /\ 2 \in 1 .. Len(todo) + 1
      BY <2>4
    <3>2. todo'[1] = two[1] /\ todo'[2] = two[2]
      BY <2>6, <3>1
    <3> QED
      BY <2>1, <3>2
  <2>8. \A n \in 3 .. Len(todo) + 1 : todo'[n] = rest[n - 2]
    BY <2>4, <2>6
  <2> QED
    BY <2>5, <2>7, <2>8 DEF rest
<1>9. Pieces'
  BY <1>2, <1>8 DEF CutIsCovered, Pieces
<1>10. ASSUME NEW c \in Nat, Covered(c)
       PROVE  Covered(c)'
  <2>1. CASE \E n \in 1..Len(results) : results[n].from <= c /\ c < results[n].to
    BY <2>1, <1>2 DEF Covered
  <2>2. CASE \E n \in 1..Len(todo) : todo[n].from <= c /\ c < todo[n].to
    <3>1. PICK n \in 1..Len(todo) : todo[n].from <= c /\ c < todo[n].to
      BY <2>2
    <3>2. CASE n = 1
      <4>1. Len(todo) \in Nat \ {0} /\ Len(todo') = Len(todo) + 1
        BY <1>4, <1>8
      <4>2. 1 \in 1..Len(todo') /\ 2 \in 1..Len(todo')
        BY <4>1
      <4>3. todo[1].from <= c /\ c < todo[1].to /\ todo[1].from \in Int
        BY <3>1, <3>2, <1>4
      <4>4. (left.from <= c /\ c < left.to) \/ (right.from <= c /\ c < right.to)
        BY <4>3, <1>5, <1>6
      <4> QED
        BY <4>2, <4>4, <1>8 DEF Covered
    <3>3. CASE n # 1
      <4>1. n + 1 \in 3 .. Len(todo) + 1 /\ n - 1 \in 1 .. Len(todo) - 1
        BY <3>3, <1>4
      <4>2. todo'[n + 1] = Tail(todo)[(n + 1) - 2] /\ Tail(todo)[n - 1] = todo[(n - 1) + 1]
        BY <4>1, <1>4, <1>8
      <4>3. n + 1 \in 1..Len(todo') /\ todo'[n + 1] = todo[n]
        BY <4>1, <4>2, <1>4, <1>8
      <4> QED
        BY <4>3, <3>1 DEF Covered
    <3> QED
      BY <3>2, <3>3
  <2> QED
    BY <1>10, <2>1, <2>2 DEF Covered
<1>11. Reach' = Reach
  BY <1>2 DEF Reach, Size
<1> QED
  BY <1>2, <1>9, <1>10, <1>11 DEF CutIsCovered

-----------------------------------------------------------------------------
\* A long text is cut from its start, a short one is asked about as a whole.
LEMMA CoverInit == Init => CutIsCovered
<1> SUFFICES ASSUME Init PROVE CutIsCovered
  OBVIOUS
<1>1. /\ text \in Texts /\ start = 0 /\ chunks = {} /\ results = <<>>
      /\ IF Size <= ChunkChars THEN pc = "asking" /\ todo = <<Part(0, Size, 0)>>
                               ELSE pc = "chunking" /\ todo = <<>>
  BY DEF Init
<1>2. Len(text) \in Nat \ {0} /\ Size \in Nat \ {0} /\ Before(0) = 0
  BY <1>1, PositionsGrow
<1>3. CASE Size <= ChunkChars
  <2>1. pc = "asking" /\ todo = <<Part(0, Size, 0)>>
    BY <1>1, <1>3
  <2>2. Part(0, Size, 0) \in [from: Int, to: Int, depth: Nat]
    BY <1>2 DEF Part
  <2>3. Pieces
    BY <1>1, <1>2, <2>1, <2>2 DEF Pieces
  <2>4. ASSUME NEW c \in Nat, c < Size
        PROVE  Covered(c)
    <3>1. 1 \in 1..Len(todo) /\ todo[1].from = 0 /\ todo[1].to = Size
      BY <2>1 DEF Part
    <3> QED
      BY <3>1, <2>4 DEF Covered
  <2> QED
    BY <1>1, <2>1, <2>3, <2>4 DEF CutIsCovered, Reach
<1>4. CASE ~(Size <= ChunkChars)
  <2>1. pc = "chunking" /\ todo = <<>>
    BY <1>1, <1>4
  <2>2. Pieces
    BY <1>1, <1>2, <2>1 DEF Pieces
  <2> QED
    BY <1>1, <1>2, <2>1, <2>2 DEF CutIsCovered, Reach
<1> QED
  BY <1>3, <1>4

\* Every step keeps the strengthened invariant.
LEMMA CoverStep == CutIsCovered /\ [Next]_vars => CutIsCovered'
<1> SUFFICES ASSUME CutIsCovered, [Next]_vars PROVE CutIsCovered'
  OBVIOUS
<1>1. CASE NextChunk
  BY <1>1, ChunkKeepsCover
<1>2. CASE Answered
  BY <1>2, AnswerKeepsCover
<1>3. CASE Halved
  BY <1>3, HalvesKeepCover
<1>4. CASE Raised
  BY <1>4 DEF Raised, CutIsCovered, Pieces, Covered, Reach, Size
<1>5. CASE Merge
  BY <1>5 DEF Merge, CutIsCovered, Pieces, Covered, Reach, Size
<1>6. CASE UNCHANGED vars
  BY <1>6 DEF vars, CutIsCovered, Pieces, Covered, Reach, Before, Size
<1> QED
  BY <1>1, <1>2, <1>3, <1>4, <1>5, <1>6 DEF Next

\* What is covered when nothing is left to do was answered.
LEMMA CoverIsEnough == CutIsCovered => NothingSkipped
<1> SUFFICES ASSUME CutIsCovered, pc = "done", NEW c \in 0 .. Size - 1
             PROVE  \E n \in 1..Len(results) : results[n].from <= c /\ c < results[n].to
  BY DEF NothingSkipped
<1>1. Size \in Nat \ {0}
  BY PositionsGrow DEF CutIsCovered, Pieces
<1>2. c \in Nat /\ c < Size
  BY <1>1
<1>3. Covered(c) /\ todo = <<>>
  BY <1>2 DEF CutIsCovered, Reach
<1> QED
  BY <1>3 DEF Covered

\* NothingSkipped for every text, size of chunks, depth and answer: however a
\* text is chunked and its parts are halved, every character of it was in a
\* part that the model answered when extract() returns.
THEOREM NothingSkippedInvariant == Spec => []NothingSkipped
<1>1. Spec => []CutIsCovered
  BY CoverInit, CoverStep, PTL DEF Spec
<1> QED
  BY <1>1, CoverIsEnough, PTL

-----------------------------------------------------------------------------
\* _chunk_text has gone through the lines at the end of a text, and still is
\* in its loop.
InTheLoop == text \in Texts /\ pc = "chunking" /\ start \in 0 .. Len(text) - 1

\* With an overlap the next chunk begins before the end of this one.
LEMMA LoopStep ==
    ASSUME ChunkChars >= 8, InTheLoop, [Next]_vars
    PROVE  InTheLoop'
<1>1. ChunkChars \in Nat /\ ChunkChars \div 8 \in Nat \ {0}
  BY SizesAssumption
<1>2. Overlap \in Nat \ {0}
  BY <1>1 DEF Overlap, Smaller
<1>3. Len(text) \in Nat \ {0}
  BY PositionsGrow DEF InTheLoop
<1>4. CASE NextChunk
  <2>1. PICK end \in start + 1 .. Len(text) :
            \E next \in start .. end : Rewinds(end, next) /\ start' = next
                /\ pc' = IF next < Len(text) THEN "chunking" ELSE "asking"
    BY <1>4, Zenon DEF NextChunk
  <2>2. PICK next \in start .. end : Rewinds(end, next) /\ start' = next
                /\ pc' = IF next < Len(text) THEN "chunking" ELSE "asking"
    BY <2>1
  <2>3. end \in 1..Len(text) /\ start < end /\ next \in 0..Len(text)
    BY <1>3 DEF InTheLoop
  <2>4. next # end
    <3> SUFFICES ASSUME next = end PROVE FALSE
      OBVIOUS
    <3>1. next # start
      BY <2>3 DEF InTheLoop
    <3>2. Before(end) - Before(end) >= Overlap
      BY <2>2, <3>1 DEF Rewinds
    <3>3. Before(end) \in Nat
      BY <2>3, PositionsGrow DEF InTheLoop
    <3> QED
      BY <1>2, <3>2, <3>3
  <2>5. next \in 0 .. Len(text) - 1
    BY <1>3, <2>3, <2>4
  <2> QED
    BY <1>3, <1>4, <2>2, <2>5 DEF InTheLoop, NextChunk
<1>5. CASE UNCHANGED vars
  BY <1>5 DEF vars, InTheLoop
<1> QED
  BY <1>4, <1>5 DEF Next, Answered, Halved, Raised, Merge, InTheLoop

\* Why ExtractionEnds fails: when chunks overlap at all, a text of more than
\* one chunk is never done with _chunk_text, so that extract() of it neither
\* returns nor raises.
THEOREM LongTextsStayInTheLoop ==
    ASSUME ChunkChars >= 8
    PROVE  Spec /\ Size > ChunkChars => [](pc = "chunking")
<1>1. Init /\ Size > ChunkChars => InTheLoop
  <2> SUFFICES ASSUME Init, Size > ChunkChars PROVE InTheLoop
    OBVIOUS
  <2>1. text \in Texts /\ start = 0
    BY DEF Init
  <2>2. Size \in Nat /\ ChunkChars \in Nat /\ Len(text) \in Nat \ {0}
    BY <2>1, PositionsGrow, SizesAssumption
  <2>3. pc = "chunking"
    BY <2>2 DEF Init
  <2> QED
    BY <2>1, <2>2, <2>3 DEF InTheLoop
<1>2. InTheLoop /\ [Next]_vars => InTheLoop'
  BY LoopStep
<1>3. InTheLoop => pc = "chunking"
  BY DEF InTheLoop
<1> QED
  BY <1>1, <1>2, <1>3, PTL DEF Spec

-----------------------------------------------------------------------------
(* The merge of the answers                                                *)

LEMMA LessIsWellFounded == IsWellFoundedOn({p \in Nat \X Nat : p[1] < p[2]}, Nat)
  BY NatLessThanWellFounded DEF OpToRel

\* Of some numbers one is the least.
LEMMA Least ==
    ASSUME NEW T, T \subseteq Nat, T # {}
    PROVE  \E x \in T : \A y \in T : x <= y
<1>. DEFINE R == {p \in Nat \X Nat : p[1] < p[2]}
<1>1. PICK x \in T : \A y \in T : ~(<<y, x>> \in R)
  <2>. HIDE DEF R
  <2>. QED  BY LessIsWellFounded, WFMin DEF R
<1>2. ASSUME NEW y \in T PROVE x <= y
  <2>1. x \in Nat /\ y \in Nat /\ ~(<<y, x>> \in R)
    BY <1>1
  <2>2. ~(y < x)
    BY <2>1
  <2>. QED  BY <2>1, <2>2
<1>. QED  BY <1>2

LEMMA ElementOf ==
    ASSUME NEW S, NEW x \in Seq(S), NEW n \in 1..Len(x)
    PROVE  x[n] \in S
  OBVIOUS

\* An entity of an answer, wherever it is, has its place among the mentions.
LEMMA MentionsOf ==
    ASSUME Pieces, NEW n \in 1..Len(results)
    PROVE  /\ \A i \in DOMAIN results[n].answer.names : <<n, i>> \in Mentions
           /\ \A r \in results[n].answer.rels :
                  r[1] \in DOMAIN results[n].answer.names /\ r[2] \in DOMAIN results[n].answer.names
<1>1. results[n].answer \in Answers
  <2>1. results \in Seq([from: Int, to: Int, answer: Answers])
    BY DEF Pieces
  <2>2. results[n] \in [from: Int, to: Int, answer: Answers]
    BY <2>1, ElementOf
  <2>. QED  BY <2>2
<1>2. PICK k \in 0..MaxNames :
          results[n].answer \in [names: [1..k -> Names],
                                 rels: SUBSET {p \in (1..k) \X (1..k) : p[1] < p[2]}]
  BY <1>1 DEF Answers
<1>3. MaxNames \in Nat
  BY SizesAssumption
<1>4. \A i \in DOMAIN results[n].answer.names : i \in 1..MaxNames
  BY <1>2, <1>3
<1>. QED  BY <1>2, <1>4 DEF Mentions

LEMMA MentionsArePairs ==
    ASSUME Pieces, NEW m \in Mentions
    PROVE  m[1] \in Nat \ {0} /\ m[2] \in Nat \ {0} /\ m = <<m[1], m[2]>>
  BY SizesAssumption DEF Pieces, Mentions

\* The first mention of a name is kept (_merge_results).
LEMMA FirstIsKept ==
    ASSUME Pieces, NEW m \in Mentions
    PROVE  \E n \in Mentions : Kept(n) /\ NameOf(n) = NameOf(m)
<1>. DEFINE Rows == {i \in Nat : \E n \in Mentions : n[1] = i /\ NameOf(n) = NameOf(m)}
<1>1. m[1] \in Rows
  BY MentionsArePairs
<1>2. PICK a \in Rows : \A i \in Rows : a <= i
  BY <1>1, Least
<1>. DEFINE Ids == {j \in Nat : \E n \in Mentions : n[1] = a /\ n[2] = j /\ NameOf(n) = NameOf(m)}
<1>3. Ids # {}
  BY <1>2, MentionsArePairs
<1>4. PICK b \in Ids : \A j \in Ids : b <= j
  BY <1>3, Least
<1>5. PICK n \in Mentions : n[1] = a /\ n[2] = b /\ NameOf(n) = NameOf(m)
  BY <1>4
<1>6. ASSUME NEW o \in Mentions, Precedes(o, n), NameOf(o) = NameOf(n) PROVE FALSE
  <2>1. o[1] \in Rows /\ o[1] \in Nat /\ o[2] \in Nat /\ a \in Nat /\ b \in Nat
    BY <1>5, <1>6, MentionsArePairs
  <2>2. a <= o[1]
    BY <1>2, <2>1
  <2>3. o[1] = a /\ o[2] < b
    BY <1>5, <1>6, <2>1, <2>2 DEF Precedes
  <2>4. o[2] \in Ids
    BY <1>5, <1>6, <2>1, <2>3
  <2>5. b <= o[2]
    BY <1>4, <2>4
  <2>. QED  BY <2>1, <2>3, <2>5
<1>. QED  BY <1>5, <1>6 DEF Kept

\* Of two mentions the later one is kept only in the first answer.
LEMMA KeptOnce ==
    ASSUME Pieces, NEW n \in Mentions, NEW o \in Mentions, Kept(n), Kept(o),
           NameOf(n) = NameOf(o), n # o
    PROVE  n[1] = 1 /\ o[1] = 1
<1>1. /\ n[1] \in Nat \ {0} /\ n[2] \in Nat \ {0} /\ o[1] \in Nat \ {0} /\ o[2] \in Nat \ {0}
      /\ n[1] # o[1] \/ n[2] # o[2]
  BY MentionsArePairs, Zenon
<1>2. CASE Precedes(n, o)
  <2>1. o[1] = 1
    BY <1>2 DEF Kept
  <2>. QED  BY <1>1, <1>2, <2>1 DEF Precedes
<1>3. CASE Precedes(o, n)
  <2>1. n[1] = 1
    BY <1>3 DEF Kept
  <2>. QED  BY <1>1, <1>3, <2>1 DEF Precedes
<1>4. Precedes(n, o) \/ Precedes(o, n)
  BY <1>1 DEF Precedes
<1>. QED  BY <1>2, <1>3, <1>4

LEMMA NamesMergedOnce == Pieces => NamedOnce
<1>. SUFFICES ASSUME Pieces, NEW m \in Mentions
              PROVE  LET same == {n \in Mentions : Kept(n) /\ NameOf(n) = NameOf(m)}
                     IN  /\ same # {}
                         /\ \A n, o \in same : n = o \/ {n[1], o[1]} = {1}
  BY DEF NamedOnce
<1>1. PICK n \in Mentions : Kept(n) /\ NameOf(n) = NameOf(m)
  BY FirstIsKept
<1>. QED  BY <1>1, KeptOnce

\* A local_id that one answer alone uses is looked up as that answer meant.
LEMMA LooksUp ==
    ASSUME Pieces, NEW n \in 1..Len(results), NEW i \in DOMAIN results[n].answer.names,
           \A m \in Mentions : Kept(m) /\ m[2] = i => m[1] = n,
           Kept(<<n, i>>), results[n].answer.names[i] \notin Invalid
    PROVE  /\ i \notin DroppedIds
           /\ Canonical(i) = {results[n].answer.names[i]}
<1>1. <<n, i>> \in Mentions /\ NameOf(<<n, i>>) = results[n].answer.names[i]
  BY MentionsOf DEF NameOf
<1>2. \A m \in Mentions : Kept(m) /\ m[2] = i => m = <<n, i>>
  BY MentionsArePairs, Zenon
<1>3. i \notin DroppedIds
  BY <1>1, <1>2 DEF DroppedIds
<1>4. <<n, i>> \in Entities /\ \A m \in Entities : m[2] = i => m = <<n, i>>
  BY <1>1, <1>2 DEF Entities
<1>5. {m \in Entities : m[2] = i /\ \A o \in Entities : o[2] = i => o[1] <= m[1]} = {<<n, i>>}
  <2>1. n <= n
    BY DEF Pieces
  <2>. QED  BY <1>4, <2>1
<1>6. Canonical(i) = {NameOf(m) : m \in {<<n, i>>}}
  BY <1>5 DEF Canonical
<1>. QED  BY <1>1, <1>3, <1>6

LEMMA RelationsFollow == Pieces => RelationshipsKept
<1>. SUFFICES ASSUME Pieces, NEW n \in 1..Len(results), NEW r \in results[n].answer.rels,
                     \A i \in {1, 2} :
                         /\ \A m \in Mentions : Kept(m) /\ m[2] = r[i] => m[1] = n
                         /\ Kept(<<n, r[i]>>) /\ results[n].answer.names[r[i]] \notin Invalid,
                     results[n].answer.names[r[1]] # results[n].answer.names[r[2]]
              PROVE  Stored(r) = {<<results[n].answer.names[r[1]], results[n].answer.names[r[2]]>>}
  BY DEF RelationshipsKept
<1>1. r[1] \in DOMAIN results[n].answer.names /\ r[2] \in DOMAIN results[n].answer.names
  BY MentionsOf
<1>2. /\ r[1] \notin DroppedIds /\ Canonical(r[1]) = {results[n].answer.names[r[1]]}
      /\ r[2] \notin DroppedIds /\ Canonical(r[2]) = {results[n].answer.names[r[2]]}
  BY <1>1, LooksUp
<1>. QED  BY <1>2 DEF Stored

\* However many answers there are and whatever they name: the merged list has
\* every name, once but for repeats within the first answer, and what an
\* answer relates is stored between the entities it named, when no other
\* answer's entity has taken their local_ids (_merge_results, step_resolve).
THEOREM MergeSaysWhatAnswersSay == Spec => []MergeIsSound
<1>1. Spec => []CutIsCovered
  BY CoverInit, CoverStep, PTL DEF Spec
<1>2. CutIsCovered => MergeIsSound
  BY NamesMergedOnce, RelationsFollow DEF CutIsCovered, MergeIsSound
<1>. QED  BY <1>1, <1>2, PTL
=============================================================================
