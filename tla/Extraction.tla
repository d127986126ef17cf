----------------------------- MODULE Extraction -----------------------------
(***************************************************************************)
(* extract() of ingestion_core/extraction.py on one text: the loop that    *)
(* cuts it into chunks, the LLM calls with the halving of parts the model  *)
(* cannot answer, and the merge of the answers, up to the entities and     *)
(* relationships that normalize_extraction leaves and step_resolve looks   *)
(* up by local_id.                                                         *)
(*                                                                         *)
(* A text is the sequence of the positions where its lines end; a part of  *)
(* it is an interval of positions.  An answer names entities in order, the *)
(* n-th has the local_id n ("e1", "e2", ..., extraction.py:29).            *)
(***************************************************************************)
EXTENDS Naturals, Sequences, FiniteSets

CONSTANTS
    Texts,          \* the texts considered: where their lines end
    ChunkChars,     \* EXTRACT_CHUNK_CHARS
    MaxDepth,       \* how often a part is halved, at most (4)
    MinPart,        \* parts shorter than this are not halved (1500)
    Names,          \* (type, name) of entities an answer may name
    Invalid,        \* those that normalize_extraction drops
    MaxNames        \* bound: entities in an answer

IsText(x) ==
    /\ x \in Seq(Nat \ {0}) /\ x # <<>>
    /\ \A i, j \in 1..Len(x) : i < j => x[i] < x[j]

ASSUME TextsAssumption == \A x \in Texts : IsText(x)
ASSUME SizesAssumption == {ChunkChars, MaxDepth, MinPart, MaxNames} \subseteq Nat
ASSUME InvalidAssumption == Invalid \subseteq Names

VARIABLES
    text,       \* the text: where its lines end
    pc,         \* "chunking", "asking", "done" or "raised"
    start,      \* chunking: lines before the next chunk
    chunks,     \* chunking: chunks so far
    todo,       \* parts to ask the model about, the next one first
    results     \* parts that were answered, with their answers, in order

vars == <<text, pc, start, chunks, todo, results>>

Before(i) == IF i = 0 THEN 0 ELSE text[i]
Size == text[Len(text)]

\* Chunks and parts are counted from position 0; depth counts the halvings.
Part(from, to, depth) == [from |-> from, to |-> to, depth |-> depth]

\* An answer as _build_result keeps it: relationships between its entities.
Answers ==
    UNION {[names: [1..k -> Names],
            rels: SUBSET {p \in (1..k) \X (1..k) : p[1] < p[2]}] : k \in 0..MaxNames}

TypeOK ==
    /\ text \in Texts
    /\ pc \in {"chunking", "asking", "done", "raised"}
    /\ start \in 0..Len(text)
    /\ chunks \subseteq (0..Size) \X (0..Size)
    /\ todo \in Seq([from: 0..Size, to: 0..Size, depth: 0..MaxDepth])
    /\ results \in Seq([from: 0..Size, to: 0..Size, answer: Answers])

\* A text of one chunk is not chunked.
Init ==
    /\ text \in Texts
    /\ start = 0
    /\ chunks = {}
    /\ results = <<>>
    /\ IF Size <= ChunkChars
       THEN pc = "asking" /\ todo = <<Part(0, Size, 0)>>
       ELSE pc = "chunking" /\ todo = <<>>

-----------------------------------------------------------------------------
(* _chunk_text                                                             *)

Smaller(a, b) == IF a <= b THEN a ELSE b

\* Mutant of Overlap: there always is an overlap.
OverlapAtLeastOne == IF ChunkChars \div 8 = 0 THEN 1 ELSE Smaller(500, ChunkChars \div 8)

Overlap == Smaller(500, ChunkChars \div 8)

\* A chunk takes lines until it has ChunkChars characters.
Takes(end) ==
    /\ end = Len(text) \/ Before(end) - Before(start) >= ChunkChars
    /\ \A j \in start + 1 .. end - 1 : Before(j) - Before(start) < ChunkChars

\* The next one begins so many lines back that Overlap characters are in both.
Rewinds(end, next) ==
    /\ next = start \/ Before(end) - Before(next) >= Overlap
    /\ \A j \in next + 1 .. end : Before(end) - Before(j) < Overlap

\* The list of chunks is kept without its repeats: when the loop comes to the
\* same chunk again, this is a step that changes nothing, and it is for ever.
NextChunk ==
    /\ pc = "chunking"
    /\ \E end \in start + 1 .. Len(text) : \E next \in start .. end :
           LET chunk == <<Before(start), Before(end)>>
           IN  /\ Takes(end)
               /\ Rewinds(end, next)
               /\ chunks' = chunks \cup {chunk}
               /\ todo' = IF chunk \in chunks THEN todo
                          ELSE Append(todo, Part(chunk[1], chunk[2], 0))
               /\ start' = next
               /\ pc' = IF next < Len(text) THEN "chunking" ELSE "asking"
    /\ UNCHANGED <<text, results>>

-----------------------------------------------------------------------------
(* _extract_part                                                           *)

\* A line ends with its newline, the last one without.
Newlines(p) ==
    {q \in 1 .. (p.to - p.from - 1) : \E i \in 1 .. Len(text) - 1 : text[i] = p.from + q + 1}

\* _split_in_half: at the last newline before the middle, else at the first
\* one after it, else in the middle.
Cut(p) ==
    LET half == (p.to - p.from) \div 2
        left == {q \in Newlines(p) : q <= half}
        right == {q \in Newlines(p) : q >= half}
    IN  IF left # {} THEN {q \in left : \A r \in left : r <= q}
        ELSE IF right # {} THEN {q \in right : \A r \in right : q <= r}
        ELSE {half}

\* Mutant of Halves: the newline between the halves is left out, and with a
\* cut inside a line a character of it.
HalvesApart(p, q) ==
    <<Part(p.from, p.from + q, p.depth + 1), Part(p.from + q + 1, p.to, p.depth + 1)>>

Halves(p, q) ==
    <<Part(p.from, p.from + q, p.depth + 1), Part(p.from + q, p.to, p.depth + 1)>>

Answered ==
    /\ pc = "asking"
    /\ todo # <<>>
    /\ \E a \in Answers :
           results' = Append(results, [from |-> Head(todo).from, to |-> Head(todo).to, answer |-> a])
    /\ todo' = Tail(todo)
    /\ UNCHANGED <<text, pc, start, chunks>>

Halvable(p) == p.depth < MaxDepth /\ p.to - p.from >= MinPart

\* LLMOutputError: no usable answer, and the part may be halved.
Halved ==
    LET p == Head(todo)
    IN  /\ pc = "asking"
        /\ todo # <<>>
        /\ Halvable(p)
        /\ \E q \in Cut(p) : todo' = Halves(p, q) \o Tail(todo)
        /\ UNCHANGED <<text, pc, start, chunks, results>>

\* It is not, or another error: extract() raises.
Raised ==
    /\ pc = "asking"
    /\ todo # <<>>
    /\ pc' = "raised"
    /\ UNCHANGED <<text, start, chunks, todo, results>>

Merge ==
    /\ pc = "asking"
    /\ todo = <<>>
    /\ pc' = "done"
    /\ UNCHANGED <<text, start, chunks, todo, results>>

Next == NextChunk \/ Answered \/ Halved \/ Raised \/ Merge

Spec == Init /\ [][Next]_vars

\* extract() is one thread that nothing holds up; LLM calls have a timeout.
FairSpec == Spec /\ WF_vars(Next)

-----------------------------------------------------------------------------
(* _merge_results, normalize_extraction and the look-up in step_resolve    *)

\* The entities of all answers: <<result, local_id>>, in the order of the list.
Mentions ==
    {m \in (1..Len(results)) \X (1..MaxNames) : m[2] \in DOMAIN results[m[1]].answer.names}
Precedes(m, n) == m[1] < n[1] \/ (m[1] = n[1] /\ m[2] < n[2])
NameOf(m) == results[m[1]].answer.names[m[2]]

\* Mutant of Kept: seen_entities stays what it was after the first answer.
KeptAgainstFirst(m) ==
    m[1] = 1 \/ \A n \in Mentions : n[1] = 1 => NameOf(n) # NameOf(m)

\* merged.entities: the first answer's, then each name once.
Kept(m) == m[1] = 1 \/ \A n \in Mentions : Precedes(n, m) => NameOf(n) # NameOf(m)

Entities == {m \in Mentions : Kept(m) /\ NameOf(m) \notin Invalid}

\* local_to_canonical: the last entity with the local_id has it.
Canonical(lid) ==
    {NameOf(m) : m \in {n \in Entities : n[2] = lid /\ \A o \in Entities : o[2] = lid => o[1] <= n[1]}}

\* Relationships of all answers are put together; one is dropped when an
\* entity with the local_id of one of its ends is.
DroppedIds == {m[2] : m \in {n \in Mentions : Kept(n) /\ NameOf(n) \in Invalid}}
Stored(r) ==
    IF \E i \in {1, 2} : r[i] \in DroppedIds THEN {}
    ELSE {p \in Canonical(r[1]) \X Canonical(r[2]) : p[1] # p[2]}

-----------------------------------------------------------------------------
(* Properties                                                              *)

\* No part of the text is lost to the cuts: when extract() returns, every
\* character was in a part that the model answered.
NothingSkipped ==
    pc = "done" =>
        \A c \in 0 .. Size - 1 : \E n \in 1..Len(results) : results[n].from <= c /\ c < results[n].to

\* "Even across chunks, the same entity appearing multiple times should be
\* deduplicated by (type, name)" (test_evidence_pipeline_e2e.py:409): what an
\* answer names is in the merged list, and once, except for the repeats within
\* the first answer, which the merge starts from as it is.
NamedOnce ==
    \A m \in Mentions :
        LET same == {n \in Mentions : Kept(n) /\ NameOf(n) = NameOf(m)}
        IN  /\ same # {}
            /\ \A n, o \in same : n = o \/ {n[1], o[1]} = {1}

\* "Relationships reference entities by local_id only" (extraction.py:44), and
\* every answer counts its entities anew: what an answer relates is stored
\* between these two entities, if the merge kept both and no other answer's
\* entity that it kept has the local_id of one of them.
RelationshipsKept ==
    \A n \in 1..Len(results) : \A r \in results[n].answer.rels :
        LET name(i) == results[n].answer.names[r[i]]
            Unmistaken(i) ==
                /\ \A m \in Mentions : Kept(m) /\ m[2] = r[i] => m[1] = n
                /\ Kept(<<n, r[i]>>) /\ name(i) \notin Invalid
        IN  Unmistaken(1) /\ Unmistaken(2) /\ name(1) # name(2)
                => Stored(r) = {<<name(1), name(2)>>}

\* The merged list is what the answers say, as far as their numbers allow.
MergeIsSound == pc = "done" => NamedOnce /\ RelationshipsKept

\* extract() returns or raises, whatever the length of the text.
ExtractionEnds == <>(pc \in {"done", "raised"})
=============================================================================
