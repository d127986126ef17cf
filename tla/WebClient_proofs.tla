--------------------------- MODULE WebClient_proofs ---------------------------
(***************************************************************************)
(* Rings on the canvas are backed, for any people, networks and number of  *)
(* loads: whatever clicks, late answers and renderings come in between;    *)
(* and the canvas shows what was asked when no two questions overlapped.   *)
(***************************************************************************)
EXTENDS WebClient, SequenceTheorems, TLAPS

\* The shapes that matter here; what a callback sees in the cache is there.
RingsTypeOK ==
    /\ {expanded, attributes, inFlight, waiting} \subseteq SUBSET People
    /\ fetches \in [People -> Nat]
    /\ screen.attributes \subseteq attributes

RingsInv == RingsTypeOK /\ RingsAreBacked

LEMMA InitRings == Init => RingsInv
  BY DEF Init, RingsInv, RingsTypeOK, RingsAreBacked

\* Asking for attributes leaves one request in flight at most.
LEMMA EnsureRings ==
    ASSUME RingsInv, NEW p \in People, Ensure(p)
    PROVE  /\ inFlight' \in SUBSET People /\ fetches' \in [People -> Nat]
           /\ \A q \in People : fetches'[q] = IF q \in inFlight' THEN 1 ELSE 0
           /\ inFlight \subseteq inFlight'
           /\ p \in screen.attributes \/ p \in inFlight'
<1>1. CASE p \in screen.attributes \/ p \in inFlight
  BY <1>1 DEF Ensure, Fetching, RingsInv, RingsTypeOK, RingsAreBacked
<1>2. CASE ~(p \in screen.attributes \/ p \in inFlight)
  BY <1>2 DEF Ensure, Fetching, RingsInv, RingsTypeOK, RingsAreBacked
<1>. QED  BY <1>1, <1>2

LEMMA LoadRings ==
    ASSUME RingsInv, UNCHANGED attrVars, expanded' \subseteq expanded,
           UNCHANGED screen \/ screen'.attributes = attributes
    PROVE  RingsInv'
  BY DEF RingsInv, RingsTypeOK, RingsAreBacked, attrVars

LEMMA LookRings ==
    ASSUME RingsInv, NEW p \in People, Look(p)
    PROVE  RingsInv'
<1>1. Ensure(p) /\ UNCHANGED <<expanded, attributes, waiting, screen>>
  BY DEF Look
<1>. QED  BY <1>1, EnsureRings DEF RingsInv, RingsTypeOK, RingsAreBacked

LEMMA ToggleRings ==
    ASSUME RingsInv, NEW p \in People, Toggle(p)
    PROVE  RingsInv'
<1>1. screen'.attributes = attributes /\ UNCHANGED attributes
  BY DEF Toggle, Rendered
<1>2. CASE FoldIn(p)
  BY <1>1, <1>2 DEF FoldIn, RingsInv, RingsTypeOK, RingsAreBacked
<1>3. CASE FanOut(p)
  <2>1. /\ expanded' = expanded \cup {p} /\ Ensure(p)
        /\ waiting' = IF p \in screen.attributes THEN waiting ELSE waiting \cup {p}
    BY <1>3 DEF FanOut
  <2>2. RingsTypeOK'
    BY <1>1, <2>1, EnsureRings DEF RingsInv, RingsTypeOK
  <2>3. \A q \in expanded' : q \in attributes' \/ (q \in waiting' /\ q \in inFlight')
    BY <1>1, <2>1, EnsureRings DEF RingsInv, RingsTypeOK, RingsAreBacked
  <2>. QED  BY <2>1, <2>2, <2>3, EnsureRings DEF RingsInv, RingsAreBacked
<1>. QED  BY <1>2, <1>3 DEF Toggle

\* An answer caches the attributes; a failure folds in who waited for it.
LEMMA FetchRings ==
    ASSUME RingsInv, NEW p \in People, FetchAnswered(p) \/ FetchFailed(p)
    PROVE  RingsInv'
<1>1. fetches[p] > 0 /\ Answered(p)
  BY DEF FetchAnswered, FetchFailed
<1>2. p \in inFlight /\ fetches[p] = 1
  BY <1>1 DEF RingsInv, RingsAreBacked
<1>3. /\ fetches' \in [People -> Nat] /\ UNCHANGED screen
      /\ inFlight' = inFlight \ {p} /\ waiting' = waiting \ {p}
      /\ \A q \in People : fetches'[q] = IF q \in inFlight' THEN 1 ELSE 0
  BY <1>1, <1>2 DEF Answered, RingsInv, RingsTypeOK, RingsAreBacked
<1>4. CASE FetchAnswered(p)
  BY <1>3, <1>4 DEF FetchAnswered, RingsInv, RingsTypeOK, RingsAreBacked
<1>5. CASE FetchFailed(p)
  BY <1>3, <1>5 DEF FetchFailed, Folded, RingsInv, RingsTypeOK, RingsAreBacked
<1>. QED  BY <1>4, <1>5

LEMMA NextRings == RingsInv /\ [Next]_vars => RingsInv'
<1>. SUFFICES ASSUME RingsInv, [Next]_vars PROVE RingsInv'
  OBVIOUS
<1>1. CASE \E r \in People : SelectRoot(r)
  BY <1>1, LoadRings DEF SelectRoot
<1>2. CASE \E d \in 1..3 : ChangeDegree(d)
  BY <1>2, LoadRings DEF ChangeDegree
<1>3. CASE \E n \in 1..Len(loads) : LoadAnswered(n) \/ LoadFailed(n)
  <2>1. UNCHANGED attrVars /\ expanded' \subseteq expanded /\ UNCHANGED screen
    BY <1>3 DEF LoadAnswered, LoadFailed
  <2>. QED  BY <2>1, LoadRings
<1>4. CASE \E p \in People : Look(p) \/ Toggle(p) \/ FetchAnswered(p) \/ FetchFailed(p)
  BY <1>4, LookRings, ToggleRings, FetchRings
<1>5. CASE Render
  BY <1>5, LoadRings DEF Render
<1>6. CASE UNCHANGED vars
  BY <1>6, LoadRings DEF vars
<1>. QED  BY <1>1, <1>2, <1>3, <1>4, <1>5, <1>6 DEF Next

\* One request per person at a time, and no ring that stays open on nothing
\* (usePersonNetworkState).
THEOREM RingsStayBacked == Spec => []RingsAreBacked
<1>1. RingsInv => RingsAreBacked
  BY DEF RingsInv
<1>. QED  BY <1>1, InitRings, NextRings, PTL DEF Spec

-----------------------------------------------------------------------------
(* What is shown                                                           *)

\* What Append and RemoveAt do to the length.
LEMMA Appended ==
    ASSUME NEW S, NEW s \in Seq(S), NEW x \in S
    PROVE  /\ Append(s, x) \in Seq(S) /\ Append(s, x) # <<>>
           /\ s = <<>> => Len(Append(s, x)) = 1 /\ Append(s, x)[1] = x
<1>1. Append(s, x) \in Seq(S) /\ Append(s, x) # <<>>
  BY AppendProperties
<1>2. ASSUME s = <<>> PROVE Len(Append(s, x)) = 1 /\ Append(s, x)[1] = x
  <2>1. Len(s) = 0
    BY <1>2
  <2>2. Len(Append(s, x)) = Len(s) + 1 /\ Append(s, x)[Len(s) + 1] = x
    BY AppendProperties
  <2>. QED  BY <2>1, <2>2
<1>. QED  BY <1>1, <1>2

LEMMA Removed ==
    ASSUME NEW S, NEW s \in Seq(S), NEW n \in 1..Len(s)
    PROVE  RemoveAt(s, n) \in Seq(S) /\ Len(RemoveAt(s, n)) = Len(s) - 1
<1>1. Len(s) \in Nat /\ n \in Nat /\ 1 <= n /\ n <= Len(s)
  OBVIOUS
<1> DEFINE front == SubSeq(s, 1, n - 1)
           back == SubSeq(s, n + 1, Len(s))
<1>2. front \in Seq(S) /\ Len(front) = n - 1
  <2>1. \A k \in 1..n - 1 : s[k] \in S
    BY <1>1
  <2>. QED  BY <1>1, <2>1, SubSeqProperties
<1>3. back \in Seq(S) /\ Len(back) = Len(s) - n
  <2>1. \A k \in n + 1..Len(s) : s[k] \in S
    BY <1>1
  <2>. QED  BY <1>1, <2>1, SubSeqProperties
<1>4. RemoveAt(s, n) = front \o back
  BY DEF RemoveAt
<1>. HIDE DEF front, back
<1>5. front \o back \in Seq(S) /\ Len(front \o back) = Len(front) + Len(back)
  BY <1>2, <1>3, ConcatProperties
<1>6. Len(front) + Len(back) = Len(s) - 1
  BY <1>1, <1>2, <1>3
<1>. QED  BY <1>4, <1>5, <1>6

Loads == [q: Question, keep: BOOLEAN]
NetTypeOK ==
    /\ wanted \in [root: SUBSET People, degree: 1..3]
    /\ \A r, q \in wanted.root : r = q
    /\ loads \in Seq(Loads)

Asks(r) == [root |-> r, degree |-> wanted.degree]

\* One load at most is out, and it asks for what the controls show.
OneIsAsked ==
    ~overlapped =>
        /\ Len(loads) <= 1
        /\ \A r \in wanted.root : Len(loads) = 1 => loads[1].q = Asks(r)

ShownInv == NetTypeOK /\ OneIsAsked /\ ShownIsAsked

LEMMA InitShown == Init => ShownInv
  BY DEF Init, ShownInv, NetTypeOK, OneIsAsked, ShownIsAsked

\* A question that is asked on its own is the one on the controls.
LEMMA LoadShown ==
    ASSUME ShownInv, NEW r \in People, NEW d \in 1..3, NEW keep \in BOOLEAN,
           Load(r, d, keep), wanted' = [root |-> {r}, degree |-> d]
    PROVE  ShownInv'
<1> DEFINE l == [q |-> [root |-> r, degree |-> d], keep |-> keep]
<1>1. l \in Loads
  BY DEF Loads, Question
<1>2. loads' = Append(loads, l) /\ overlapped' = (loads # <<>>)
  BY DEF Load
<1>5. \A x \in wanted'.root : l.q = Asks(x)'
  BY DEF Asks
<1>. HIDE DEF l
<1>3. /\ loads' \in Seq(Loads) /\ loads' # <<>>
      /\ loads = <<>> => Len(loads') = 1 /\ loads'[1] = l
  <2>1. loads \in Seq(Loads)
    BY DEF ShownInv, NetTypeOK
  <2>. QED  BY <1>1, <1>2, <2>1, Appended
<1>4. ~overlapped' => Len(loads') = 1 /\ loads'[1] = l
  BY <1>2, <1>3
<1>6. NetTypeOK'
  <2>1. wanted' \in [root: SUBSET People, degree: 1..3] /\ wanted'.root = {r}
    OBVIOUS
  <2>. QED  BY <1>3, <2>1 DEF NetTypeOK
<1>7. OneIsAsked'
  <2>. SUFFICES ASSUME ~overlapped'
                PROVE  Len(loads') <= 1 /\ \A x \in wanted'.root : loads'[1].q = Asks(x)'
    BY DEF OneIsAsked
  <2>1. Len(loads') = 1 /\ loads'[1] = l
    BY <1>4
  <2>2. Len(loads') <= 1
    BY <2>1
  <2>. QED  BY <1>5, <2>1, <2>2 DEF Asks
<1>. QED  BY <1>3, <1>6, <1>7 DEF ShownInv, ShownIsAsked

LEMMA ChangeDegreeShown ==
    ASSUME ShownInv, NEW d \in 1..3, ChangeDegree(d)
    PROVE  ShownInv'
<1>1. wanted' = [wanted EXCEPT !.degree = d]
  BY DEF ChangeDegree
<1>2. CASE wanted.root = {} /\ UNCHANGED <<loads, overlapped>>
  BY <1>1, <1>2 DEF ShownInv, NetTypeOK, OneIsAsked, ShownIsAsked
<1>3. CASE \E r \in wanted.root : Load(r, DegreeAsked(d), TRUE)
  <2>1. PICK r \in wanted.root : Load(r, d, TRUE)
    BY <1>3 DEF DegreeAsked
  <2>2. r \in People /\ wanted' = [root |-> {r}, degree |-> d]
    BY <1>1, <2>1 DEF ShownInv, NetTypeOK
  <2>. QED  BY <2>1, <2>2, LoadShown
<1>. QED  BY <1>2, <1>3 DEF ChangeDegree

\* The answer to the only question out, or nothing, is shown.
LEMMA AnswerShown ==
    ASSUME ShownInv, NEW n \in 1..Len(loads), LoadAnswered(n) \/ LoadFailed(n)
    PROVE  ShownInv'
<1>1. /\ loads' = RemoveAt(loads, n) /\ UNCHANGED <<wanted, overlapped>>
      /\ network' = loads[n].q \/ network' = NoNetwork
  BY DEF LoadAnswered, LoadFailed
<1>2. loads' \in Seq(Loads) /\ Len(loads') = Len(loads) - 1
  BY <1>1, Removed DEF ShownInv, NetTypeOK
<1>3. NetTypeOK'
  BY <1>1, <1>2 DEF ShownInv, NetTypeOK
<1>4. Len(loads) \in Nat
  BY DEF ShownInv, NetTypeOK
<1>5. Len(loads) <= 1 => n = 1 /\ Len(loads) = 1 /\ Len(loads') = 0
  BY <1>2, <1>4
<1>6. ASSUME ~overlapped' PROVE OneIsAsked' /\ ShownIsAsked'
  <2>1. /\ Len(loads) <= 1
        /\ \A r \in wanted.root : Len(loads) = 1 => loads[1].q = Asks(r)
    BY <1>1, <1>6 DEF ShownInv, OneIsAsked
  <2>2. Len(loads') <= 1 /\ Len(loads') # 1
    BY <1>5, <2>1
  <2>3. \A r \in wanted.root : network' \in {NoNetwork, Asks(r)}
    BY <1>1, <1>5, <2>1
  <2>. QED  BY <1>1, <2>2, <2>3 DEF OneIsAsked, ShownIsAsked, Asks
<1>7. overlapped' => OneIsAsked' /\ ShownIsAsked'
  BY DEF OneIsAsked, ShownIsAsked
<1>. QED  BY <1>3, <1>6, <1>7 DEF ShownInv

LEMMA NextShown == ShownInv /\ [Next]_vars => ShownInv'
<1>. SUFFICES ASSUME ShownInv, [Next]_vars PROVE ShownInv'
  OBVIOUS
<1>1. ASSUME NEW r \in People, SelectRoot(r) PROVE ShownInv'
  <2>1. wanted.degree \in 1..3 /\ wanted' = [root |-> {r}, degree |-> wanted.degree]
    BY <1>1 DEF SelectRoot, ShownInv, NetTypeOK
  <2>. QED  BY <1>1, <2>1, LoadShown DEF SelectRoot
<1>2. CASE \E d \in 1..3 : ChangeDegree(d)
  BY <1>2, ChangeDegreeShown
<1>3. CASE \E n \in 1..Len(loads) : LoadAnswered(n) \/ LoadFailed(n)
  BY <1>3, AnswerShown
<1>4. CASE \/ \E p \in People : Look(p) \/ Toggle(p) \/ FetchAnswered(p) \/ FetchFailed(p)
           \/ Render \/ UNCHANGED vars
  <2>1. UNCHANGED <<netVars, network>>
    BY <1>4 DEF Look, Toggle, FetchAnswered, FetchFailed, Answered, Render, vars
  <2>. QED  BY <2>1 DEF netVars, ShownInv, NetTypeOK, OneIsAsked, ShownIsAsked, Asks
<1>. QED  BY <1>1, <1>2, <1>3, <1>4 DEF Next

\* When nothing is out and no two questions overlapped, the canvas shows what
\* the controls ask for, or nothing (loadNetwork, setNetwork).
THEOREM CanvasAnswers == Spec => []ShownIsAsked
<1>1. ShownInv => ShownIsAsked
  BY DEF ShownInv
<1>. QED  BY <1>1, InitShown, NextShown, PTL DEF Spec
=============================================================================
