------------------------- MODULE Investigation_proofs -------------------------
(***************************************************************************)
(* The answers of an investigation are right on every graph.  The search   *)
(* for the strongest chain is certified at every step (Certified), raises  *)
(* only where there is no way (RaisedWhenApart), returns the strongest.    *)
(* The network is breadth-first search over the projection, its links say  *)
(* why, and risk and attributes are read off it.                           *)
(*                                                                         *)
(* Certified is not inductive: that the least element of the heap belongs  *)
(* to the nearest person who is not settled has to be carried along        *)
(* (HeapIsSound, HeapIsComplete).  Neither are the properties of the       *)
(* network: ProjectionInv is what one level rests on.                      *)
(***************************************************************************)
EXTENDS Investigation, FiniteSetTheorems, WellFoundedInduction, TLAPS

\* A link's cost is a number, and nothing was reached before a search began.
CostsAreNumbers == \A u, v \in Nodes : Linked(u, v) => cost[{u, v}] \in Nat
Fresh == phase = "idle" => DOMAIN best = {} /\ DOMAIN from = {} /\ visited = {} /\ path = <<>>

\* The source is at no distance, and who is settled was reached.
SourceIsReached ==
    phase # "idle" =>
        /\ ends.source \in DOMAIN best
        /\ visited \subseteq DOMAIN best

\* An element of the heap is of a person reached, and no better than the best.
HeapIsSound == \A x \in heap : x.v \in DOMAIN best /\ ~Less(x, best[x.v])

\* Whoever was reached and is not settled is in the heap, at the best.
HeapIsComplete ==
    \A v \in DOMAIN best \ visited : [w |-> best[v].w, h |-> best[v].h, v |-> v] \in heap

\* The walk back either follows came_from among people who were reached, or
\* the heap ran out before the target was.
WalkIsKnown ==
    /\ phase = "search" => path = <<>>
    /\ phase \in {"walk", "found", "raised"} =>
           \/ ends.target \in visited /\ \A n \in 1..Len(path) : path[n] \in DOMAIN best
           \/ ends.target \notin visited /\ heap = {}
    /\ phase = "raised" => ends.target \notin visited

SearchInv ==
    /\ PathTypeOK /\ CostsAreNumbers /\ Fresh /\ SourceIsReached
    /\ HeapIsSound /\ HeapIsComplete /\ WalkIsKnown /\ Relaxed /\ Ordered /\ Traced

-----------------------------------------------------------------------------
(* The order of tuples                                                     *)

\* A way that goes on is a longer way.
LEMMA ViaGrows ==
    ASSUME PathTypeOK, CostsAreNumbers, NEW u \in Nodes, NEW v \in Nodes,
           u \in DOMAIN best, Linked(u, v)
    PROVE  Via(u, v) \in Key /\ Less(best[u], Via(u, v))
<1>1. best[u] \in Key
  BY DEF PathTypeOK
<1>2. cost[{u, v}] \in Nat
  BY DEF CostsAreNumbers
<1>. QED  BY <1>1, <1>2 DEF Via, Less, Key

\* The order is total, on whatever has a weight and hops.
LEMMA NotLessTransitive ==
    ASSUME NEW a, NEW b, NEW c, {a.w, a.h, b.w, b.h, c.w, c.h} \subseteq Nat,
           ~Less(b, a), ~Less(c, b)
    PROVE  ~Less(c, a)
  BY DEF Less

LEMMA LessNotLess ==
    ASSUME NEW a, NEW b, {a.w, a.h, b.w, b.h} \subseteq Nat, Less(a, b)
    PROVE  ~Less(b, a)
  BY DEF Less

-----------------------------------------------------------------------------
(* Beginning                                                               *)

LEMMA InitSearchInv == PathInit => SearchInv
<1>. SUFFICES ASSUME PathInit PROVE SearchInv
  OBVIOUS
<1>1. DOMAIN best = {} /\ DOMAIN from = {} /\ DOMAIN cost = {} /\ visited = {} /\ heap = {} /\ path = <<>>
  BY DEF PathInit, Nothing
<1>2. best \in [DOMAIN best -> Key] /\ from \in [DOMAIN from -> Nodes]
  BY DEF PathInit, Nothing
<1>3. PathTypeOK
  BY <1>1, <1>2 DEF PathInit, PathTypeOK
<1>. QED
  BY <1>1, <1>3 DEF PathInit, SearchInv, CostsAreNumbers, Fresh, SourceIsReached, HeapIsSound,
                    HeapIsComplete, WalkIsKnown, Relaxed, Ordered, Traced, Linked

\* The source alone is reached; nobody is settled.
LEMMA BeginSearchInv ==
    ASSUME SearchInv, NEW s \in Nodes, NEW t \in Nodes, NEW c,
           \A u, v \in Nodes : u # v /\ {u, v} \in DOMAIN c => c[{u, v}] \in Nat,
           Begin(s, t, c)
    PROVE  SearchInv'
<1>1. DOMAIN best' = {s} /\ best'[s] = [w |-> 0, h |-> 0] /\ best' \in [{s} -> Key]
  BY DEF Begin, Key
<1>2. /\ DOMAIN from' = {} /\ visited' = {} /\ from' = from /\ path' = path /\ path = <<>>
      /\ heap' = {[w |-> 0, h |-> 0, v |-> s]} /\ phase' = "search" /\ cost' = c
      /\ ends' = [source |-> s, target |-> t]
  BY DEF Begin, SearchInv, Fresh
<1>3. PathTypeOK'
  BY <1>1, <1>2 DEF SearchInv, PathTypeOK
<1>4. CostsAreNumbers'
  BY <1>2 DEF CostsAreNumbers, Linked
<1>5. Fresh' /\ SourceIsReached' /\ WalkIsKnown'
  BY <1>1, <1>2 DEF Fresh, SourceIsReached, WalkIsKnown
<1>6. HeapIsSound'
  BY <1>1, <1>2 DEF HeapIsSound, Less
<1>7. HeapIsComplete'
  BY <1>1, <1>2 DEF HeapIsComplete
<1>8. Relaxed' /\ Ordered' /\ Traced'
  BY <1>1, <1>2 DEF Relaxed, Ordered, Traced
<1>. QED  BY <1>3, <1>4, <1>5, <1>6, <1>7, <1>8 DEF SearchInv

-----------------------------------------------------------------------------
(* Popping an element                                                      *)

\* Who is popped, and was not settled, is at the best distance known and is
\* the nearest of those who are not settled.
LEMMA LeastIsNearest ==
    ASSUME SearchInv, NEW x \in heap, Least(x), x.v \notin visited
    PROVE  /\ x.v \in DOMAIN best /\ x.v \in Nodes
           /\ \A v \in DOMAIN best \ visited : ~Less(best[v], best[x.v])
<1>. DEFINE entry(v) == [w |-> best[v].w, h |-> best[v].h, v |-> v]
<1>1. x.v \in DOMAIN best /\ ~Less(x, best[x.v])
  BY DEF SearchInv, HeapIsSound
<1>2. x.v \in Nodes /\ x.w \in Nat /\ x.h \in Nat
  BY DEF SearchInv, PathTypeOK
<1>3. ASSUME NEW v \in DOMAIN best \ visited
      PROVE  ~Less(best[v], best[x.v])
  <2>1. entry(v) \in heap
    BY DEF SearchInv, HeapIsComplete
  <2>2. ~Less(entry(v), x)
    BY <2>1 DEF Least
  <2>3. ~Less(best[v], x)
    BY <2>2 DEF Less
  <2>4. {best[v].w, best[v].h, best[x.v].w, best[x.v].h} \subseteq Nat
    BY <1>1 DEF SearchInv, PathTypeOK, Key
  <2>. QED  BY <1>1, <1>2, <2>3, <2>4, NotLessTransitive
<1>. QED  BY <1>1, <1>2, <1>3

\* An element of a person who is settled is dropped.
LEMMA SkipSearchInv ==
    ASSUME SearchInv, phase = "search", NEW x \in heap, Skip(x), UNCHANGED <<ends, cost, path>>
    PROVE  SearchInv'
<1>1. heap' \subseteq heap /\ UNCHANGED <<phase, visited, best, from, ends, cost, path>>
  BY DEF Skip
<1>2. PathTypeOK' /\ CostsAreNumbers' /\ Fresh' /\ SourceIsReached' /\ HeapIsSound'
  BY <1>1 DEF SearchInv, PathTypeOK, CostsAreNumbers, Linked, Fresh, SourceIsReached, HeapIsSound
<1>3. HeapIsComplete'
  BY <1>1 DEF SearchInv, HeapIsComplete, Skip
<1>4. WalkIsKnown' /\ Relaxed' /\ Ordered' /\ Traced'
  BY <1>1 DEF SearchInv, WalkIsKnown, Relaxed, Ordered, Traced, Linked, Via
<1>. QED  BY <1>2, <1>3, <1>4 DEF SearchInv

\* The target is popped: nobody who is not settled is nearer.
LEMMA ArriveSearchInv ==
    ASSUME SearchInv, phase = "search", NEW x \in heap, Least(x), Arrive(x),
           UNCHANGED <<ends, cost, path>>
    PROVE  SearchInv'
<1>1. /\ x.v \in DOMAIN best /\ x.v \in Nodes
      /\ \A v \in DOMAIN best \ visited : ~Less(best[v], best[x.v])
  BY LeastIsNearest DEF Arrive
<1>2. /\ heap' = heap \ {x} /\ visited' = visited \cup {ends.target} /\ x.v = ends.target
      /\ phase' = "walk" /\ UNCHANGED <<best, from, ends, cost, path>>
  BY DEF Arrive
<1>3. PathTypeOK' /\ CostsAreNumbers' /\ Fresh' /\ SourceIsReached' /\ HeapIsSound'
  BY <1>1, <1>2 DEF SearchInv, PathTypeOK, CostsAreNumbers, Linked, Fresh, SourceIsReached, HeapIsSound
<1>4. HeapIsComplete'
  BY <1>1, <1>2 DEF SearchInv, HeapIsComplete
<1>5. WalkIsKnown'
  BY <1>2 DEF SearchInv, WalkIsKnown
<1>6. Relaxed' /\ Traced'
  BY <1>2 DEF SearchInv, Relaxed, Traced, Linked, Via
<1>7. Ordered'
  BY <1>1, <1>2 DEF SearchInv, Ordered
<1>. QED  BY <1>3, <1>4, <1>5, <1>6, <1>7 DEF SearchInv

\* A person is settled, and the people it is linked to may be nearer by it.
LEMMA SettleSearchInv ==
    ASSUME SearchInv, phase = "search", NEW x \in heap, Least(x), Settle(x),
           UNCHANGED <<ends, cost, path>>
    PROVE  SearchInv'
<1>. DEFINE u == x.v
            I == Improved(u)
<1>1. /\ u \in DOMAIN best /\ u \in Nodes /\ u \notin visited /\ u # ends.target
      /\ \A v \in DOMAIN best \ visited : ~Less(best[v], best[u])
  BY LeastIsNearest DEF Settle
<1>2. /\ visited' = visited \cup {u}
      /\ best' = [v \in DOMAIN best \cup I |-> IF v \in I THEN Via(u, v) ELSE best[v]]
      /\ from' = [v \in DOMAIN from \cup I |-> IF v \in I THEN u ELSE from[v]]
      /\ heap' = (heap \ {x}) \cup {[w |-> Via(u, v).w, h |-> Via(u, v).h, v |-> v] : v \in I}
      /\ UNCHANGED <<phase, ends, cost, path>>
  BY DEF Settle
<1>3. /\ I \subseteq Nodes \ (visited \cup {u})
      /\ \A v \in I : Linked(u, v) /\ (v \in DOMAIN best => Less(Via(u, v), best[v]))
  BY DEF Improved
<1>4. \A v \in Nodes : Linked(u, v) => Via(u, v) \in Key /\ Less(best[u], Via(u, v))
  BY <1>1, ViaGrows DEF SearchInv
<1>5. DOMAIN best \subseteq Nodes /\ visited \subseteq DOMAIN best
      /\ \A v \in DOMAIN best : best[v] \in Key /\ best[v].w \in Nat /\ best[v].h \in Nat
  BY DEF SearchInv, PathTypeOK, SourceIsReached, Key
<1>. HIDE DEF I, u
<1>6. /\ DOMAIN best' = DOMAIN best \cup I
      /\ DOMAIN from' = DOMAIN from \cup I
      /\ \A v \in DOMAIN best' : best'[v] = IF v \in I THEN Via(u, v) ELSE best[v]
      /\ \A v \in DOMAIN from' : from'[v] = IF v \in I THEN u ELSE from[v]
      /\ \A v \in visited' : best'[v] = best[v] /\ v \in DOMAIN best
  BY <1>1, <1>2, <1>3, <1>5
<1>7. PathTypeOK'
  <2>1. best' \in [DOMAIN best' -> Key]
    BY <1>2, <1>3, <1>4, <1>5
  <2>2. from' \in [DOMAIN from' -> Nodes]
    BY <1>1, <1>2 DEF SearchInv, PathTypeOK
  <2>3. heap' \subseteq [w: Nat, h: Nat, v: Nodes]
    <3>1. \A v \in I : Via(u, v).w \in Nat /\ Via(u, v).h \in Nat
      BY <1>3, <1>4 DEF Key
    <3>. QED  BY <1>2, <1>3, <3>1 DEF SearchInv, PathTypeOK
  <2>4. DOMAIN best' \subseteq Nodes /\ DOMAIN from' \subseteq Nodes /\ visited' \subseteq Nodes
    BY <1>1, <1>2, <1>3, <1>5, <1>6 DEF SearchInv, PathTypeOK
  <2>. QED  BY <1>2, <2>1, <2>2, <2>3, <2>4 DEF SearchInv, PathTypeOK
<1>8. CostsAreNumbers' /\ Fresh' /\ WalkIsKnown'
  BY <1>2 DEF SearchInv, CostsAreNumbers, Fresh, WalkIsKnown, Linked
<1>9. SourceIsReached'
  BY <1>1, <1>2, <1>5, <1>6 DEF SearchInv, SourceIsReached
<1>10. \A v \in DOMAIN best : v \in I => Less(best'[v], best[v])
  BY <1>3, <1>6
<1>11. HeapIsSound'
  <2>. SUFFICES ASSUME NEW y \in heap' PROVE y.v \in DOMAIN best' /\ ~Less(y, best'[y.v])
    BY DEF HeapIsSound
  <2>1. CASE y \in heap
    <3>1. y.v \in DOMAIN best /\ ~Less(y, best[y.v]) /\ y.w \in Nat /\ y.h \in Nat
      BY <2>1 DEF SearchInv, HeapIsSound, PathTypeOK
    <3>2. CASE y.v \in I
      <4>1. Less(best'[y.v], best[y.v]) /\ best'[y.v].w \in Nat /\ best'[y.v].h \in Nat
        BY <1>3, <1>4, <1>6, <1>10, <3>1, <3>2 DEF Key
      <4>2. ~Less(best[y.v], best'[y.v])
        BY <1>5, <3>1, <4>1, LessNotLess
      <4>. QED  BY <1>5, <1>6, <3>1, <4>1, <4>2, NotLessTransitive
    <3>. QED  BY <1>6, <3>1, <3>2
  <2>2. CASE \E v \in I : y = [w |-> Via(u, v).w, h |-> Via(u, v).h, v |-> v]
    <3>. PICK v \in I : y = [w |-> Via(u, v).w, h |-> Via(u, v).h, v |-> v]
      BY <2>2
    <3>1. Via(u, v).w \in Nat /\ Via(u, v).h \in Nat /\ best'[v] = Via(u, v) /\ v \in DOMAIN best'
      BY <1>3, <1>4, <1>6 DEF Key
    <3>. QED  BY <3>1 DEF Less
  <2>. QED  BY <1>2, <2>1, <2>2
<1>12. HeapIsComplete'
  <2>. SUFFICES ASSUME NEW v \in DOMAIN best' \ visited'
                PROVE  [w |-> best'[v].w, h |-> best'[v].h, v |-> v] \in heap'
    BY DEF HeapIsComplete
  <2>1. CASE v \in I
    BY <1>2, <1>6, <2>1
  <2>2. CASE v \notin I
    <3>1. v \in DOMAIN best \ visited /\ v # u /\ best'[v] = best[v]
      BY <1>2, <1>6, <2>2
    <3>2. [w |-> best[v].w, h |-> best[v].h, v |-> v] \in heap \ {x}
      BY <3>1 DEF SearchInv, HeapIsComplete, u
    <3>. QED  BY <1>2, <3>1, <3>2
  <2>. QED  BY <2>1, <2>2
<1>13. Relaxed'
  <2>. SUFFICES ASSUME NEW a \in visited', a # ends.target, NEW v \in Nodes, Linked(a, v)
                PROVE  v \in DOMAIN best' /\ ~Less(Via(a, v)', best'[v])
    BY <1>2 DEF Relaxed, Linked
  <2>1. Via(a, v)' = Via(a, v) /\ Via(a, v) \in Key /\ Less(best[a], Via(a, v)) /\ a \in DOMAIN best
    BY <1>2, <1>5, <1>6, ViaGrows DEF Via, SearchInv
  <2>2. CASE a \in visited
    <3>1. v \in DOMAIN best /\ ~Less(Via(a, v), best[v])
      BY <2>2 DEF SearchInv, Relaxed
    <3>2. CASE v \in I
      <4>1. Less(best'[v], best[v]) /\ best'[v].w \in Nat /\ best'[v].h \in Nat
        BY <1>3, <1>4, <1>6, <1>10, <3>1, <3>2 DEF Key
      <4>2. ~Less(best[v], best'[v])
        BY <1>5, <3>1, <4>1, LessNotLess
      <4>3. Via(a, v).w \in Nat /\ Via(a, v).h \in Nat
        BY <2>1 DEF Key
      <4>. QED  BY <1>5, <1>6, <2>1, <3>1, <4>1, <4>2, <4>3, NotLessTransitive
    <3>. QED  BY <1>6, <2>1, <3>1, <3>2
  <2>3. CASE a = u
    <3>1. v # u
      BY <2>3 DEF Linked
    <3>2. CASE v \in I
      <4>1. best'[v] = Via(u, v) /\ v \in DOMAIN best' /\ Via(u, v).w \in Nat /\ Via(u, v).h \in Nat
        BY <1>6, <2>1, <2>3, <3>2 DEF Key
      <4>. QED  BY <2>1, <2>3, <4>1 DEF Less
    <3>3. CASE v \notin I /\ v \notin visited
      <4>1. v \in DOMAIN best /\ ~Less(Via(u, v), best[v])
        BY <2>3, <3>1, <3>3 DEF Improved, I
      <4>. QED  BY <1>6, <2>1, <2>3, <3>3, <4>1
    <3>4. CASE v \notin I /\ v \in visited
      <4>1. v \in DOMAIN best /\ ~Less(best[u], best[v])
        BY <1>1, <1>5, <3>4 DEF SearchInv, Ordered
      <4>2. Less(best[u], Via(u, v)) /\ Via(u, v).w \in Nat /\ Via(u, v).h \in Nat
        BY <2>1, <2>3 DEF Key
      <4>3. ~Less(Via(u, v), best[u])
        BY <1>1, <1>5, <4>2, LessNotLess
      <4>4. ~Less(Via(u, v), best[v])
        BY <1>1, <1>5, <4>1, <4>2, <4>3, NotLessTransitive
      <4>. QED  BY <1>6, <2>1, <2>3, <3>4, <4>1, <4>4
    <3>. QED  BY <3>2, <3>3, <3>4
  <2>. QED  BY <1>2, <2>2, <2>3
<1>14. Ordered'
  <2>. SUFFICES ASSUME NEW a \in visited', NEW v \in DOMAIN best' \ visited'
                PROVE  ~Less(best'[v], best'[a])
    BY DEF Ordered
  <2>1. ~Less(best[u], best[a]) /\ a \in DOMAIN best /\ best'[a] = best[a]
    <3>1. CASE a \in visited
      BY <1>1, <1>5, <1>6, <3>1 DEF SearchInv, Ordered
    <3>2. CASE a = u
      BY <1>1, <1>5, <1>6, <3>2 DEF Less
    <3>. QED  BY <1>2, <3>1, <3>2
  <2>2. ~Less(best'[v], best[u]) /\ best'[v].w \in Nat /\ best'[v].h \in Nat
    <3>1. CASE v \in I
      <4>1. best'[v] = Via(u, v) /\ Less(best[u], Via(u, v)) /\ Via(u, v).w \in Nat /\ Via(u, v).h \in Nat
        BY <1>3, <1>4, <1>6, <3>1 DEF Key
      <4>. QED  BY <1>1, <1>5, <4>1, LessNotLess
    <3>2. CASE v \notin I
      <4>1. v \in DOMAIN best \ visited /\ best'[v] = best[v]
        BY <1>2, <1>6, <3>2
      <4>. QED  BY <1>1, <1>5, <4>1
    <3>. QED  BY <3>1, <3>2
  <2>. QED  BY <1>1, <1>5, <2>1, <2>2, NotLessTransitive
<1>15. Traced'
  <2>1. DOMAIN best' \subseteq DOMAIN from' \cup {ends'.source}
    BY <1>2, <1>6 DEF SearchInv, Traced
  <2>2. ASSUME NEW v \in DOMAIN from'
        PROVE  (/\ from[v] \in visited /\ v \in DOMAIN best
                /\ Linked(from[v], v) /\ best[v] = Via(from[v], v))'
    <3>1. CASE v \in I
      <4>1. from'[v] = u /\ u \in visited' /\ v \in DOMAIN best' /\ best'[v] = Via(u, v) /\ Linked(u, v)
        BY <1>2, <1>3, <1>6, <3>1
      <4>2. Via(u, v)' = Via(u, v) /\ Linked(u, v)'
        BY <1>2, <1>6, <4>1 DEF Via, Linked
      <4>. QED  BY <4>1, <4>2 DEF Via, Linked
    <3>2. CASE v \notin I
      <4>1. v \in DOMAIN from /\ from'[v] = from[v] /\ best'[v] = best[v]
        BY <1>6, <3>2 DEF SearchInv, Traced
      <4>2. from[v] \in visited /\ v \in DOMAIN best /\ Linked(from[v], v) /\ best[v] = Via(from[v], v)
        BY <4>1 DEF SearchInv, Traced
      <4>3. best'[from[v]] = best[from[v]]
        BY <1>2, <1>6, <4>2
      <4>. QED  BY <1>2, <1>6, <4>1, <4>2, <4>3 DEF Via, Linked
    <3>. QED  BY <3>1, <3>2
  <2>. QED  BY <2>1, <2>2 DEF Traced
<1>. QED
  BY <1>7, <1>8, <1>9, <1>11, <1>12, <1>13, <1>14, <1>15 DEF SearchInv

-----------------------------------------------------------------------------
(* The end of the search and the walk back                                 *)

\* Nobody is left: whoever was reached is settled.
LEMMA ExhaustedSearchInv ==
    ASSUME SearchInv, Exhausted
    PROVE  SearchInv'
<1>1. phase' = "walk" /\ phase = "search" /\ heap = {} /\ UNCHANGED <<ends, cost, best, from, visited, heap, path>>
  BY DEF Exhausted
<1>2. PathTypeOK' /\ CostsAreNumbers' /\ Fresh' /\ SourceIsReached' /\ HeapIsSound' /\ HeapIsComplete'
  BY <1>1 DEF SearchInv, PathTypeOK, CostsAreNumbers, Linked, Fresh, SourceIsReached, HeapIsSound,
              HeapIsComplete
<1>3. WalkIsKnown'
  BY <1>1 DEF SearchInv, WalkIsKnown
<1>4. Relaxed' /\ Ordered' /\ Traced'
  BY <1>1 DEF SearchInv, Relaxed, Ordered, Traced, Linked, Via
<1>. QED  BY <1>2, <1>3, <1>4 DEF SearchInv

\* A hop of the walk: from a person who was reached to one who was settled.
LEMMA WalkSearchInv ==
    ASSUME SearchInv, Walk
    PROVE  SearchInv'
<1>1. phase = "walk" /\ UNCHANGED <<ends, cost, best, from, visited, heap>>
  BY DEF Walk
<1>2. CostsAreNumbers' /\ HeapIsSound' /\ HeapIsComplete' /\ Relaxed' /\ Ordered' /\ Traced'
  BY <1>1 DEF SearchInv, CostsAreNumbers, HeapIsSound, HeapIsComplete, Relaxed, Ordered, Traced,
              Linked, Via
<1>3. /\ ends.target \in Nodes /\ visited \subseteq DOMAIN best /\ path \in Seq(Nodes)
      /\ ends.source \in DOMAIN best /\ DOMAIN from \subseteq Nodes /\ from \in [DOMAIN from -> Nodes]
  BY <1>1 DEF SearchInv, PathTypeOK, SourceIsReached
<1>4. \/ ends.target \in visited /\ \A n \in 1..Len(path) : path[n] \in DOMAIN best
      \/ ends.target \notin visited /\ heap = {}
  BY <1>1 DEF SearchInv, WalkIsKnown
<1>5. CASE StartWalk
  <2>1. phase' = "walk" /\ path' = <<ends.target>> /\ path' \in Seq(Nodes)
        /\ Len(path') = 1 /\ path'[1] = ends.target
    BY <1>1, <1>3, <1>5 DEF StartWalk
  <2>2. WalkIsKnown'
    BY <1>1, <1>3, <1>4, <2>1 DEF WalkIsKnown
  <2>3. PathTypeOK' /\ Fresh' /\ SourceIsReached'
    BY <1>1, <2>1 DEF SearchInv, PathTypeOK, Fresh, SourceIsReached
  <2>. QED  BY <1>2, <2>2, <2>3 DEF SearchInv
<1>6. CASE WalkBack
  <2>. DEFINE v == path[Len(path)]
  <2>1. path # <<>> /\ Len(path) \in Nat \ {0} /\ v \in Nodes
    BY <1>3, <1>6 DEF WalkBack
  <2>2. CASE phase' = "found" /\ UNCHANGED path
    BY <1>1, <1>2, <1>4, <2>2 DEF SearchInv, PathTypeOK, Fresh, SourceIsReached, WalkIsKnown
  <2>3. CASE v \in DOMAIN from /\ path' = Append(path, from[v]) /\ UNCHANGED phase
    <3>1. from[v] \in Nodes /\ from[v] \in DOMAIN best
      BY <1>3, <2>3 DEF SearchInv, Traced
    <3>2. path' \in Seq(Nodes) /\ Len(path') = Len(path) + 1
          /\ \A n \in 1..Len(path') : path'[n] = IF n = Len(path) + 1 THEN from[v] ELSE path[n]
      BY <1>3, <2>3, <3>1
    <3>3. (\A n \in 1..Len(path) : path[n] \in DOMAIN best)
              => \A n \in 1..Len(path') : path'[n] \in DOMAIN best
      BY <2>1, <3>1, <3>2
    <3>4. WalkIsKnown'
      BY <1>1, <1>4, <2>3, <3>3 DEF WalkIsKnown
    <3>5. PathTypeOK' /\ Fresh' /\ SourceIsReached'
      BY <1>1, <2>3, <3>2 DEF SearchInv, PathTypeOK, Fresh, SourceIsReached
    <3>. QED  BY <1>2, <3>4, <3>5 DEF SearchInv
  <2>4. CASE v # ends.source /\ v \notin DOMAIN from /\ phase' = "raised" /\ UNCHANGED path
    <3>1. v \notin DOMAIN best
      BY <2>4 DEF SearchInv, Traced
    <3>2. ends.target \notin visited /\ heap = {}
      BY <1>4, <2>1, <3>1
    <3>3. WalkIsKnown'
      BY <1>1, <2>4, <3>2 DEF WalkIsKnown
    <3>4. PathTypeOK' /\ Fresh' /\ SourceIsReached'
      BY <1>1, <2>4 DEF SearchInv, PathTypeOK, Fresh, SourceIsReached
    <3>. QED  BY <1>2, <3>3, <3>4 DEF SearchInv
  <2>. QED  BY <1>6, <2>2, <2>3, <2>4 DEF WalkBack
<1>. QED  BY <1>5, <1>6 DEF Walk

LEMMA StepSearchInv == SearchInv /\ SearchStep => SearchInv'
<1>. SUFFICES ASSUME SearchInv, SearchStep PROVE SearchInv'
  OBVIOUS
<1>1. CASE Pop
  <2>. PICK x \in heap : Least(x) /\ (Skip(x) \/ Arrive(x) \/ Settle(x))
    BY <1>1 DEF Pop
  <2>. phase = "search" /\ UNCHANGED <<ends, cost, path>>
    BY <1>1 DEF Pop
  <2>. QED  BY SkipSearchInv, ArriveSearchInv, SettleSearchInv
<1>2. CASE Exhausted
  BY <1>2, ExhaustedSearchInv
<1>3. CASE Walk
  BY <1>3, WalkSearchInv
<1>. QED  BY <1>1, <1>2, <1>3 DEF SearchStep

LEMMA NextSearchInv == SearchInv /\ [PathNext]_pathVars => SearchInv'
<1>1. ASSUME SearchInv, NEW s \in Nodes, NEW t \in Nodes, NEW c \in Costs, Begin(s, t, c)
      PROVE  SearchInv'
  <2>1. \A u, v \in Nodes : u # v /\ {u, v} \in DOMAIN c => c[{u, v}] \in Nat
    BY CostsAssumption
  <2>. QED  BY <1>1, <2>1, BeginSearchInv
<1>2. ASSUME SearchInv, UNCHANGED pathVars
      PROVE  SearchInv'
  BY <1>2 DEF pathVars, SearchInv, PathTypeOK, CostsAreNumbers, Fresh, SourceIsReached, HeapIsSound,
              HeapIsComplete, WalkIsKnown, Relaxed, Ordered, Traced, Linked, Via
<1>. QED  BY <1>1, <1>2, StepSearchInv DEF PathNext

\* The strengthening is an invariant.
LEMMA AlwaysSearchInv == PathSpec => []SearchInv
  BY InitSearchInv, NextSearchInv, PTL DEF PathSpec

-----------------------------------------------------------------------------
(* What it is for                                                          *)

\* At every step of the search, on every graph: each settled person's links
\* were tried, people are settled in the order of their distance, and
\* came_from tells how each of them was reached at that distance.
LEMMA SearchIsCertified == SearchInv => PathTypeOK /\ Certified
  BY DEF SearchInv, Certified

\* The search raises only where no chain of links leads to the target: the
\* people settled are closed under links and the target is not one of them.
LEMMA RaisesOnlyWhenApart == SearchInv => RaisedWhenApart
<1>. SUFFICES ASSUME SearchInv, phase = "raised"
              PROVE  /\ ends.source \in visited /\ ends.target \notin visited
                     /\ \A u \in visited : \A v \in Nodes : Linked(u, v) => v \in visited
  BY DEF RaisedWhenApart
<1>1. ends.target \notin visited /\ heap = {}
  BY DEF SearchInv, WalkIsKnown
<1>2. DOMAIN best \subseteq visited
  BY <1>1 DEF SearchInv, HeapIsComplete
<1>3. ends.source \in visited
  BY <1>2 DEF SearchInv, SourceIsReached
<1>4. \A u \in visited : \A v \in Nodes : Linked(u, v) => v \in DOMAIN best
  BY <1>1 DEF SearchInv, Relaxed
<1>. QED  BY <1>1, <1>2, <1>3, <1>4

\* The search for the strongest chain (_strongest_path) is sound, whatever the
\* people, the links and their costs are.
THEOREM SearchIsSound == PathSpec => []SearchSound
<1>1. SearchInv => SearchSound
  BY SearchIsCertified, RaisesOnlyWhenApart DEF SearchSound
<1>. QED  BY <1>1, AlwaysSearchInv, PTL

-----------------------------------------------------------------------------
(* Sums along a chain                                                      *)

LEMMA LessIsWellFounded == IsWellFoundedOn({p \in Nat \X Nat : p[1] < p[2]}, Nat)
  BY NatLessThanWellFounded DEF OpToRel

\* Of some numbers one is the least.
LEMMA LeastNumber ==
    ASSUME NEW T, T \subseteq Nat, T # {}
    PROVE  \E x \in T : \A y \in T : x <= y
<1>. DEFINE R == {p \in Nat \X Nat : p[1] < p[2]}
<1>1. PICK x \in T : \A y \in T : ~(<<y, x>> \in R)
  <2>. HIDE DEF R
  <2>. QED  BY LessIsWellFounded, WFMin DEF R
<1>2. ASSUME NEW y \in T PROVE x <= y
  <2>1. x \in Nat /\ y \in Nat /\ ~(<<y, x>> \in R)
    BY <1>1
  <2>2. ~(y < x)
    BY <2>1
  <2>. QED  BY <2>1, <2>2
<1>. QED  BY <1>2

\* There are sums of the first n of some numbers.
LEMMA SumsExist ==
    ASSUME NEW N \in Nat, NEW d \in [1..N -> Nat]
    PROVE  \E f \in [0..N -> Nat] : f = [n \in 0..N |-> IF n = 0 THEN 0 ELSE f[n - 1] + d[n]]
<1>. DEFINE Good(m) == \E f \in [0..m -> Nat] :
                           f = [n \in 0..m |-> IF n = 0 THEN 0 ELSE f[n - 1] + d[n]]
            Bad == {m \in 0..N : ~Good(m)}
<1>1. Good(0)
  <2>. DEFINE f == [n \in 0..0 |-> 0]
  <2>1. f \in [0..0 -> Nat] /\ f = [n \in 0..0 |-> IF n = 0 THEN 0 ELSE f[n - 1] + d[n]]
    OBVIOUS
  <2>. QED  BY <2>1
<1>2. ASSUME NEW m \in 1..N, Good(m - 1)
      PROVE  Good(m)
  <2>. PICK f \in [0..m - 1 -> Nat] :
           f = [n \in 0..m - 1 |-> IF n = 0 THEN 0 ELSE f[n - 1] + d[n]]
    BY <1>2
  <2>. DEFINE g == [n \in 0..m |-> IF n = m THEN f[m - 1] + d[m] ELSE f[n]]
  <2>1. g \in [0..m -> Nat]
    OBVIOUS
  <2>2. \A n \in 0..m : g[n] = IF n = 0 THEN 0 ELSE g[n - 1] + d[n]
    <3>1. \A n \in 0..m - 1 : f[n] = IF n = 0 THEN 0 ELSE f[n - 1] + d[n]
      OBVIOUS
    <3>. QED  BY <3>1
  <2>3. g = [n \in 0..m |-> IF n = 0 THEN 0 ELSE g[n - 1] + d[n]]
    <3>. HIDE DEF g
    <3>. QED  BY <2>1, <2>2
  <2>. HIDE DEF g
  <2>. QED  BY <2>1, <2>3
<1>3. Bad = {}
  <2>. SUFFICES ASSUME Bad # {} PROVE FALSE
    OBVIOUS
  <2>. HIDE DEF Good
  <2>0. Bad \subseteq Nat
    OBVIOUS
  <2>1. PICK m \in Bad : \A k \in Bad : m <= k
    <3>. HIDE DEF Bad
    <3>. QED  BY <2>0, LeastNumber
  <2>2. m \in 1..N /\ m - 1 \in 0..N /\ m - 1 \notin Bad
    BY <1>1, <2>1
  <2>. QED  BY <1>2, <2>2
<1>4. Good(N)
  <2>. HIDE DEF Good
  <2>. QED  BY <1>3
<1>. QED  BY <1>4

\* The links of a graph are between two people and cost a number.
Weighted(c) ==
    \A l \in DOMAIN c : c[l] \in Nat /\ \E u, v \in Nodes : u # v /\ l = {u, v}

\* The recursion of CostOf.
LEMMA CostOfHops ==
    ASSUME Weighted(cost), NEW p, Len(p) \in Nat \ {0},
           \A n \in 1 .. Len(p) - 1 : {p[n], p[n + 1]} \in DOMAIN cost
    PROVE  /\ CostOf(p)[0] = 0
           /\ \A n \in 0 .. Len(p) - 1 : CostOf(p)[n] \in Nat
           /\ \A n \in 1 .. Len(p) - 1 :
                  /\ cost[{p[Len(p) - n], p[Len(p) - n + 1]}] \in Nat
                  /\ CostOf(p)[n] = CostOf(p)[n - 1] + cost[{p[Len(p) - n], p[Len(p) - n + 1]}]
<1>. DEFINE N == Len(p) - 1
            d == [n \in 1..N |-> cost[{p[Len(p) - n], p[Len(p) - n + 1]}]]
<1>1. N \in Nat
  OBVIOUS
<1>2. \A n \in 1..N : {p[Len(p) - n], p[Len(p) - n + 1]} \in DOMAIN cost
  OBVIOUS
<1>3. d \in [1..N -> Nat]
  BY <1>2 DEF Weighted
<1>4. PICK f \in [0..N -> Nat] : f = [n \in 0..N |-> IF n = 0 THEN 0 ELSE f[n - 1] + d[n]]
  <2>. HIDE DEF N, d
  <2>. QED  BY <1>1, <1>3, SumsExist
<1>5. CostOf(p) = CHOOSE g : g = [n \in 0..N |-> IF n = 0 THEN 0
                                     ELSE g[n - 1] + cost[{p[Len(p) - n], p[Len(p) - n + 1]}]]
  BY DEF CostOf
<1>6. f = [n \in 0..N |-> IF n = 0 THEN 0
                          ELSE f[n - 1] + cost[{p[Len(p) - n], p[Len(p) - n + 1]}]]
  <2>1. \A n \in 0..N : f[n] = IF n = 0 THEN 0
                               ELSE f[n - 1] + cost[{p[Len(p) - n], p[Len(p) - n + 1]}]
    <3>1. \A n \in 0..N : f[n] = IF n = 0 THEN 0 ELSE f[n - 1] + d[n]
      <4>. HIDE DEF d, N
      <4>. QED  BY <1>4
    <3>2. \A n \in 1..N : d[n] = cost[{p[Len(p) - n], p[Len(p) - n + 1]}]
      OBVIOUS
    <3>3. \A n \in 0..N : n # 0 => n \in 1..N
      BY <1>1
    <3>. HIDE DEF d, N
    <3>. QED  BY <3>1, <3>2, <3>3
  <2>. HIDE DEF N
  <2>. QED  BY <2>1
<1>7. CostOf(p) = [n \in 0..N |-> IF n = 0 THEN 0
                     ELSE CostOf(p)[n - 1] + cost[{p[Len(p) - n], p[Len(p) - n + 1]}]]
  <2>. HIDE DEF N
  <2>. QED  BY <1>5, <1>6, Zenon
<1>. DEFINE C == CostOf(p)
<1>8. /\ DOMAIN C = 0..N /\ C[0] = 0
      /\ \A n \in 1..N : C[n] = C[n - 1] + d[n]
  <2>1. C = [n \in 0..N |-> IF n = 0 THEN 0
               ELSE C[n - 1] + cost[{p[Len(p) - n], p[Len(p) - n + 1]}]]
    BY <1>7
  <2>2. \A n \in 1..N : d[n] = cost[{p[Len(p) - n], p[Len(p) - n + 1]}]
    OBVIOUS
  <2>3. 0 \in 0..N /\ \A n \in 1..N : n \in 0..N /\ n # 0
    BY <1>1
  <2>. HIDE DEF C, d, N
  <2>. QED  BY <2>1, <2>2, <2>3
<1>9. \A n \in 0..N : C[n] \in Nat
  <2>. HIDE DEF C, N, d
  <2>. DEFINE Bad == {n \in 0..N : C[n] \notin Nat}
  <2>. SUFFICES ASSUME Bad # {} PROVE FALSE
    OBVIOUS
  <2>0. Bad \subseteq Nat
    BY <1>1
  <2>1. PICK m \in Bad : \A k \in Bad : m <= k
    <3>. HIDE DEF Bad
    <3>. QED  BY <2>0, LeastNumber
  <2>2. m \in 1..N /\ m - 1 \in 0..N /\ C[m - 1] \in Nat
    <3>1. m \in 0..N /\ C[m] \notin Nat /\ C[0] \in Nat
      BY <1>8, <2>1
    <3>2. m # 0
      BY <3>1
    <3>3. m \in 1..N /\ m - 1 \in 0..N
      BY <1>1, <3>1, <3>2
    <3>4. m - 1 \notin Bad
      <4>. HIDE DEF Bad
      <4>. QED  BY <1>1, <2>1, <3>3
    <3>. QED  BY <3>3, <3>4
  <2>3. d[m] \in Nat
    BY <1>3, <2>2
  <2>4. C[m] = C[m - 1] + d[m]
    BY <1>8, <2>2
  <2>5. C[m] \notin Nat
    BY <2>1
  <2>. HIDE DEF Bad
  <2>. QED  BY <2>2, <2>3, <2>4, <2>5
<1>. HIDE DEF C
<1>. QED  BY <1>3, <1>8, <1>9 DEF C

-----------------------------------------------------------------------------
(* The walk back is along the best ways                                    *)

\* The walk follows came_from hop by hop, and ends at the source.
WalkInv ==
    /\ Weighted(cost)
    /\ phase # "idle" =>
           ends.source # ends.target /\ best[ends.source] = [w |-> 0, h |-> 0]
    /\ path # <<>> => path[1] = ends.target
    /\ \A n \in 1 .. Len(path) - 1 : path[n] \in DOMAIN from /\ path[n + 1] = from[path[n]]
    /\ phase = "found" => path # <<>> /\ path[Len(path)] = ends.source

LEMMA InitWalkInv == PathInit => WalkInv
  BY DEF PathInit, WalkInv, Weighted, Nothing

LEMMA BeginWalkInv ==
    ASSUME SearchInv, NEW s \in Nodes, NEW t \in Nodes, NEW c, Weighted(c), Begin(s, t, c)
    PROVE  WalkInv'
<1>1. path' = <<>> /\ phase' = "search" /\ cost' = c /\ ends' = [source |-> s, target |-> t] /\ s # t
      /\ best'[s] = [w |-> 0, h |-> 0]
  BY DEF Begin, SearchInv, Fresh
<1>2. Weighted(cost)'
  BY <1>1 DEF Weighted
<1>. QED  BY <1>1, <1>2 DEF WalkInv

\* Settling a person never improves the source, and the walk has not begun.
LEMMA PopWalkInv ==
    ASSUME SearchInv, WalkInv, Pop
    PROVE  WalkInv'
<1>1. phase = "search" /\ path = <<>> /\ UNCHANGED <<ends, cost, path>> /\ phase' \in {"search", "walk"}
  BY DEF Pop, Skip, Arrive, Settle, SearchInv, WalkIsKnown
<1>2. Weighted(cost)'
  BY <1>1 DEF WalkInv, Weighted
<1>3. best'[ends.source] = best[ends.source]
  <2>1. ends.source \in DOMAIN best /\ best[ends.source] = [w |-> 0, h |-> 0]
    BY <1>1 DEF SearchInv, SourceIsReached, WalkInv
  <2>2. PICK x \in heap : Least(x) /\ (Skip(x) \/ Arrive(x) \/ Settle(x))
    BY DEF Pop
  <2>3. CASE Skip(x) \/ Arrive(x)
    BY <2>3 DEF Skip, Arrive
  <2>4. CASE Settle(x)
    <3>1. x.v \in DOMAIN best /\ x.v \in Nodes
      BY <2>2, <2>4, LeastIsNearest DEF Settle
    <3>2. ASSUME ends.source \in Improved(x.v) PROVE FALSE
      <4>1. ends.source \in Nodes /\ Linked(x.v, ends.source) /\ Less(Via(x.v, ends.source), best[ends.source])
        BY <2>1, <3>2 DEF Improved
      <4>2. Via(x.v, ends.source) \in Key
        BY <3>1, <4>1, ViaGrows DEF SearchInv
      <4>. QED  BY <2>1, <4>1, <4>2 DEF Less, Key
    <3>. QED  BY <2>1, <2>4, <3>2 DEF Settle
  <2>. QED  BY <2>2, <2>3, <2>4
<1>4. phase' # "idle" => ends'.source # ends'.target /\ best'[ends'.source] = [w |-> 0, h |-> 0]
  BY <1>1, <1>3 DEF WalkInv
<1>. QED  BY <1>1, <1>2, <1>4 DEF WalkInv

LEMMA StepWalkInv ==
    ASSUME SearchInv, WalkInv, SearchStep
    PROVE  WalkInv'
<1>1. CASE Pop
  BY <1>1, PopWalkInv
<1>2. CASE Exhausted
  BY <1>2 DEF Exhausted, WalkInv, Weighted
<1>3. CASE Walk
  <2>1. phase = "walk" /\ UNCHANGED <<ends, cost, best, from, visited, heap>> /\ path \in Seq(Nodes)
        /\ phase' # "idle"
    BY <1>3 DEF Walk, StartWalk, WalkBack, SearchInv, PathTypeOK
  <2>2. Weighted(cost)' /\ ends.source # ends.target /\ best[ends.source] = [w |-> 0, h |-> 0]
    BY <2>1 DEF WalkInv, Weighted
  <2>3. CASE StartWalk
    BY <2>1, <2>2, <2>3 DEF StartWalk, WalkInv
  <2>4. CASE WalkBack
    <3>. DEFINE v == path[Len(path)]
    <3>1. path # <<>> /\ Len(path) \in Nat \ {0}
      BY <2>1, <2>4 DEF WalkBack
    <3>2. CASE v = ends.source /\ phase' = "found" /\ UNCHANGED path
      BY <2>1, <2>2, <3>1, <3>2 DEF WalkInv
    <3>3. CASE v \in DOMAIN from /\ path' = Append(path, from[v]) /\ UNCHANGED phase
      <4>1. from[v] \in Nodes
        BY <3>3 DEF SearchInv, PathTypeOK
      <4>2. Len(path') = Len(path) + 1
            /\ \A n \in 1..Len(path') : path'[n] = IF n = Len(path) + 1 THEN from[v] ELSE path[n]
        BY <2>1, <3>3, <4>1
      <4>3. ASSUME NEW n \in 1 .. Len(path') - 1
            PROVE  path'[n] \in DOMAIN from /\ path'[n + 1] = from[path'[n]]
        <5>1. CASE n = Len(path)
          BY <3>1, <3>3, <4>2, <5>1
        <5>2. CASE n \in 1 .. Len(path) - 1
          BY <3>1, <4>2, <5>2 DEF WalkInv
        <5>. QED  BY <3>1, <4>2, <5>1, <5>2
      <4>4. path' # <<>> /\ path'[1] = path[1]
        BY <3>1, <3>3, <4>2
      <4>. QED  BY <2>1, <2>2, <3>1, <3>3, <4>3, <4>4 DEF WalkInv
    <3>4. CASE phase' = "raised" /\ UNCHANGED path
      BY <2>1, <2>2, <3>4 DEF WalkInv
    <3>. QED  BY <2>4, <3>2, <3>3, <3>4 DEF WalkBack
  <2>. QED  BY <1>3, <2>3, <2>4 DEF Walk
<1>. QED  BY <1>1, <1>2, <1>3 DEF SearchStep

\* What was found: a chain of links in which everybody is at the best distance
\* there is by the next one.
LEMMA FoundIsTraced ==
    ASSUME SearchInv, WalkInv, phase = "found"
    PROVE  /\ ends.target \in visited
           /\ path \in Seq(Nodes) /\ Len(path) > 1
           /\ path[1] = ends.target /\ path[Len(path)] = ends.source
           /\ \A n \in 1 .. Len(path) - 1 :
                  /\ Linked(path[n + 1], path[n]) /\ path[n] \in Nodes /\ path[n + 1] \in Nodes
                  /\ best[path[n]] = Via(path[n + 1], path[n])
<1>1. /\ path \in Seq(Nodes) /\ path # <<>> /\ path[1] = ends.target /\ path[Len(path)] = ends.source
      /\ ends.source # ends.target
  BY DEF SearchInv, PathTypeOK, WalkInv
<1>2. Len(path) > 1 /\ Len(path) \in Nat
  BY <1>1
<1>3. ASSUME NEW n \in 1 .. Len(path) - 1
      PROVE  /\ path[n] \in DOMAIN from /\ path[n + 1] = from[path[n]]
             /\ Linked(path[n + 1], path[n]) /\ best[path[n]] = Via(path[n + 1], path[n])
             /\ path[n] \in Nodes /\ path[n + 1] \in Nodes
  <2>1. path[n] \in DOMAIN from /\ path[n + 1] = from[path[n]]
    BY DEF WalkInv
  <2>2. n \in 1..Len(path) /\ n + 1 \in 1..Len(path)
    BY <1>2
  <2>. QED  BY <1>1, <2>1, <2>2 DEF SearchInv, Traced
<1>4. ends.target \in visited
  <2>1. 1 \in 1 .. Len(path) - 1
    BY <1>2
  <2>2. ends.target \in DOMAIN best
    BY <1>1, <1>3, <2>1 DEF SearchInv, Traced
  <2>. QED  BY <2>2 DEF SearchInv, WalkIsKnown, HeapIsComplete
<1>. QED  BY <1>1, <1>2, <1>3, <1>4

\* The last n hops of what was found are the best way to where they begin.
LEMMA FoundIsBest ==
    ASSUME SearchInv, WalkInv, phase = "found", NEW n \in 0 .. Len(path) - 1
    PROVE  best[path[Len(path) - n]] = [w |-> CostOf(path)[n], h |-> n]
<1>. DEFINE C == CostOf(path)
            Bad == {k \in 0 .. Len(path) - 1 : best[path[Len(path) - k]] # [w |-> C[k], h |-> k]}
<1>0. Len(path) \in Nat /\ Len(path) > 1
  BY FoundIsTraced
<1>1. \A k \in 1 .. Len(path) - 1 : {path[k], path[k + 1]} \in DOMAIN cost
  <2>1. \A k \in 1 .. Len(path) - 1 : {path[k + 1], path[k]} \in DOMAIN cost
    BY FoundIsTraced DEF Linked
  <2>. QED  BY <2>1, Zenon
<1>2. /\ C[0] = 0
      /\ \A k \in 1 .. Len(path) - 1 :
             C[k] = C[k - 1] + cost[{path[Len(path) - k], path[Len(path) - k + 1]}]
  <2>1. Weighted(cost) /\ Len(path) \in Nat \ {0}
    BY <1>0 DEF WalkInv
  <2>. HIDE DEF C
  <2>. QED  BY <1>1, <2>1, CostOfHops DEF C
<1>. HIDE DEF C
<1>. SUFFICES ASSUME Bad # {} PROVE FALSE
  BY DEF C
<1>3. Bad \subseteq Nat
  BY <1>0
<1>4. PICK m \in Bad : \A k \in Bad : m <= k
  <2>. HIDE DEF Bad
  <2>. QED  BY <1>3, LeastNumber
<1>5. m \in 0 .. Len(path) - 1 /\ best[path[Len(path) - m]] # [w |-> C[m], h |-> m]
  BY <1>4
<1>6. m # 0
  <2>1. best[path[Len(path) - 0]] = [w |-> C[0], h |-> 0]
    BY <1>0, <1>2, FoundIsTraced DEF WalkInv
  <2>. QED  BY <1>5, <2>1
<1>7. m \in 1 .. Len(path) - 1 /\ m - 1 \in 0 .. Len(path) - 1
  BY <1>0, <1>5, <1>6
<1>8. m - 1 \notin Bad
  <2>. HIDE DEF Bad
  <2>. QED  BY <1>3, <1>4, <1>7
<1>9. best[path[Len(path) - (m - 1)]] = [w |-> C[m - 1], h |-> m - 1]
  BY <1>7, <1>8
<1>10. Len(path) - m \in 1 .. Len(path) - 1 /\ Len(path) - (m - 1) = (Len(path) - m) + 1
  BY <1>0, <1>7
<1>. DEFINE at == Len(path) - m
<1>11. best[path[at]] = Via(path[at + 1], path[at])
  <2>1. \A j \in 1 .. Len(path) - 1 : best[path[j]] = Via(path[j + 1], path[j])
    BY FoundIsTraced
  <2>. QED  BY <1>10, <2>1
<1>12. {path[at + 1], path[at]} = {path[at], path[at + 1]}
  OBVIOUS
<1>13. best[path[at + 1]] = [w |-> C[m - 1], h |-> m - 1]
  BY <1>9, <1>10
<1>14. Via(path[at + 1], path[at]) = [w |-> C[m - 1] + cost[{path[at], path[at + 1]}], h |-> (m - 1) + 1]
  <2>1. cost[{path[at + 1], path[at]}] = cost[{path[at], path[at + 1]}]
    BY <1>12
  <2>2. Via(path[at + 1], path[at]) = [w |-> best[path[at + 1]].w + cost[{path[at + 1], path[at]}],
                                       h |-> best[path[at + 1]].h + 1]
    BY DEF Via
  <2>. HIDE DEF at
  <2>. QED  BY <1>13, <2>1, <2>2
<1>15. C[m] = C[m - 1] + cost[{path[at], path[at + 1]}] /\ (m - 1) + 1 = m
  <2>1. C[m] = C[m - 1] + cost[{path[Len(path) - m], path[Len(path) - m + 1]}]
    BY <1>2, <1>7, Zenon
  <2>2. (m - 1) + 1 = m
    BY <1>0, <1>7
  <2>. QED  BY <2>1, <2>2
<1>. HIDE DEF at
<1>16. best[path[at]] = [w |-> C[m], h |-> m]
  BY <1>11, <1>14, <1>15
<1>. QED  BY <1>5, <1>16 DEF at

-----------------------------------------------------------------------------
(* No chain is better                                                      *)

\* A way to v of weight and hops k is no better than the best there is to v,
\* or to the target.
NoBetter(k, v) == (v \in DOMAIN best /\ ~Less(k, best[v])) \/ ~Less(k, best[ends.target])

\* One hop more does not make a better way: a settled person's links were
\* tried, and whoever is not settled is no nearer than the target.
LEMMA HopIsNoShortcut ==
    ASSUME SearchInv, WalkInv, phase = "found", NEW u \in Nodes, NEW v \in Nodes,
           {v, u} \in DOMAIN cost, NEW w \in Nat, NEW h \in Nat, NoBetter([w |-> w, h |-> h], u)
    PROVE  NoBetter([w |-> w + cost[{v, u}], h |-> h + 1], v)
<1>. DEFINE t == ends.target
            k == [w |-> w, h |-> h]
            l == [w |-> w + cost[{v, u}], h |-> h + 1]
<1>1. t \in visited /\ visited \subseteq DOMAIN best /\ DOMAIN best \subseteq Nodes
      /\ \A x \in DOMAIN best : best[x].w \in Nat /\ best[x].h \in Nat
  BY FoundIsTraced DEF SearchInv, PathTypeOK, SourceIsReached, Key
<1>2. cost[{v, u}] \in Nat /\ u # v /\ Linked(u, v)
  <2>1. cost[{v, u}] \in Nat /\ \E a, b \in Nodes : a # b /\ {v, u} = {a, b}
    BY DEF WalkInv, Weighted
  <2>2. {u, v} = {v, u}
    OBVIOUS
  <2>3. u # v
    BY <2>1
  <2>. QED  BY <2>1, <2>2, <2>3 DEF Linked
<1>3. ~Less(l, k) /\ {k.w, k.h, l.w, l.h} \subseteq Nat
  BY <1>2 DEF Less
<1>4. ASSUME ~Less(k, best[t]) PROVE NoBetter(l, v)
  <2>1. ~Less(l, best[t])
    <3>. HIDE DEF k, l, t
    <3>. QED  BY <1>1, <1>3, <1>4, NotLessTransitive
  <2>. QED  BY <2>1 DEF NoBetter
<1>5. ASSUME u \in DOMAIN best, ~Less(k, best[u]) PROVE NoBetter(l, v)
  <2>1. CASE u = t
    BY <1>4, <1>5, <2>1
  <2>2. CASE u \in visited \ {t}
    <3>1. v \in DOMAIN best /\ ~Less(Via(u, v), best[v])
      BY <1>2, <2>2 DEF SearchInv, Relaxed
    <3>2. Via(u, v) = [w |-> best[u].w + cost[{v, u}], h |-> best[u].h + 1]
      <4>1. {u, v} = {v, u}
        OBVIOUS
      <4>2. cost[{u, v}] = cost[{v, u}]
        BY <4>1
      <4>. QED  BY <4>2 DEF Via
    <3>3. ~Less(l, Via(u, v)) /\ Via(u, v).w \in Nat /\ Via(u, v).h \in Nat
      BY <1>1, <1>2, <1>5, <3>2 DEF Less
    <3>4. ~Less(l, best[v])
      <4>. HIDE DEF k, l
      <4>. QED  BY <1>1, <1>3, <3>1, <3>3, NotLessTransitive
    <3>. QED  BY <3>1, <3>4 DEF NoBetter
  <2>3. CASE u \notin visited
    <3>1. ~Less(best[u], best[t])
      BY <1>1, <1>5, <2>3 DEF SearchInv, Ordered
    <3>2. ~Less(k, best[t])
      <4>. HIDE DEF k, t
      <4>. QED  BY <1>1, <1>3, <1>5, <3>1, NotLessTransitive
    <3>. QED  BY <1>4, <3>2
  <2>. QED  BY <2>1, <2>2, <2>3
<1>. QED  BY <1>4, <1>5 DEF NoBetter

\* No chain of links to the target, however long, has less weight than the
\* best that the search knows, or as little in fewer hops.
LEMMA NoChainIsBetter ==
    ASSUME SearchInv, WalkInv, phase = "found", NEW p \in Seq(Nodes), Chain(p)
    PROVE  ~Less(WeightOf(p), best[ends.target])
<1>. DEFINE C == CostOf(p)
            N == Len(p)
            Bad == {n \in 0 .. N - 1 : ~NoBetter([w |-> C[n], h |-> n], p[N - n])}
<1>0. /\ N \in Nat /\ N > 1 /\ p[1] = ends.target /\ p[N] = ends.source
      /\ \A n \in 1..N : p[n] \in Nodes
      /\ \A n \in 1 .. N - 1 : {p[n], p[n + 1]} \in DOMAIN cost
  BY DEF Chain
<1>1. /\ C[0] = 0
      /\ \A n \in 0 .. N - 1 : C[n] \in Nat
      /\ \A n \in 1 .. N - 1 : C[n] = C[n - 1] + cost[{p[N - n], p[N - n + 1]}]
  <2>1. Weighted(cost) /\ Len(p) \in Nat \ {0}
    BY <1>0 DEF WalkInv
  <2>2. /\ CostOf(p)[0] = 0
        /\ \A n \in 0 .. Len(p) - 1 : CostOf(p)[n] \in Nat
        /\ \A n \in 1 .. Len(p) - 1 :
               CostOf(p)[n] = CostOf(p)[n - 1] + cost[{p[Len(p) - n], p[Len(p) - n + 1]}]
    <3>. HIDE DEF C, N, Bad
    <3>. QED  BY <2>1, CostOfHops DEF Chain
  <2>. QED  BY <2>2
<1>. HIDE DEF C
<1>2. 0 \notin Bad
  <2>1. p[N - 0] = ends.source
    BY <1>0
  <2>2. ends.source \in DOMAIN best /\ best[ends.source] = [w |-> 0, h |-> 0]
    BY DEF SearchInv, SourceIsReached, WalkInv
  <2>3. NoBetter([w |-> C[0], h |-> 0], p[N - 0])
    BY <1>1, <2>1, <2>2 DEF NoBetter, Less
  <2>. QED  BY <2>3
<1>3. ASSUME NEW n \in 1 .. N - 1, n - 1 \notin Bad PROVE n \notin Bad
  <2>. DEFINE v == p[N - n]
              u == p[N - n + 1]
  <2>1. n - 1 \in 0 .. N - 1 /\ N - n \in 1 .. N - 1 /\ N - (n - 1) = N - n + 1 /\ (n - 1) + 1 = n
        /\ n - 1 \in Nat /\ N - n + 1 \in 1..N /\ N - n \in 1..N
    BY <1>0
  <2>2. NoBetter([w |-> C[n - 1], h |-> n - 1], u)
    BY <1>3, <2>1
  <2>3. u \in Nodes /\ v \in Nodes /\ {v, u} \in DOMAIN cost /\ C[n - 1] \in Nat
    BY <1>0, <1>1, <2>1
  <2>4. NoBetter([w |-> C[n - 1] + cost[{v, u}], h |-> (n - 1) + 1], v)
    <3>. HIDE DEF u, v, N
    <3>. QED  BY <2>1, <2>2, <2>3, HopIsNoShortcut
  <2>5. C[n] = C[n - 1] + cost[{v, u}]
    BY <1>1, Zenon
  <2>6. NoBetter([w |-> C[n], h |-> n], v)
    <3>. HIDE DEF u, v
    <3>. QED  BY <2>1, <2>4, <2>5
  <2>. QED  BY <2>6
<1>4. Bad = {}
  <2>. SUFFICES ASSUME Bad # {} PROVE FALSE
    OBVIOUS
  <2>1. Bad \subseteq Nat
    BY <1>0
  <2>2. PICK m \in Bad : \A k \in Bad : m <= k
    <3>. HIDE DEF Bad
    <3>. QED  BY <2>1, LeastNumber
  <2>3. m \in 0 .. N - 1 /\ m # 0
    BY <1>2, <2>2
  <2>4. m \in 1 .. N - 1 /\ ~(m <= m - 1)
    BY <1>0, <2>3
  <2>. HIDE DEF Bad
  <2>. QED  BY <1>3, <2>2, <2>4
<1>5. N - 1 \in 0 .. N - 1 /\ N - (N - 1) = 1
  BY <1>0
<1>6. NoBetter([w |-> C[N - 1], h |-> N - 1], p[N - (N - 1)])
  BY <1>4, <1>5
<1>7. NoBetter(WeightOf(p), ends.target)
  BY <1>0, <1>5, <1>6 DEF WeightOf, C
<1>. QED  BY <1>7 DEF NoBetter

\* What was found is a chain of different people, and no chain is better.
LEMMA FoundIsStrongest ==
    ASSUME SearchInv, WalkInv, phase = "found"
    PROVE  /\ Chain(path)
           /\ \A i, j \in 1..Len(path) : path[i] = path[j] => i = j
           /\ \A p \in Seq(Nodes) : Chain(p) => ~Less(WeightOf(p), WeightOf(path))
<1>1. Len(path) \in Nat /\ Len(path) > 1 /\ path[1] = ends.target /\ path[Len(path)] = ends.source
  BY FoundIsTraced
<1>2. \A n \in 1 .. Len(path) - 1 : {path[n], path[n + 1]} \in DOMAIN cost
  <2>1. \A n \in 1 .. Len(path) - 1 : {path[n + 1], path[n]} \in DOMAIN cost
    BY FoundIsTraced DEF Linked
  <2>. QED  BY <2>1, Zenon
<1>3. ASSUME NEW i \in 1..Len(path), NEW j \in 1..Len(path), path[i] = path[j]
      PROVE  i = j
  <2>1. Len(path) - i \in 0 .. Len(path) - 1 /\ Len(path) - j \in 0 .. Len(path) - 1
        /\ Len(path) - (Len(path) - i) = i /\ Len(path) - (Len(path) - j) = j
    BY <1>1
  <2>2. \A n \in 0 .. Len(path) - 1 : best[path[Len(path) - n]].h = n
    <3>. SUFFICES ASSUME NEW n \in 0 .. Len(path) - 1 PROVE best[path[Len(path) - n]].h = n
      OBVIOUS
    <3>1. best[path[Len(path) - n]] = [w |-> CostOf(path)[n], h |-> n]
      BY FoundIsBest
    <3>. QED  BY <3>1
  <2>3. best[path[i]].h = Len(path) - i /\ best[path[j]].h = Len(path) - j
    BY <2>1, <2>2
  <2>. QED  BY <1>1, <1>3, <2>3
<1>4. WeightOf(path) = best[ends.target]
  <2>1. Len(path) - 1 \in 0 .. Len(path) - 1 /\ Len(path) - (Len(path) - 1) = 1
    BY <1>1
  <2>2. best[path[Len(path) - (Len(path) - 1)]] = [w |-> CostOf(path)[Len(path) - 1], h |-> Len(path) - 1]
    BY <2>1, FoundIsBest
  <2>. QED  BY <1>1, <2>1, <2>2 DEF WeightOf
<1>. QED  BY <1>1, <1>2, <1>3, <1>4, NoChainIsBetter DEF Chain

-----------------------------------------------------------------------------
(* The search among the people of the network                              *)

\* While a search is under way the network is complete, and the search is among
\* the links that are shown.
NetworkInv ==
    /\ level \in Nat /\ ask.degree \in Nat
    /\ DOMAIN persons \subseteq People /\ Root \in DOMAIN persons
    /\ DOMAIN links \subseteq Pair
    /\ phase # "idle" => Expanded /\ DOMAIN cost = KeptLinks

LEMMA PeopleAreFinite == IsFiniteSet(People)
<1>. DEFINE f == [n \in 1..Len(Order) |-> Order[n]]
<1>1. Len(Order) \in Nat /\ \A n \in 1..Len(Order) : Order[n] \in People
  BY OrderAssumption
<1>2. f \in [1..Len(Order) -> People] /\ \A x \in People : \E n \in 1..Len(Order) : f[n] = x
  BY <1>1, OrderAssumption
<1>3. f \in Surjection(1..Len(Order), People)
  <2>. HIDE DEF f
  <2>. QED  BY <1>2 DEF Surjection
<1>4. IsFiniteSet(1..Len(Order))
  BY <1>1, FS_Interval
<1>. HIDE DEF f
<1>. QED  BY <1>3, <1>4, FS_Surjection

LEMMA PairsArePeople ==
    ASSUME NEW l \in Pair
    PROVE  \E u, v \in Nodes : u # v /\ l = {u, v}
<1>1. l \subseteq Nodes /\ Cardinality(l) = 2 /\ IsFiniteSet(l)
  BY PeopleAreFinite, NodesAssumption, FS_Subset DEF Pair
<1>2. PICK u \in l : TRUE
  BY <1>1, FS_EmptySet
<1>3. IsFiniteSet(l \ {u}) /\ Cardinality(l \ {u}) = 1
  BY <1>1, <1>2, FS_RemoveElement
<1>4. PICK v : l \ {u} = {v}
  BY <1>3, FS_Singleton
<1>. QED  BY <1>1, <1>2, <1>4

LEMMA CostsOfLinks ==
    ASSUME NetworkInv
    PROVE  Weighted([l \in KeptLinks |-> Cost(Combined(links[l]))])
<1>1. ASSUME NEW c PROVE Cost(c) \in Nat
  <2>. DEFINE power == CHOOSE p : p = [n \in Nat |-> IF n = 0 THEN CERTAIN ELSE (p[n - 1] * 9) \div 10]
              steps == {n \in 1..30 : c <= power[n]}
  <2>1. Cost(c) = Cardinality(steps)
    BY DEF Cost
  <2>. HIDE DEF power
  <2>2. steps \subseteq 1..30
    OBVIOUS
  <2>. HIDE DEF steps
  <2>3. IsFiniteSet(1..30)
    <3>1. 1 \in Int /\ 30 \in Int
      OBVIOUS
    <3>. QED  BY <3>1, FS_Interval
  <2>4. IsFiniteSet(steps)
    BY <2>2, <2>3, FS_Subset
  <2>. QED  BY <2>1, <2>4, FS_CardinalityType
<1>2. ASSUME NEW l \in KeptLinks
      PROVE  \E u, v \in Nodes : u # v /\ l = {u, v}
  BY PairsArePeople DEF NetworkInv, KeptLinks
<1>. QED  BY <1>1, <1>2 DEF Weighted

\* What a turn of the loop adds: links between people, and people at their ends.
LEMMA ExpandNetworkInv ==
    ASSUME NetworkInv, Expand
    PROVE  NetworkInv'
<1>. DEFINE found == Found(frontier, ask.maxFanout)
            strong == {l \in DOMAIN found : Strong(found[l])}
            candidates == Reachable(found, strong) \ DOMAIN persons
            next == FirstOf(candidates, ask.maxPersons - Cardinality(DOMAIN persons))
<1>1. strong \subseteq Pair
  BY DEF Found
<1>2. candidates \subseteq People
  BY <1>1 DEF Reachable, Pair
<1>3. next \subseteq People
  BY <1>2 DEF FirstOf
<1>0. ExpandLevel /\ phase' = phase
  BY DEF Expand, pathVars
<1>a. level < ask.degree /\ frontier # {} /\ level' = level + 1 /\ ask' = ask
  BY <1>0, SMT DEF ExpandLevel
<1>b. persons' = [p \in DOMAIN persons \cup next |-> IF p \in next THEN level + 1 ELSE persons[p]]
  BY <1>0, SMT DEF ExpandLevel
<1>c. links' = [l \in DOMAIN links \cup strong |->
                   IF l \notin strong THEN links[l]
                   ELSE IF l \in DOMAIN links THEN MergeVia(links[l], found[l]) ELSE found[l]]
  BY <1>0, SMT DEF ExpandLevel
<1>. HIDE DEF strong, next, found
<1>4. /\ level < ask.degree /\ frontier # {} /\ level' = level + 1 /\ ask' = ask
      /\ DOMAIN links' = DOMAIN links \cup strong
      /\ DOMAIN persons' = DOMAIN persons \cup next
      /\ phase' = phase
  BY <1>0, <1>a, <1>b, <1>c
<1>5. phase = "idle"
  BY <1>4 DEF NetworkInv, Expanded
<1>. QED  BY <1>1, <1>3, <1>4, <1>5 DEF NetworkInv

SearchingInv == SearchInv /\ WalkInv /\ NetworkInv

LEMMA InitSearching == Init => SearchingInv
<1>. SUFFICES ASSUME Init PROVE NetworkInv
  BY InitSearchInv, InitWalkInv DEF Init, SearchingInv
<1>. QED  BY PeopleAssumption, AskedAssumption DEF Init, NetworkInit, PathInit, NetworkInv

LEMMA NextSearching == SearchingInv /\ [Next]_vars => SearchingInv'
<1>. SUFFICES ASSUME SearchingInv, [Next]_vars PROVE SearchingInv'
  OBVIOUS
<1>1. CASE Expand
  <2>1. UNCHANGED pathVars
    BY <1>1 DEF Expand
  <2>2. SearchInv' /\ WalkInv'
    BY <2>1, NextSearchInv DEF SearchingInv, WalkInv, Weighted, pathVars
  <2>. QED  BY <1>1, <2>2, ExpandNetworkInv DEF SearchingInv
<1>2. CASE FindConnection
  <2>. DEFINE c == [l \in KeptLinks |-> Cost(Combined(links[l]))]
  <2>1. PICK t \in DOMAIN persons \ {Root} : Begin(Root, t, c)
    BY <1>2 DEF FindConnection
  <2>2. Expanded /\ UNCHANGED networkVars
    BY <1>2 DEF FindConnection
  <2>3. Weighted(c) /\ Root \in Nodes /\ t \in Nodes
    BY <2>1, CostsOfLinks, NodesAssumption DEF SearchingInv, NetworkInv
  <2>4. DOMAIN c = KeptLinks
    OBVIOUS
  <2>. HIDE DEF c
  <2>5. \A u, v \in Nodes : u # v /\ {u, v} \in DOMAIN c => c[{u, v}] \in Nat
    BY <2>3 DEF Weighted
  <2>6. SearchInv' /\ WalkInv'
    BY <2>1, <2>3, <2>5, BeginSearchInv, BeginWalkInv DEF SearchingInv
  <2>7. NetworkInv'
    BY <2>1, <2>2, <2>4 DEF SearchingInv, NetworkInv, Begin, networkVars, Expanded, KeptLinks
  <2>. QED  BY <2>6, <2>7 DEF SearchingInv
<1>3. CASE Search
  <2>1. SearchStep /\ UNCHANGED networkVars /\ cost' = cost /\ phase # "idle"
    BY <1>3 DEF Search, SearchStep, Pop, Exhausted, Walk
  <2>2. NetworkInv'
    BY <2>1 DEF SearchingInv, NetworkInv, networkVars, Expanded, KeptLinks
  <2>. QED  BY <2>1, <2>2, StepSearchInv, StepWalkInv DEF SearchingInv
<1>4. CASE AssessRisk \/ UNCHANGED vars
  <2>1. UNCHANGED <<networkVars, pathVars>>
    BY <1>4 DEF AssessRisk, vars
  <2>2. SearchInv' /\ WalkInv'
    BY <2>1, NextSearchInv DEF SearchingInv, WalkInv, Weighted, pathVars
  <2>. QED
    BY <2>1, <2>2 DEF SearchingInv, NetworkInv, networkVars, pathVars, Expanded, KeptLinks
<1>. QED  BY <1>1, <1>2, <1>3, <1>4 DEF Next

LEMMA AlwaysSearching == Spec => []SearchingInv
  BY InitSearching, NextSearching, PTL DEF Spec

LEMMA StrongestAmongShown == SearchingInv => ChainIsStrongest
<1>. SUFFICES ASSUME SearchingInv, phase = "found" PROVE ChainIsStrongest
  BY DEF ChainIsStrongest
<1>. DEFINE chains == {p \in UNION {[1..n -> DOMAIN persons] : n \in 2..Cardinality(DOMAIN persons)} : Chain(p)}
<1>1. /\ Chain(path) /\ path \in Seq(Nodes) /\ Len(path) \in Nat /\ Len(path) > 1
      /\ \A i, j \in 1..Len(path) : path[i] = path[j] => i = j
      /\ \A p \in Seq(Nodes) : Chain(p) => ~Less(WeightOf(p), WeightOf(path))
  BY FoundIsStrongest, FoundIsTraced DEF SearchingInv
<1>2. DOMAIN cost = KeptLinks /\ DOMAIN persons \subseteq Nodes
  BY NodesAssumption DEF SearchingInv, NetworkInv
<1>3. \A n \in 1 .. Len(path) : path[n] \in DOMAIN persons
  <2>1. \A n \in 1 .. Len(path) - 1 : path[n] \in DOMAIN persons /\ path[n + 1] \in DOMAIN persons
    BY <1>1, <1>2 DEF Chain, KeptLinks
  <2>2. ASSUME NEW n \in 1 .. Len(path) PROVE path[n] \in DOMAIN persons
    <3>1. CASE n = Len(path)
      <4>1. n - 1 \in 1 .. Len(path) - 1 /\ (n - 1) + 1 = n
        BY <1>1, <3>1
      <4>. QED  BY <2>1, <4>1
    <3>2. CASE n # Len(path)
      BY <1>1, <2>1, <3>2
    <3>. QED  BY <3>1, <3>2
  <2>. QED  BY <2>2
<1>4. path \in [1..Len(path) -> DOMAIN persons]
  BY <1>1, <1>3
<1>5. Len(path) <= Cardinality(DOMAIN persons)
  <2>1. IsFiniteSet(DOMAIN persons)
    BY PeopleAreFinite, FS_Subset DEF SearchingInv, NetworkInv
  <2>2. path \in Injection(1..Len(path), DOMAIN persons)
    BY <1>1, <1>4 DEF Injection, IsInjective
  <2>3. Cardinality(1..Len(path)) = Len(path)
    BY <1>1, FS_Interval
  <2>. QED  BY <2>1, <2>2, <2>3, FS_Injection
<1>6. Len(path) \in 2..Cardinality(DOMAIN persons)
  <2>1. Cardinality(DOMAIN persons) \in Nat
    BY PeopleAreFinite, FS_Subset, FS_CardinalityType DEF SearchingInv, NetworkInv
  <2>. QED  BY <1>1, <1>5, <2>1
<1>7. path \in chains
  BY <1>1, <1>4, <1>6
<1>8. \A p \in chains : p \in Seq(Nodes) /\ Chain(p)
  <2>. SUFFICES ASSUME NEW n \in 2..Cardinality(DOMAIN persons), NEW p \in [1..n -> DOMAIN persons]
                PROVE  p \in Seq(Nodes)
    OBVIOUS
  <2>1. n \in Nat /\ p \in [1..n -> Nodes]
    BY <1>2, PeopleAreFinite, FS_Subset, FS_CardinalityType DEF SearchingInv, NetworkInv
  <2>. QED  BY <2>1
<1>. HIDE DEF chains
<1>9. \A p \in chains : ~Less(WeightOf(p), WeightOf(path))
  BY <1>1, <1>8
<1>. QED  BY <1>2, <1>7, <1>9 DEF ChainIsStrongest, chains

\* What an investigator is shown as the connection of two people is a chain of
\* shown links, and no other chain of them is stronger, or as strong and
\* shorter: for any people, graphs, thresholds and cuts.
THEOREM ConnectionIsStrongest == Spec => []ChainIsStrongest
  BY AlwaysSearching, StrongestAmongShown, PTL

\* SearchSound in the composition with the network, which begins the search.
THEOREM ConnectionIsSound == Spec => []SearchSound
<1>1. SearchingInv => SearchSound
  BY SearchIsCertified, RaisesOnlyWhenApart DEF SearchingInv, SearchSound
<1>. QED  BY <1>1, AlwaysSearching, PTL

-----------------------------------------------------------------------------
(* The network                                                             *)

\* What a value is worth is a confidence, if two people have it.
LEMMA Quotient ==
    ASSUME NEW a \in Nat, NEW d \in Nat, d > 0
    PROVE  a \div d \in Nat /\ (a \div d) * d <= a
<1>. DEFINE q == a \div d
<1>1. q \in Int /\ q * d <= a /\ a < (q + 1) * d
  OBVIOUS
<1>. HIDE DEF q
<1>2. q >= 0
  <2>. SUFFICES ASSUME q < 0 PROVE FALSE
    BY <1>1
  <2>1. (q + 1) * d <= 0
    BY <1>1
  <2>. QED  BY <1>1, <2>1
<1>. QED  BY <1>1, <1>2 DEF q

\* A match is worth no more than one certain reason.
LEMMA MatchIsConfidence ==
    ASSUME NEW key, NEW owners \in Nat, owners > 1, NEW sameKey \in BOOLEAN
    PROVE  MatchConfidence(key, owners, sameKey) \in 0..600
<1>. DEFINE w == WEIGHT_OF(key)
            a == 6 * w * (IF sameKey THEN 10 ELSE 6)
            m == owners - 1
            q == a \div (10 * m)
            y == q * (10 * m)
            z == q * m
<1>1. w \in 0..95
  BY DEF WEIGHT_OF
<1>. HIDE DEF w
<1>2. a \in 0..5700
  BY <1>1
<1>. HIDE DEF a
<1>3. m \in Nat /\ m > 0
  OBVIOUS
<1>. HIDE DEF m
<1>4. q \in Nat /\ y <= a
  BY <1>2, <1>3, Quotient
<1>. HIDE DEF q
<1>5. z \in Int /\ y \in Int /\ y = 10 * z /\ q <= z
  BY <1>3, <1>4
<1>. HIDE DEF y, z
<1>6. a \in Int /\ a <= 5700
  BY <1>2
<1>7. 10 * z <= 5700
  BY <1>4, <1>5, <1>6
<1>8. q \in 0..600
  BY <1>4, <1>5, <1>7
<1>. QED  BY <1>8 DEF MatchConfidence, a, w, m, q

Reasons(F, m, p, q) ==
    ReasonsOf(p, q, Neighbors(F, DIRECT_EDGES), {c \in Connectors(F) : ~Hub(c, m)}, Bridges(F, m))

\* An edge is between people and things.
LEMMA EndsAreVertices ==
    ASSUME edges \in Graphs, NEW e \in edges
    PROVE  e.src \in People \cup Things /\ e.dst \in People \cup Things
  BY GraphsAssumption DEF Edge

\* A pair is of two people.
LEMMA TwoPeople ==
    ASSUME NEW l \in Pair
    PROVE  l \subseteq People /\ \E u, v \in People : u # v /\ l = {u, v}
  BY PairsArePeople, NodesAssumption DEF Pair

\* Two people are a pair.
LEMMA PairOfTwo ==
    ASSUME NEW p \in People, NEW q \in People, p # q
    PROVE  {p, q} \in Pair
<1>1. IsFiniteSet({p}) /\ Cardinality({p}) = 1 /\ {p} \cup {q} = {p, q}
  BY FS_Singleton
<1>2. Cardinality({p} \cup {q}) = 2
  BY <1>1, FS_AddElement
<1>. QED  BY <1>1, <1>2 DEF Pair

\* The links found, and the reasons of each.
LEMMA FoundReasons ==
    ASSUME NEW F, NEW m, NEW l \in Pair
    PROVE  \E p, q \in People :
               /\ p # q /\ l = {p, q}
               /\ l \in DOMAIN Found(F, m) <=> Reasons(F, m, p, q) # {}
               /\ l \in DOMAIN Found(F, m) => Found(F, m)[l] = Reasons(F, m, p, q)
<1>. DEFINE one(k) == CHOOSE x \in k : TRUE
            other(k) == CHOOSE x \in k : x # one(k)
            all == [k \in Pair |-> Reasons(F, m, one(k), other(k))]
            p == one(l)
            q == other(l)
<1>1. PICK u, v \in People : u # v /\ l = {u, v}
  BY TwoPeople
<1>2. p \in l
  BY <1>1
<1>3. q \in l /\ q # p
  <2>. HIDE DEF p
  <2>1. \E x \in l : x # p
    BY <1>1, <1>2
  <2>. QED  BY <2>1 DEF p
<1>4. Found(F, m) = [k \in {k \in Pair : all[k] # {}} |-> all[k]]
  BY DEF Found, Reasons
<1>5. all[l] = Reasons(F, m, p, q)
  OBVIOUS
<1>. HIDE DEF all, p, q
<1>6. l \in DOMAIN Found(F, m) <=> all[l] # {}
  BY <1>4
<1>7. l \in DOMAIN Found(F, m) => Found(F, m)[l] = all[l]
  BY <1>4
<1>8. p \in People /\ q \in People /\ p # q /\ l = {p, q}
  BY <1>1, <1>2, <1>3
<1>. QED  BY <1>5, <1>6, <1>7, <1>8

\* Links are of pairs.
LEMMA FoundArePairs ==
    ASSUME NEW F, NEW m
    PROVE  DOMAIN Found(F, m) \subseteq Pair
  BY DEF Found

\* A direct edge at the frontier is a reason.
LEMMA DirectIsReason ==
    ASSUME NEW F, NEW m, NEW l \in Pair, NEW e \in Neighbors(F, DIRECT_EDGES), {e.src, e.dst} = l
    PROVE  l \in DOMAIN Found(F, m) /\ \E r \in Found(F, m)[l] : r.kind = "direct" /\ e.type \in r.types
<1>. PICK p, q \in People :
         /\ p # q /\ l = {p, q}
         /\ l \in DOMAIN Found(F, m) <=> Reasons(F, m, p, q) # {}
         /\ l \in DOMAIN Found(F, m) => Found(F, m)[l] = Reasons(F, m, p, q)
  BY FoundReasons
<1>1. DirectReason(e) \in Reasons(F, m, p, q)
  BY DEF Reasons, ReasonsOf
<1>2. DirectReason(e).kind = "direct" /\ e.type \in DirectReason(e).types
  BY DEF DirectReason
<1>. QED  BY <1>1, <1>2

\* So is what two people share and somebody in the frontier has at hand.
LEMMA SharedIsReason ==
    ASSUME NEW F, NEW m, NEW l \in Pair, NEW c \in Connectors(F), ~Hub(c, m), l \subseteq Owners(c)
    PROVE  l \in DOMAIN Found(F, m) /\ \E r \in Found(F, m)[l] : r.by = {c}
<1>. PICK p, q \in People :
         /\ p # q /\ l = {p, q}
         /\ l \in DOMAIN Found(F, m) <=> Reasons(F, m, p, q) # {}
         /\ l \in DOMAIN Found(F, m) => Found(F, m)[l] = Reasons(F, m, p, q)
  BY FoundReasons
<1>1. SharedReason(c, p, q) \in Reasons(F, m, p, q)
  BY DEF Reasons, ReasonsOf
<1>2. SharedReason(c, p, q).by = {c}
  BY DEF SharedReason, FieldReason
<1>. QED  BY <1>1, <1>2

\* And the bridge between the organisations of two people.
LEMMA BridgeIsReason ==
    ASSUME NEW F, NEW m, NEW b \in Bridges(F, m), NEW x \in Owners(b.near), NEW y \in Owners(b.far), x # y
    PROVE  {x, y} \in DOMAIN Found(F, m)
<1>1. x \in People /\ y \in People
  BY DEF Owners
<1>2. {x, y} \in Pair
  BY <1>1, PairOfTwo
<1>. PICK p, q \in People :
         /\ p # q /\ {x, y} = {p, q}
         /\ {x, y} \in DOMAIN Found(F, m) <=> Reasons(F, m, p, q) # {}
  BY <1>2, FoundReasons
<1>3. x \in {p, q} /\ {p, q} \ {x} \subseteq Owners(b.far)
  OBVIOUS
<1>4. BridgeReason(b.e, b.near, b.far, x) \in Reasons(F, m, p, q)
  BY <1>3 DEF Reasons, ReasonsOf
<1>. QED  BY <1>4

\* There are no other reasons for a link.
LEMMA WhyFound ==
    ASSUME NEW F, NEW m, NEW l \in DOMAIN Found(F, m)
    PROVE  \/ \E e \in Neighbors(F, DIRECT_EDGES) : {e.src, e.dst} = l
           \/ \E c \in Connectors(F) : ~Hub(c, m) /\ l \subseteq Owners(c)
           \/ \E b \in Bridges(F, m), x, y \in l :
                  l = {x, y} /\ x # y /\ x \in Owners(b.near) /\ y \in Owners(b.far)
<1>. PICK p, q \in People : p # q /\ l = {p, q} /\ Reasons(F, m, p, q) # {}
  BY FoundReasons, FoundArePairs
<1>1. PICK r : r \in Reasons(F, m, p, q)
  OBVIOUS
<1>2. CASE \E e \in Neighbors(F, DIRECT_EDGES) : {e.src, e.dst} = {p, q}
  BY <1>2
<1>3. CASE \E c \in Connectors(F) : ~Hub(c, m) /\ {p, q} \subseteq Owners(c)
  BY <1>3
<1>4. CASE \E b \in Bridges(F, m), x \in {p, q} :
               x \in Owners(b.near) /\ {p, q} \ {x} \subseteq Owners(b.far)
  <2>. PICK b \in Bridges(F, m), x \in {p, q} :
               x \in Owners(b.near) /\ {p, q} \ {x} \subseteq Owners(b.far)
    BY <1>4
  <2>1. PICK y \in l : l = {x, y} /\ x # y /\ y \in Owners(b.far)
    OBVIOUS
  <2>. QED  BY <2>1
<1>. QED  BY <1>1, <1>2, <1>3, <1>4 DEF Reasons, ReasonsOf

\* A reason by one thing is one that both have.
LEMMA ByIsShared ==
    ASSUME NEW F, NEW m, NEW l \in DOMAIN Found(F, m), NEW r \in Found(F, m)[l], NEW c, r.by = {c}
    PROVE  c \in Connectors(F) /\ ~Hub(c, m) /\ l \subseteq Owners(c)
<1>. PICK p, q \in People : p # q /\ l = {p, q} /\ r \in Reasons(F, m, p, q)
  BY FoundReasons, FoundArePairs
<1>1. ASSUME NEW e PROVE DirectReason(e).by = {}
  BY DEF DirectReason
<1>2. ASSUME NEW d PROVE SharedReason(d, p, q).by = {d}
  BY DEF SharedReason, FieldReason
<1>3. ASSUME NEW b \in Bridges(F, m), NEW x
      PROVE  BridgeReason(b.e, b.near, b.far, x).by # {c}
  <2>1. b.near \in Near(F) /\ b.far \notin Near(F)
    BY DEF Bridges
  <2>. QED  BY <2>1 DEF BridgeReason
<1>4. PICK d \in Connectors(F) : ~Hub(d, m) /\ {p, q} \subseteq Owners(d) /\ r = SharedReason(d, p, q)
  BY <1>1, <1>3 DEF Reasons, ReasonsOf
<1>. QED  BY <1>2, <1>4

\* The confidence of every reason is in range.
LEMMA ReasonIsConfident ==
    ASSUME NEW F, NEW m, NEW l \in DOMAIN Found(F, m), NEW r \in Found(F, m)[l]
    PROVE  r.conf \in 0..600
<1>. PICK p, q \in People : p # q /\ l = {p, q} /\ r \in Reasons(F, m, p, q)
  BY FoundReasons, FoundArePairs
<1>1. CASE \E e \in Neighbors(F, DIRECT_EDGES) : r = DirectReason(e)
  BY <1>1 DEF DirectReason, DIRECT_CONFIDENCE
<1>2. CASE \E c : {p, q} \subseteq Owners(c) /\ r = SharedReason(c, p, q)
  <2>. PICK c : {p, q} \subseteq Owners(c) /\ r = SharedReason(c, p, q)
    BY <1>2
  <2>1. Cardinality(Owners(c)) \in Nat /\ Cardinality(Owners(c)) > 1
    <3>1. IsFiniteSet(Owners(c))
      BY PeopleAreFinite, FS_Subset DEF Owners
    <3>2. Cardinality({p, q}) = 2
      BY PairOfTwo DEF Pair
    <3>3. Cardinality({p, q}) <= Cardinality(Owners(c)) /\ Cardinality(Owners(c)) \in Nat
      BY <3>1, FS_Subset, FS_CardinalityType
    <3>. QED  BY <3>2, <3>3
  <2>2. \A key : \A same \in BOOLEAN : MatchConfidence(key, Cardinality(Owners(c)), same) \in 0..600
    BY <2>1, MatchIsConfidence
  <2>3. CASE TagOf[c] = "field_value"
    <3>1. \E key : \E same \in BOOLEAN : r.conf = MatchConfidence(key, Cardinality(Owners(c)), same)
      BY <2>3 DEF SharedReason, FieldReason
    <3>. QED  BY <2>2, <3>1
  <2>4. CASE TagOf[c] # "field_value"
    BY <2>2, <2>4 DEF SharedReason
  <2>. QED  BY <2>3, <2>4
<1>3. CASE \E e, near, far, x : r = BridgeReason(e, near, far, x)
  BY <1>3 DEF BridgeReason, BRIDGE_CONFIDENCE
<1>. QED  BY <1>1, <1>2, <1>3 DEF Reasons, ReasonsOf

\* What is at hand of somebody is a thing, and in a graph whose direct edges are
\* between people one that somebody has.
LEMMA ConnectorsAreThings ==
    ASSUME edges \in Graphs, NEW F
    PROVE  Connectors(F) \subseteq Things
  BY EndsAreVertices DEF Connectors, Ends, Neighbors

\* What somebody in the frontier has is a connector of the level.
LEMMA HadIsConnector ==
    ASSUME NEW F, NEW c \in Things, NEW f \in F, f \in Owners(c)
    PROVE  c \in Connectors(F)
<1>1. PICK e \in Neighbors({c}, SHARED_EDGES) : f \in {e.src, e.dst}
  BY DEF Owners, Ends
<1>2. c \in {e.src, e.dst} /\ c \notin People
  BY <1>1, PeopleAssumption DEF Neighbors
<1>3. e \in Neighbors(F, SHARED_EDGES)
  BY <1>1 DEF Neighbors
<1>. QED  BY <1>2, <1>3 DEF Connectors, Ends

\* Nothing else is, where direct edges do not lead to things.
LEMMA ConnectorIsHad ==
    ASSUME edges \in Graphs, DirectIsPersonal, NEW F, F \subseteq People, NEW c \in Connectors(F)
    PROVE  \E f \in F : f \in Owners(c)
<1>1. PICK e \in Neighbors(F, DIRECT_EDGES) \cup Neighbors(F, SHARED_EDGES) : c \in {e.src, e.dst}
  BY DEF Connectors, Ends
<1>2. c \in Things /\ c \notin People /\ e \in edges
  BY <1>1, ConnectorsAreThings, PeopleAssumption DEF Neighbors
<1>3. PICK f \in F : f \in {e.src, e.dst}
  BY <1>1 DEF Neighbors
<1>4. f \in People /\ f # c
  BY <1>2
<1>5. e.type \in SHARED_EDGES
  <2>1. ~({e.src, e.dst} \subseteq People) /\ ~({e.src, e.dst} \subseteq Things)
    BY <1>1, <1>2, <1>3, <1>4, PeopleAssumption
  <2>2. e.type \notin DIRECT_EDGES
    BY <1>2, <2>1 DEF DirectIsPersonal
  <2>. QED  BY <1>1, <2>2 DEF Neighbors
<1>6. e \in Neighbors({c}, SHARED_EDGES)
  BY <1>1, <1>2, <1>5 DEF Neighbors
<1>. QED  BY <1>3, <1>4, <1>6 DEF Owners, Ends

\* What a bridge is between.
LEMMA BridgeEnds ==
    ASSUME edges \in Graphs, NEW F, NEW m, NEW b \in Bridges(F, m)
    PROVE  /\ b.near \in Near(F) /\ b.near \in Connectors(F) /\ b.near \in Things
           /\ b.far \in Things \ Near(F)
           /\ TagOf[b.near] \in BRIDGE_TAGS /\ TagOf[b.far] \in BRIDGE_TAGS
           /\ ~Hub(b.near, m) /\ ~Hub(b.far, m)
           /\ b.e \in edges /\ b.e.type \in BRIDGE_EDGES /\ {b.e.src, b.e.dst} = {b.near, b.far}
<1>1. b.near \in Near(F) /\ b.far \in Things \ Near(F) /\ b.e \in Neighbors(Near(F), BRIDGE_EDGES)
  BY DEF Bridges
<1>2. b.near \in Connectors(F) /\ TagOf[b.near] \in BRIDGE_TAGS
  BY <1>1 DEF Near
<1>3. /\ {b.near, b.far} = {b.e.src, b.e.dst}
      /\ TagOf[b.far] \in BRIDGE_TAGS
      /\ ~Hub(b.near, m) /\ ~Hub(b.far, m)
  BY DEF Bridges
<1>4. b.near \in Things
  BY <1>2, ConnectorsAreThings
<1>. QED  BY <1>1, <1>2, <1>3, <1>4 DEF Neighbors

\* Whoever a link was found for is in the frontier, or has a link to it.
LEMMA FoundFromFrontier ==
    ASSUME edges \in Graphs, DirectIsPersonal, NEW F, F \subseteq People, NEW m,
           NEW l \in DOMAIN Found(F, m), NEW p \in l
    PROVE  p \in F \/ \E f \in F : f # p /\ {f, p} \in DOMAIN Found(F, m)
<1>. SUFFICES ASSUME p \notin F PROVE \E f \in F : f # p /\ {f, p} \in DOMAIN Found(F, m)
  OBVIOUS
<1>0. l \in Pair /\ p \in People
  BY FoundArePairs, TwoPeople
<1>1. ASSUME NEW c \in Connectors(F), ~Hub(c, m), p \in Owners(c)
      PROVE  \E f \in F : f # p /\ {f, p} \in DOMAIN Found(F, m)
  <2>1. PICK f \in F : f \in Owners(c)
    BY ConnectorIsHad
  <2>2. f # p /\ {f, p} \in Pair /\ {f, p} \subseteq Owners(c)
    BY <1>0, <1>1, <2>1, PairOfTwo
  <2>. QED  BY <1>1, <2>2, SharedIsReason
<1>2. CASE \E e \in Neighbors(F, DIRECT_EDGES) : {e.src, e.dst} = l
  <2>. PICK e \in Neighbors(F, DIRECT_EDGES) : {e.src, e.dst} = l
    BY <1>2
  <2>1. PICK f \in F : f \in l
    BY DEF Neighbors
  <2>2. l = {f, p}
    BY <1>0, <2>1, TwoPeople
  <2>. QED  BY <2>1, <2>2
<1>3. CASE \E c \in Connectors(F) : ~Hub(c, m) /\ l \subseteq Owners(c)
  BY <1>1, <1>3
<1>4. CASE \E b \in Bridges(F, m), x, y \in l :
               l = {x, y} /\ x # y /\ x \in Owners(b.near) /\ y \in Owners(b.far)
  <2>. PICK b \in Bridges(F, m), x, y \in l :
               l = {x, y} /\ x # y /\ x \in Owners(b.near) /\ y \in Owners(b.far)
    BY <1>4
  <2>1. b.near \in Connectors(F) /\ ~Hub(b.near, m)
    BY BridgeEnds
  <2>2. PICK f \in F : f \in Owners(b.near)
    BY <2>1, ConnectorIsHad
  <2>3. CASE p = x
    BY <1>1, <2>1, <2>3
  <2>4. CASE p = y
    BY <2>2, <2>4, BridgeIsReason
  <2>. QED  BY <2>3, <2>4
<1>. QED  BY <1>2, <1>3, <1>4, WhyFound

\* Under a threshold, in a Plain graph, a link has an end in the frontier.
LEMMA FoundAtFrontier ==
    ASSUME edges \in Graphs, Plain, ask.minConfidence # 0, NEW F, F \subseteq People, NEW m,
           NEW l \in DOMAIN Found(F, m)
    PROVE  l \cap F # {}
<1>0. l \in Pair /\ DirectIsPersonal
  BY FoundArePairs DEF Plain
<1>1. \A c \in Things : /\ IsFiniteSet(Owners(c)) /\ Cardinality(Owners(c)) \in Nat
                        /\ Cardinality(Owners(c)) <= 2
                        /\ TagOf[c] \in BRIDGE_TAGS => Cardinality(Owners(c)) <= 1
  <2>. SUFFICES ASSUME NEW c \in Things
                PROVE  /\ IsFiniteSet(Owners(c)) /\ Cardinality(Owners(c)) \in Nat
                       /\ Cardinality(Owners(c)) <= 2
                       /\ TagOf[c] \in BRIDGE_TAGS => Cardinality(Owners(c)) <= 1
    OBVIOUS
  <2>1. IsFiniteSet(Owners(c))
    BY PeopleAreFinite, FS_Subset DEF Owners
  <2>2. Cardinality(Owners(c)) \in Nat
    BY <2>1, FS_CardinalityType
  <2>3. Cardinality(Owners(c)) <= IF TagOf[c] \in BRIDGE_TAGS THEN 1 ELSE 2
    BY DEF Plain
  <2>. QED  BY <2>1, <2>2, <2>3
<1>2. CASE \E e \in Neighbors(F, DIRECT_EDGES) : {e.src, e.dst} = l
  BY <1>2 DEF Neighbors
<1>3. CASE \E c \in Connectors(F) : ~Hub(c, m) /\ l \subseteq Owners(c)
  <2>. PICK c \in Connectors(F) : l \subseteq Owners(c)
    BY <1>3
  <2>1. c \in Things
    BY ConnectorsAreThings
  <2>2. Cardinality(l) = 2 /\ Cardinality(l) <= Cardinality(Owners(c))
    BY <1>0, <1>1, <2>1, FS_Subset DEF Pair
  <2>3. Cardinality(l) = Cardinality(Owners(c))
    BY <1>1, <2>1, <2>2
  <2>4. l = Owners(c)
    BY <1>1, <2>1, <2>3, FS_Subset
  <2>. QED  BY <1>0, <2>4, ConnectorIsHad
<1>4. CASE \E b \in Bridges(F, m), x, y \in l :
               l = {x, y} /\ x # y /\ x \in Owners(b.near) /\ y \in Owners(b.far)
  <2>. PICK b \in Bridges(F, m), x \in l : x \in Owners(b.near)
    BY <1>4
  <2>1. b.near \in Connectors(F) /\ b.near \in Things /\ TagOf[b.near] \in BRIDGE_TAGS
    BY BridgeEnds
  <2>2. PICK f \in F : f \in Owners(b.near)
    BY <1>0, <2>1, ConnectorIsHad
  <2>3. f = x
    <3>. SUFFICES ASSUME f # x PROVE FALSE
      OBVIOUS
    <3>1. {f, x} \subseteq Owners(b.near) /\ f \in People /\ x \in People
      BY <2>2 DEF Owners
    <3>2. Cardinality({f, x}) = 2
      BY <3>1, PairOfTwo DEF Pair
    <3>3. Cardinality({f, x}) <= Cardinality(Owners(b.near))
      BY <1>1, <2>1, <3>1, FS_Subset
    <3>. QED  BY <1>1, <2>1, <3>2, <3>3
  <2>. QED  BY <2>2, <2>3
<1>. QED  BY <1>2, <1>3, <1>4, WhyFound

\* The image of a finite set is finite.
LEMMA ImageIsFinite ==
    ASSUME NEW S, IsFiniteSet(S), NEW g, DOMAIN g = S
    PROVE  IsFiniteSet({g[x] : x \in S})
<1>. DEFINE T == {g[x] : x \in S}
            h == [x \in S |-> g[x]]
<1>1. h \in [S -> T] /\ \A t \in T : \E s \in S : h[s] = t
  OBVIOUS
<1>. HIDE DEF T, h
<1>2. h \in Surjection(S, T)
  BY <1>1 DEF Surjection
<1>3. IsFiniteSet(T)
  BY <1>2, FS_Surjection
<1>. QED  BY <1>3 DEF T

\* A link has finitely many reasons.
LEMMA ReasonsAreFinite ==
    ASSUME edges \in Graphs, NEW F, NEW m, NEW l \in DOMAIN Found(F, m)
    PROVE  IsFiniteSet(Found(F, m)[l])
<1>. PICK p, q \in People : p # q /\ l = {p, q} /\ Found(F, m)[l] = Reasons(F, m, p, q)
  BY FoundReasons, FoundArePairs
<1>. DEFINE all == (edges \X Things) \X (Things \X {p, q})
            direct == [e \in edges |-> DirectReason(e)]
            shared == [c \in Things |-> SharedReason(c, p, q)]
            bridge == [x \in all |-> BridgeReason(x[1][1], x[1][2], x[2][1], x[2][2])]
<1>1. IsFiniteSet(edges) /\ IsFiniteSet(Things)
  BY GraphsAssumption
<1>2. IsFiniteSet({p, q})
  <2>1. IsFiniteSet({p}) /\ {p} \cup {q} = {p, q}
    BY FS_Singleton
  <2>2. IsFiniteSet({p} \cup {q})
    BY <2>1, FS_AddElement
  <2>. QED  BY <2>1, <2>2
<1>3. IsFiniteSet(all)
  <2>1. IsFiniteSet(edges \X Things)
    BY <1>1, FS_Product
  <2>2. IsFiniteSet(Things \X {p, q})
    BY <1>1, <1>2, FS_Product
  <2>. QED  BY <2>1, <2>2, FS_Product
<1>4. /\ IsFiniteSet({direct[e] : e \in edges})
      /\ IsFiniteSet({shared[c] : c \in Things})
      /\ IsFiniteSet({bridge[x] : x \in all})
  <2>1. DOMAIN direct = edges /\ DOMAIN shared = Things /\ DOMAIN bridge = all
    OBVIOUS
  <2>. HIDE DEF direct, shared, bridge, all
  <2>. QED  BY <1>1, <1>3, <2>1, ImageIsFinite
<1>5. Reasons(F, m, p, q) \subseteq
          {direct[e] : e \in edges} \cup {shared[c] : c \in Things} \cup {bridge[x] : x \in all}
  <2>1. ASSUME NEW e \in Neighbors(F, DIRECT_EDGES) PROVE DirectReason(e) \in {direct[f] : f \in edges}
    BY DEF Neighbors
  <2>2. ASSUME NEW c \in Connectors(F) PROVE SharedReason(c, p, q) \in {shared[d] : d \in Things}
    BY ConnectorsAreThings
  <2>3. ASSUME NEW b \in Bridges(F, m), NEW x \in {p, q}
        PROVE  BridgeReason(b.e, b.near, b.far, x) \in {bridge[y] : y \in all}
    <3>1. b.e \in edges /\ b.near \in Things /\ b.far \in Things
      BY BridgeEnds
    <3>2. <<<<b.e, b.near>>, <<b.far, x>>>> \in all
      BY <3>1
    <3>3. bridge[<<<<b.e, b.near>>, <<b.far, x>>>>] = BridgeReason(b.e, b.near, b.far, x)
      BY <3>2
    <3>. QED  BY <3>2, <3>3
  <2>. HIDE DEF direct, shared, bridge, all
  <2>. QED  BY <2>1, <2>2, <2>3 DEF Reasons, ReasonsOf
<1>. HIDE DEF direct, shared, bridge, all
<1>6. IsFiniteSet({direct[e] : e \in edges} \cup {shared[c] : c \in Things} \cup {bridge[x] : x \in all})
  BY <1>4, FS_Union
<1>. QED  BY <1>5, <1>6, FS_Subset

\* A reason leaves of the doubt what is left of it, and no more than there was.
LEMMA DoubtShrinks ==
    ASSUME NEW most \in Nat, NEW a \in 0..most, NEW c \in 0..600
    PROVE  (a * (600 - c)) \div 600 \in 0..most
<1>. DEFINE b == 600 - c
            p == a * b
<1>1. b \in 0..600 /\ a \in Nat /\ a <= most
  OBVIOUS
<1>. HIDE DEF b
<1>2. p \in Nat /\ p <= a * 600
  BY <1>1
<1>. HIDE DEF p
<1>3. p \div 600 \in Nat /\ p \div 600 <= a
  BY <1>1, <1>2
<1>4. p \div 600 \in 0..most
  BY <1>1, <1>3
<1>. QED  BY <1>4 DEF p, b

\* Reasons that compound make a confidence.
LEMMA CombinedIsConfidence ==
    ASSUME NEW via, IsFiniteSet(via), \A r \in via : r.conf \in 0..600
    PROVE  Combined(via) \in 0..CERTAIN
<1>. DEFINE After(f, s) == LET x == CHOOSE x \in s : TRUE
                           IN  (f[s \ {x}] * (600 - x.conf)) \div 600
            Body(f, s) == IF s = {} THEN CERTAIN ELSE After(f, s)
            Sized(n) == {s \in SUBSET via : Cardinality(s) <= n}
            Good(n) == \E f \in [Sized(n) -> 0..CERTAIN] : \A s \in Sized(n) : f[s] = Body(f, s)
            Bad == {n \in Nat : ~Good(n)}
<1>0. CERTAIN \in Nat
  BY DEF CERTAIN
<1>1. \A s \in SUBSET via : /\ IsFiniteSet(s) /\ Cardinality(s) \in Nat
                            /\ Cardinality(s) = 0 <=> s = {}
                            /\ s # {} => LET x == CHOOSE x \in s : TRUE
                                         IN  /\ x \in s /\ x \in via /\ s \ {x} \in SUBSET via
                                             /\ Cardinality(s \ {x}) = Cardinality(s) - 1
  <2>. SUFFICES ASSUME NEW s \in SUBSET via
                PROVE  /\ IsFiniteSet(s) /\ Cardinality(s) \in Nat
                       /\ Cardinality(s) = 0 <=> s = {}
                       /\ s # {} => LET x == CHOOSE x \in s : TRUE
                                    IN  /\ x \in s /\ x \in via /\ s \ {x} \in SUBSET via
                                        /\ Cardinality(s \ {x}) = Cardinality(s) - 1
    OBVIOUS
  <2>1. IsFiniteSet(s)
    BY FS_Subset
  <2>2. Cardinality(s) \in Nat /\ (Cardinality(s) = 0 <=> s = {})
    BY <2>1, FS_CardinalityType, FS_EmptySet
  <2>3. ASSUME s # {}
        PROVE  LET x == CHOOSE x \in s : TRUE
               IN  /\ x \in s /\ x \in via /\ s \ {x} \in SUBSET via
                   /\ Cardinality(s \ {x}) = Cardinality(s) - 1
    <3>. DEFINE x == CHOOSE x \in s : TRUE
    <3>1. x \in s
      BY <2>3
    <3>. HIDE DEF x
    <3>2. Cardinality(s \ {x}) = Cardinality(s) - 1
      BY <2>1, <3>1, FS_RemoveElement
    <3>3. x \in s /\ x \in via /\ s \ {x} \in SUBSET via /\ Cardinality(s \ {x}) = Cardinality(s) - 1
      BY <3>1, <3>2
    <3>. QED  BY <3>3 DEF x
  <2>. QED  BY <2>1, <2>2, <2>3
<1>2. ASSUME NEW f, NEW s \in SUBSET via, s # {},
             \A t \in SUBSET s : Cardinality(t) = Cardinality(s) - 1 => f[t] \in 0..CERTAIN
      PROVE  After(f, s) \in 0..CERTAIN
  <2>. DEFINE x == CHOOSE x \in s : TRUE
  <2>1. x \in via /\ Cardinality(s \ {x}) = Cardinality(s) - 1
    BY <1>1, <1>2
  <2>. HIDE DEF x
  <2>2. f[s \ {x}] \in 0..CERTAIN /\ x.conf \in 0..600
    BY <1>2, <2>1
  <2>3. (f[s \ {x}] * (600 - x.conf)) \div 600 \in 0..CERTAIN
    BY <1>0, <2>2, DoubtShrinks
  <2>. QED  BY <2>3 DEF x
<1>a. ASSUME NEW f, NEW g, NEW s \in SUBSET via, s # {},
             \A t \in SUBSET s : Cardinality(t) = Cardinality(s) - 1 => f[t] = g[t]
      PROVE  After(f, s) = After(g, s)
  <2>. DEFINE x == CHOOSE x \in s : TRUE
  <2>1. x \in via /\ Cardinality(s \ {x}) = Cardinality(s) - 1
    BY <1>1, <1>a
  <2>. HIDE DEF x
  <2>2. f[s \ {x}] = g[s \ {x}]
    BY <1>a, <2>1
  <2>. QED  BY <2>2 DEF x
<1>. HIDE DEF After
<1>b. \A s \in SUBSET via : Cardinality(s) \in Nat /\ (Cardinality(s) = 0 <=> s = {})
  BY <1>1
<1>3. Good(0)
  <2>. DEFINE f == [s \in Sized(0) |-> CERTAIN]
  <2>1. f \in [Sized(0) -> 0..CERTAIN] /\ \A s \in Sized(0) : f[s] = Body(f, s)
    <3>1. \A s \in Sized(0) : s = {}
      BY <1>b
    <3>. QED  BY <1>0, <3>1
  <2>. QED  BY <2>1
<1>4. ASSUME NEW n \in Nat, Good(n) PROVE Good(n + 1)
  <2>. PICK f \in [Sized(n) -> 0..CERTAIN] : \A s \in Sized(n) : f[s] = Body(f, s)
    BY <1>4
  <2>. DEFINE g == [s \in Sized(n + 1) |-> IF s \in Sized(n) THEN f[s] ELSE After(f, s)]
  <2>1. \A s \in Sized(n + 1) : \A t \in SUBSET s : Cardinality(t) = Cardinality(s) - 1 =>
            t \in Sized(n) /\ t \in Sized(n + 1)
    BY <1>b
  <2>2. \A s \in Sized(n + 1) : s \notin Sized(n) => s # {}
    BY <1>b
  <2>3. \A s \in Sized(n + 1) : g[s] \in 0..CERTAIN
    <3>. HIDE DEF Sized
    <3>1. \A s \in Sized(n) : f[s] \in 0..CERTAIN
      OBVIOUS
    <3>2. ASSUME NEW s \in Sized(n + 1), s \notin Sized(n) PROVE After(f, s) \in 0..CERTAIN
      <4>1. s \in SUBSET via
        BY DEF Sized
      <4>. QED  BY <1>2, <2>1, <2>2, <3>1, <3>2, <4>1
    <3>. QED  BY <3>1, <3>2
  <2>4. \A s \in Sized(n + 1) : s # {} => After(g, s) = After(f, s)
    <3>. SUFFICES ASSUME NEW s \in Sized(n + 1), s # {} PROVE After(g, s) = After(f, s)
      OBVIOUS
    <3>0. s \in SUBSET via
      OBVIOUS
    <3>. HIDE DEF Sized
    <3>1. \A t \in SUBSET s : Cardinality(t) = Cardinality(s) - 1 => g[t] = f[t]
      BY <2>1
    <3>. HIDE DEF g
    <3>. QED  BY <1>a, <3>0, <3>1
  <2>5. \A s \in Sized(n + 1) : g[s] = Body(g, s)
    <3>. SUFFICES ASSUME NEW s \in Sized(n + 1) PROVE g[s] = Body(g, s)
      OBVIOUS
    <3>1. g[s] = IF s \in Sized(n) THEN f[s] ELSE After(f, s)
      BY Zenon
    <3>2. s \in Sized(n) => f[s] = IF s = {} THEN CERTAIN ELSE After(f, s)
      BY Zenon
    <3>. HIDE DEF g, Sized
    <3>. QED  BY <2>2, <2>4, <3>1, <3>2
  <2>6. g \in [Sized(n + 1) -> 0..CERTAIN]
    <3>. HIDE DEF Sized, Body
    <3>. QED  BY <2>3
  <2>. HIDE DEF g, Sized, Body
  <2>. QED  BY <2>5, <2>6
<1>5. Bad = {}
  <2>. SUFFICES ASSUME Bad # {} PROVE FALSE
    OBVIOUS
  <2>. HIDE DEF Good
  <2>0. Bad \subseteq Nat
    OBVIOUS
  <2>1. PICK n \in Bad : \A k \in Bad : n <= k
    <3>. HIDE DEF Bad
    <3>. QED  BY <2>0, LeastNumber
  <2>2. n # 0 /\ n \in Nat
    BY <1>3, <2>1
  <2>3. n - 1 \in Nat /\ ~(n <= n - 1) /\ (n - 1) + 1 = n
    BY <2>2
  <2>4. Good(n - 1)
    BY <2>1, <2>3
  <2>5. Good(n)
    BY <1>4, <2>3, <2>4
  <2>. QED  BY <2>1, <2>5
<1>6. PICK f \in [SUBSET via -> 0..CERTAIN] : \A s \in SUBSET via : f[s] = Body(f, s)
  <2>. HIDE DEF Body
  <2>1. Cardinality(via) \in Nat
    BY <1>1
  <2>2. Sized(Cardinality(via)) = SUBSET via
    BY FS_Subset
  <2>3. Good(Cardinality(via))
    <3>. HIDE DEF Good
    <3>. QED  BY <1>5, <2>1
  <2>. HIDE DEF Sized
  <2>. QED  BY <2>2, <2>3
<1>7. f = [s \in SUBSET via |-> Body(f, s)]
  <2>. HIDE DEF Body
  <2>. QED  BY <1>6
<1>8. ASSUME NEW g, g = [s \in SUBSET via |-> Body(g, s)] PROVE g[via] \in 0..CERTAIN
  <2>. DEFINE Wrong == {n \in Nat : \E s \in SUBSET via : Cardinality(s) = n /\ g[s] \notin 0..CERTAIN}
  <2>0. \A s \in SUBSET via : g[s] = IF s = {} THEN CERTAIN ELSE After(g, s)
    BY <1>8, Zenon
  <2>1. Wrong = {}
    <3>. SUFFICES ASSUME Wrong # {} PROVE FALSE
      OBVIOUS
    <3>0. Wrong \subseteq Nat
      OBVIOUS
    <3>1. PICK n \in Wrong : \A k \in Wrong : n <= k
      <4>. HIDE DEF Wrong
      <4>. QED  BY <3>0, LeastNumber
    <3>2. PICK s \in SUBSET via : Cardinality(s) = n /\ g[s] \notin 0..CERTAIN
      BY <3>1
    <3>3. s # {}
      BY <1>0, <2>0, <3>2
    <3>4. ASSUME NEW t \in SUBSET s, Cardinality(t) = Cardinality(s) - 1 PROVE g[t] \in 0..CERTAIN
      <4>1. t \in SUBSET via /\ Cardinality(t) \in Nat /\ ~(n <= Cardinality(t))
        BY <1>b, <3>2, <3>4
      <4>2. Cardinality(t) \notin Wrong
        BY <3>1, <4>1
      <4>. QED  BY <4>1, <4>2
    <3>5. After(g, s) \in 0..CERTAIN
      BY <1>2, <3>3, <3>4
    <3>. QED  BY <1>0, <2>0, <3>2, <3>3, <3>5
  <2>2. Cardinality(via) \in Nat /\ via \in SUBSET via
    BY <1>1
  <2>. QED  BY <2>1, <2>2
<1>. DEFINE iter == CHOOSE g : g = [s \in SUBSET via |-> Body(g, s)]
<1>9. iter = [s \in SUBSET via |-> Body(iter, s)]
  <2>. HIDE DEF Body
  <2>. QED  BY <1>7
<1>10. Combined(via) = CERTAIN - iter[via]
  BY DEF Combined, FoldSet, MapThenFoldSet, After
<1>11. iter[via] \in 0..CERTAIN
  <2>. HIDE DEF iter, Body
  <2>. QED  BY <1>8, <1>9
<1>. HIDE DEF iter
<1>. QED  BY <1>0, <1>10, <1>11

\* A step that is repeated has a value after every number of times.
LEMMA Repeated ==
    ASSUME NEW X, NEW base \in X, NEW step \in [X -> X]
    PROVE  \E f \in [Nat -> X] : f[0] = base /\ \A n \in Nat : f[n + 1] = step[f[n]]
<1>. DEFINE Runs(n) == {f \in [0..n -> X] : f[0] = base /\ \A k \in 0..n : k # n => f[k + 1] = step[f[k]]}
            Bad == {n \in Nat : Runs(n) = {}}
            g == [n \in Nat |-> CHOOSE f : f \in Runs(n)]
            h == [n \in Nat |-> g[n][n]]
<1>1. Runs(0) # {}
  <2>. DEFINE f == [k \in 0..0 |-> base]
  <2>1. f \in Runs(0)
    OBVIOUS
  <2>. QED  BY <2>1
<1>2. ASSUME NEW n \in Nat, Runs(n) # {} PROVE Runs(n + 1) # {}
  <2>. PICK f : f \in Runs(n)
    BY <1>2
  <2>. DEFINE e == [k \in 0..n + 1 |-> IF k = n + 1 THEN step[f[n]] ELSE f[k]]
  <2>1. f \in [0..n -> X] /\ f[0] = base /\ \A k \in 0..n : k # n => f[k + 1] = step[f[k]]
    OBVIOUS
  <2>2. e \in [0..n + 1 -> X] /\ e[0] = base /\ \A k \in 0..n : e[k] = f[k]
    BY <2>1
  <2>3. ASSUME NEW k \in 0..n + 1, k # n + 1 PROVE e[k + 1] = step[e[k]]
    <3>1. CASE k = n
      BY <2>2, <3>1
    <3>2. CASE k # n
      <4>1. k \in 0..n /\ k + 1 \in 0..n /\ k # n
        BY <2>3, <3>2
      <4>. QED  BY <2>1, <2>2, <4>1
    <3>. QED  BY <3>1, <3>2
  <2>. HIDE DEF e
  <2>. QED  BY <2>2, <2>3
<1>3. \A n \in Nat : Runs(n) # {}
  <2>. SUFFICES ASSUME Bad # {} PROVE FALSE
    BY DEF Bad
  <2>. HIDE DEF Runs
  <2>0. Bad \subseteq Nat
    OBVIOUS
  <2>1. PICK n \in Bad : \A k \in Bad : n <= k
    <3>. HIDE DEF Bad
    <3>. QED  BY <2>0, LeastNumber
  <2>2. n # 0 /\ n \in Nat
    BY <1>1, <2>1
  <2>3. n - 1 \in Nat /\ ~(n <= n - 1) /\ (n - 1) + 1 = n
    BY <2>2
  <2>4. n - 1 \notin Bad
    BY <2>1, <2>3
  <2>. QED  BY <1>2, <2>1, <2>3, <2>4
<1>4. \A n \in Nat : g[n] \in Runs(n)
  <2>. HIDE DEF Runs
  <2>. QED  BY <1>3
<1>5. ASSUME NEW n \in Nat, NEW e \in Runs(n), NEW f \in Runs(n + 1), NEW k \in 0..n
      PROVE  e[k] = f[k]
  <2>. DEFINE Off == {j \in 0..n : e[j] # f[j]}
  <2>. SUFFICES ASSUME Off # {} PROVE FALSE
    OBVIOUS
  <2>0. Off \subseteq Nat
    OBVIOUS
  <2>1. PICK j \in Off : \A i \in Off : j <= i
    <3>. HIDE DEF Off
    <3>. QED  BY <2>0, LeastNumber
  <2>2. e[0] = base /\ f[0] = base
    OBVIOUS
  <2>3. j \in 1..n /\ j - 1 \in 0..n /\ j - 1 # n /\ j - 1 # n + 1 /\ (j - 1) + 1 = j /\ j - 1 \in 0..n + 1
    BY <2>1, <2>2
  <2>4. e[j] = step[e[j - 1]] /\ f[j] = step[f[j - 1]]
    BY <2>3
  <2>5. j - 1 \notin Off
    BY <2>1, <2>3
  <2>. QED  BY <2>1, <2>3, <2>4, <2>5
<1>6. h \in [Nat -> X] /\ h[0] = base
  <2>1. ASSUME NEW n \in Nat PROVE n \in 0..n /\ g[n] \in [0..n -> X] /\ g[n][0] = base
    <3>1. g[n] \in Runs(n)
      BY <1>4
    <3>. HIDE DEF g
    <3>. QED  BY <3>1
  <2>. HIDE DEF g, Runs
  <2>. QED  BY <2>1
<1>7. ASSUME NEW n \in Nat PROVE h[n + 1] = step[h[n]]
  <2>1. n + 1 \in Nat /\ n \in 0..n /\ n \in 0..n + 1 /\ n # n + 1
    OBVIOUS
  <2>2. g[n] \in Runs(n) /\ g[n + 1] \in Runs(n + 1)
    BY <1>4, <2>1
  <2>3. g[n + 1][n + 1] = step[g[n + 1][n]]
    <3>. HIDE DEF g
    <3>. QED  BY <2>1, <2>2
  <2>4. g[n][n] = g[n + 1][n]
    <3>. HIDE DEF g, Runs
    <3>. QED  BY <1>5, <2>1, <2>2
  <2>. HIDE DEF g
  <2>. QED  BY <2>1, <2>3, <2>4
<1>. HIDE DEF h
<1>. QED  BY <1>6, <1>7

\* The recursion of Within.
LEMMA WithinStep ==
    ASSUME NEW L
    PROVE  /\ Within(L)[0] = {Root}
           /\ \A n \in Nat : Within(L)[n + 1] =
                  Within(L)[n] \cup UNION {l \in L : l \cap Within(L)[n] # {}}
<1>. DEFINE All == {Root} \cup UNION L
            step == [S \in SUBSET All |-> S \cup UNION {l \in L : l \cap S # {}}]
            Body(f) == [n \in Nat |-> IF n = 0 THEN {Root}
                                      ELSE f[n - 1] \cup UNION {l \in L : l \cap f[n - 1] # {}}]
            reach == CHOOSE f : f = Body(f)
<1>1. step \in [SUBSET All -> SUBSET All] /\ {Root} \in SUBSET All
  OBVIOUS
<1>2. \A S \in SUBSET All : step[S] = S \cup UNION {l \in L : l \cap S # {}}
  OBVIOUS
<1>. HIDE DEF step, All
<1>3. PICK f \in [Nat -> SUBSET All] : f[0] = {Root} /\ \A n \in Nat : f[n + 1] = step[f[n]]
  <2>. DEFINE X == SUBSET All
              base == {Root}
  <2>1. step \in [X -> X] /\ base \in X
    BY <1>1
  <2>. HIDE DEF X, base
  <2>2. \E f \in [Nat -> X] : f[0] = base /\ \A n \in Nat : f[n + 1] = step[f[n]]
    BY <2>1, Repeated
  <2>. QED  BY <2>2 DEF X, base
<1>4. \A n \in Nat : f[n] = IF n = 0 THEN {Root}
                            ELSE f[n - 1] \cup UNION {l \in L : l \cap f[n - 1] # {}}
  <2>. SUFFICES ASSUME NEW n \in Nat, n # 0
                PROVE  f[n] = f[n - 1] \cup UNION {l \in L : l \cap f[n - 1] # {}}
    BY <1>3
  <2>1. n - 1 \in Nat /\ (n - 1) + 1 = n
    OBVIOUS
  <2>2. f[n] = step[f[n - 1]] /\ f[n - 1] \in SUBSET All
    BY <1>3, <2>1
  <2>. QED  BY <1>2, <2>2
<1>5. f = Body(f)
  BY <1>4
<1>6. reach = Body(reach)
  <2>. HIDE DEF Body
  <2>. QED  BY <1>5
<1>7. Within(L) = reach
  BY DEF Within
<1>. HIDE DEF reach
<1>8. reach[0] = {Root}
  BY <1>6
<1>9. ASSUME NEW n \in Nat
      PROVE  reach[n + 1] = reach[n] \cup UNION {l \in L : l \cap reach[n] # {}}
  <2>1. n + 1 \in Nat /\ n + 1 # 0 /\ (n + 1) - 1 = n
    OBVIOUS
  <2>2. Body(reach)[n + 1] = reach[(n + 1) - 1] \cup UNION {l \in L : l \cap reach[(n + 1) - 1] # {}}
    BY <2>1
  <2>. HIDE DEF Body
  <2>. QED  BY <1>6, <2>1, <2>2
<1>. QED  BY <1>7, <1>8, <1>9

FoundNow == Found(frontier, ask.maxFanout)
StrongNow == {l \in DOMAIN FoundNow : Strong(FoundNow[l])}
CandidatesNow == Reachable(FoundNow, StrongNow) \ DOMAIN persons
NextNow == FirstOf(CandidatesNow, ask.maxPersons - Cardinality(DOMAIN persons))

\* The graph and the request stay, and with them all that depends on them.
LEMMA GraphStays ==
    ASSUME edges' = edges, ask' = ask
    PROVE  /\ DirectIsPersonal' <=> DirectIsPersonal
           /\ \A c : Owners(c)' = Owners(c)
           /\ Plain' <=> Plain
           /\ Projection' = Projection
<1>1. DirectIsPersonal' <=> DirectIsPersonal
  BY DEF DirectIsPersonal
<1>2. ASSUME NEW c PROVE Owners(c)' = Owners(c)
  BY DEF Owners, Neighbors, Ends
<1>3. Plain' <=> Plain
  BY <1>1, <1>2 DEF Plain
<1>4. ASSUME NEW p, NEW q PROVE Projected(p, q)' <=> Projected(p, q)
  BY <1>2 DEF Projected
<1>5. Projection' = Projection
  BY <1>4 DEF Projection
<1>. QED  BY <1>1, <1>2, <1>3, <1>5

\* Reasons that are merged are there, under their keys.
LEMMA Merged ==
    ASSUME NEW existing, NEW incoming
    PROVE  /\ existing \subseteq MergeVia(existing, incoming)
           /\ MergeVia(existing, incoming) \subseteq existing \cup incoming
           /\ \A r \in incoming : \E s \in MergeVia(existing, incoming) : ViaKey(s) = ViaKey(r)
<1>. DEFINE new == {ViaKey(r) : r \in incoming} \ {ViaKey(r) : r \in existing}
            Pick(k) == CHOOSE r \in incoming : ViaKey(r) = k
<1>1. MergeVia(existing, incoming) = existing \cup {Pick(k) : k \in new}
  BY DEF MergeVia
<1>2. ASSUME NEW k \in new PROVE Pick(k) \in incoming /\ ViaKey(Pick(k)) = k
  <2>1. \E r \in incoming : ViaKey(r) = k
    OBVIOUS
  <2>. QED  BY <2>1
<1>. HIDE DEF Pick
<1>3. ASSUME NEW r \in incoming
      PROVE  \E s \in MergeVia(existing, incoming) : ViaKey(s) = ViaKey(r)
  <2>1. CASE ViaKey(r) \in new
    BY <1>1, <1>2, <2>1
  <2>2. CASE ViaKey(r) \notin new
    BY <1>1, <2>2
  <2>. QED  BY <2>1, <2>2
<1>. HIDE DEF new
<1>. QED  BY <1>1, <1>2, <1>3

\* What a turn of the loop does.
LEMMA TurnOfLoop ==
    ASSUME ExpandLevel
    PROVE  /\ level < ask.degree /\ level' = level + 1 /\ edges' = edges /\ ask' = ask
           /\ DOMAIN links' = DOMAIN links \cup StrongNow
           /\ \A l \in DOMAIN links \ StrongNow : links'[l] = links[l]
           /\ \A l \in DOMAIN links \cap StrongNow : links'[l] = MergeVia(links[l], FoundNow[l])
           /\ \A l \in StrongNow \ DOMAIN links : links'[l] = FoundNow[l]
           /\ suppressed' = suppressed \cup {c \in Connectors(frontier) : Hub(c, ask.maxFanout)}
           /\ DOMAIN persons' = DOMAIN persons \cup NextNow
           /\ \A p \in DOMAIN persons \ NextNow : persons'[p] = persons[p]
           /\ \A p \in NextNow : persons'[p] = level + 1
           /\ truncated' = (truncated \/ NextNow # CandidatesNow)
           /\ frontier' = NextNow
           /\ NextNow \subseteq CandidatesNow
<1>. DEFINE found == Found(frontier, ask.maxFanout)
            strong == {l \in DOMAIN found : Strong(found[l])}
            candidates == Reachable(found, strong) \ DOMAIN persons
            next == FirstOf(candidates, ask.maxPersons - Cardinality(DOMAIN persons))
<1>a. /\ level < ask.degree /\ level' = level + 1 /\ edges' = edges /\ ask' = ask
      /\ suppressed' = suppressed \cup {c \in Connectors(frontier) : Hub(c, ask.maxFanout)}
      /\ truncated' = (truncated \/ next # candidates)
      /\ frontier' = next
  BY SMT DEF ExpandLevel
<1>b. persons' = [p \in DOMAIN persons \cup next |-> IF p \in next THEN level + 1 ELSE persons[p]]
  BY SMT DEF ExpandLevel
<1>c. links' = [l \in DOMAIN links \cup strong |->
                   IF l \notin strong THEN links[l]
                   ELSE IF l \in DOMAIN links THEN MergeVia(links[l], found[l]) ELSE found[l]]
  BY SMT DEF ExpandLevel
<1>d. found = FoundNow /\ strong = StrongNow /\ candidates = CandidatesNow /\ next = NextNow
  <2>1. found = FoundNow /\ strong = StrongNow
    BY DEF FoundNow, StrongNow
  <2>. HIDE DEF found, strong
  <2>2. candidates = CandidatesNow
    BY <2>1 DEF CandidatesNow
  <2>. HIDE DEF candidates
  <2>. QED  BY <2>1, <2>2 DEF NextNow
<1>. HIDE DEF found, strong, candidates, next
<1>1. /\ level < ask.degree /\ level' = level + 1 /\ edges' = edges /\ ask' = ask
      /\ suppressed' = suppressed \cup {c \in Connectors(frontier) : Hub(c, ask.maxFanout)}
      /\ truncated' = (truncated \/ NextNow # CandidatesNow)
      /\ frontier' = NextNow
  BY <1>a, <1>d
<1>2. persons' = [p \in DOMAIN persons \cup NextNow |-> IF p \in NextNow THEN level + 1 ELSE persons[p]]
  BY <1>b, <1>d
<1>3. links' = [l \in DOMAIN links \cup StrongNow |->
                   IF l \notin StrongNow THEN links[l]
                   ELSE IF l \in DOMAIN links THEN MergeVia(links[l], FoundNow[l]) ELSE FoundNow[l]]
  BY <1>c, <1>d
<1>4. NextNow \subseteq CandidatesNow
  BY DEF NextNow, FirstOf
<1>5. /\ DOMAIN links' = DOMAIN links \cup StrongNow
      /\ \A l \in DOMAIN links \ StrongNow : links'[l] = links[l]
      /\ \A l \in DOMAIN links \cap StrongNow : links'[l] = MergeVia(links[l], FoundNow[l])
      /\ \A l \in StrongNow \ DOMAIN links : links'[l] = FoundNow[l]
  BY <1>3
<1>6. /\ DOMAIN persons' = DOMAIN persons \cup NextNow
      /\ \A p \in DOMAIN persons \ NextNow : persons'[p] = persons[p]
      /\ \A p \in NextNow : persons'[p] = level + 1
  BY <1>2
<1>. QED  BY <1>1, <1>4, <1>5, <1>6

\* The people found are at the degrees done, and those at the last one are next.
PeopleInv ==
    /\ edges \in Graphs /\ ask \in Asked
    /\ level \in 0..ask.degree
    /\ DOMAIN persons \subseteq People
    /\ Root \in DOMAIN persons /\ persons[Root] = 0
    /\ \A p \in DOMAIN persons : persons[p] \in 0..level
    /\ frontier = {p \in DOMAIN persons : persons[p] = level}
    /\ suppressed \subseteq Things /\ truncated \in BOOLEAN

\* A reason by one thing is by one that both have and few others do.
LinksInv ==
    /\ DOMAIN links \subseteq Pair
    /\ \A l \in DOMAIN links : \A r \in links[l] :
           /\ r.conf \in 0..600
           /\ \A c : r.by = {c} =>
                  c \in Things /\ ~Hub(c, ask.maxFanout) /\ l \subseteq Owners(c)
    /\ \A c \in suppressed : Hub(c, ask.maxFanout)

\* What is known of the request.
LEMMA AskedIs ==
    ASSUME PeopleInv
    PROVE  /\ ask.degree \in 1..4 /\ ask.minConfidence \in 0..600
           /\ ask.maxFanout \in Nat /\ ask.maxPersons \in Nat \ {0}
           /\ ask.for # "network" => ask.minConfidence = 0
           /\ ask.for = "risk" => ask.degree = 3
           /\ level \in Nat /\ frontier \subseteq People /\ frontier \subseteq DOMAIN persons
  BY AskedAssumption DEF PeopleInv

\* Without a threshold every link found is kept.
LEMMA AllAreStrong ==
    ASSUME PeopleInv, ask.minConfidence = 0
    PROVE  StrongNow = DOMAIN FoundNow
<1>. SUFFICES ASSUME NEW l \in DOMAIN FoundNow PROVE Strong(FoundNow[l])
  BY DEF StrongNow
<1>1. IsFiniteSet(FoundNow[l]) /\ \A r \in FoundNow[l] : r.conf \in 0..600
  BY ReasonsAreFinite, ReasonIsConfident DEF FoundNow, PeopleInv
<1>2. Combined(FoundNow[l]) \in 0..CERTAIN
  BY <1>1, CombinedIsConfidence
<1>3. CERTAIN \in Nat
  BY DEF CERTAIN
<1>. HIDE DEF CERTAIN
<1>. QED  BY <1>2, <1>3 DEF Strong

\* The strong links are among those found.
LEMMA StrongAreFound ==
    StrongNow \subseteq DOMAIN FoundNow /\ StrongNow \subseteq Pair
  BY FoundArePairs DEF StrongNow, FoundNow

\* The candidates are at the ends of strong links.
LEMMA CandidatesAre ==
    CandidatesNow = (UNION StrongNow) \ DOMAIN persons
  BY Zenon DEF CandidatesNow, Reachable

\* A level keeps what is said of people.
LEMMA ExpandPeopleInv ==
    ASSUME PeopleInv, ExpandLevel
    PROVE  PeopleInv'
<1>1. /\ level < ask.degree /\ level' = level + 1 /\ edges' = edges /\ ask' = ask
      /\ suppressed' = suppressed \cup {c \in Connectors(frontier) : Hub(c, ask.maxFanout)}
      /\ DOMAIN persons' = DOMAIN persons \cup NextNow
      /\ \A p \in DOMAIN persons \ NextNow : persons'[p] = persons[p]
      /\ \A p \in NextNow : persons'[p] = level + 1
      /\ truncated' = (truncated \/ NextNow # CandidatesNow)
      /\ frontier' = NextNow
      /\ NextNow \subseteq CandidatesNow
  BY TurnOfLoop
<1>2. NextNow \subseteq People /\ NextNow \cap DOMAIN persons = {}
  <2>1. UNION StrongNow \subseteq People
    BY StrongAreFound DEF Pair
  <2>. QED  BY <1>1, <2>1, CandidatesAre
<1>3. suppressed' \subseteq Things
  BY <1>1, ConnectorsAreThings DEF PeopleInv
<1>4. level' \in 0..ask.degree
  BY <1>1, AskedIs
<1>5. \A p \in DOMAIN persons' : persons'[p] \in 0..level' /\ (persons'[p] = level' <=> p \in NextNow)
  <2>1. ASSUME NEW p \in DOMAIN persons \ NextNow
        PROVE  persons'[p] \in 0..level' /\ persons'[p] # level'
    BY <1>1, AskedIs DEF PeopleInv
  <2>2. ASSUME NEW p \in NextNow PROVE persons'[p] \in 0..level' /\ persons'[p] = level'
    BY <1>1, AskedIs
  <2>. QED  BY <1>1, <2>1, <2>2
<1>6. Root \in DOMAIN persons' /\ persons'[Root] = 0
  BY <1>1, <1>2 DEF PeopleInv
<1>7. frontier' = {p \in DOMAIN persons' : persons'[p] = level'}
  BY <1>1, <1>5
<1>8. DOMAIN persons' \subseteq People /\ truncated' \in BOOLEAN
  BY <1>1, <1>2 DEF PeopleInv
<1>. QED  BY <1>1, <1>3, <1>4, <1>5, <1>6, <1>7, <1>8 DEF PeopleInv

\* A level keeps what is said of reasons.
LEMMA ExpandLinksInv ==
    ASSUME PeopleInv, LinksInv, ExpandLevel
    PROVE  LinksInv'
<1>1. /\ edges' = edges /\ ask' = ask
      /\ DOMAIN links' = DOMAIN links \cup StrongNow
      /\ \A l \in DOMAIN links \ StrongNow : links'[l] = links[l]
      /\ \A l \in DOMAIN links \cap StrongNow : links'[l] = MergeVia(links[l], FoundNow[l])
      /\ \A l \in StrongNow \ DOMAIN links : links'[l] = FoundNow[l]
      /\ suppressed' = suppressed \cup {c \in Connectors(frontier) : Hub(c, ask.maxFanout)}
  BY TurnOfLoop
<1>2. \A c : Owners(c)' = Owners(c)
  BY <1>1, GraphStays
<1>3. \A c : Hub(c, ask.maxFanout)' <=> Hub(c, ask.maxFanout)
  BY <1>1, <1>2 DEF Hub
<1>4. DOMAIN links' \subseteq Pair
  BY <1>1, StrongAreFound DEF LinksInv
<1>5. ASSUME NEW l \in StrongNow, NEW r \in FoundNow[l]
      PROVE  /\ r.conf \in 0..600
             /\ \A c : r.by = {c} => c \in Things /\ ~Hub(c, ask.maxFanout) /\ l \subseteq Owners(c)
  <2>1. l \in DOMAIN Found(frontier, ask.maxFanout) /\ r \in Found(frontier, ask.maxFanout)[l]
    BY StrongAreFound DEF FoundNow
  <2>2. r.conf \in 0..600
    BY <2>1, ReasonIsConfident
  <2>3. ASSUME NEW c, r.by = {c}
        PROVE  c \in Things /\ ~Hub(c, ask.maxFanout) /\ l \subseteq Owners(c)
    BY <2>1, <2>3, ByIsShared, ConnectorsAreThings DEF PeopleInv
  <2>. QED  BY <2>2, <2>3
<1>6. ASSUME NEW l \in DOMAIN links', NEW r \in links'[l]
      PROVE  \/ l \in DOMAIN links /\ r \in links[l]
             \/ l \in StrongNow /\ r \in FoundNow[l]
  <2>1. CASE l \in DOMAIN links \ StrongNow
    BY <1>1, <1>6, <2>1
  <2>2. CASE l \in DOMAIN links \cap StrongNow
    BY <1>1, <1>6, <2>2, Merged
  <2>3. CASE l \in StrongNow \ DOMAIN links
    BY <1>1, <1>6, <2>3
  <2>. QED  BY <1>1, <2>1, <2>2, <2>3
<1>7. ASSUME NEW l \in DOMAIN links', NEW r \in links'[l]
      PROVE  /\ r.conf \in 0..600
             /\ \A c : r.by = {c} => c \in Things /\ ~Hub(c, ask.maxFanout) /\ l \subseteq Owners(c)
  <2>1. CASE l \in DOMAIN links /\ r \in links[l]
    BY <2>1 DEF LinksInv
  <2>2. CASE l \in StrongNow /\ r \in FoundNow[l]
    BY <1>5, <2>2
  <2>. QED  BY <1>6, <1>7, <2>1, <2>2
<1>8. \A c \in suppressed' : Hub(c, ask.maxFanout)
  BY <1>1 DEF LinksInv
<1>. QED  BY <1>2, <1>3, <1>4, <1>7, <1>8 DEF LinksInv

\* Who is shown has a link to somebody a degree nearer.
JoinedInv ==
    Plain => \A p \in DOMAIN persons \ {Root} :
                 \E f \in DOMAIN persons : persons[p] = persons[f] + 1 /\ {f, p} \in DOMAIN links

\* Whoever is at the end of a strong link is in the frontier or next to it.
LEMMA StrongFromFrontier ==
    ASSUME PeopleInv, Plain, NEW l \in StrongNow, NEW p \in l
    PROVE  p \in frontier \/ \E f \in frontier : f # p /\ {f, p} \in StrongNow
<1>0. /\ l \in DOMAIN Found(frontier, ask.maxFanout) /\ l \in Pair
      /\ frontier \subseteq People /\ edges \in Graphs /\ DirectIsPersonal
  BY StrongAreFound, AskedIs DEF FoundNow, PeopleInv, Plain
<1>1. CASE ask.minConfidence = 0
  <2>1. p \in frontier \/ \E f \in frontier : f # p /\ {f, p} \in DOMAIN FoundNow
    BY <1>0, FoundFromFrontier DEF FoundNow
  <2>. QED  BY <1>1, <2>1, AllAreStrong
<1>2. CASE ask.minConfidence # 0
  <2>1. PICK f \in frontier : f \in l
    BY <1>0, <1>2, FoundAtFrontier
  <2>2. p = f \/ l = {f, p}
    BY <1>0, <2>1, TwoPeople
  <2>. QED  BY <2>1, <2>2
<1>. QED  BY <1>1, <1>2

\* A level joins whom it finds.
LEMMA ExpandJoinedInv ==
    ASSUME PeopleInv, JoinedInv, ExpandLevel
    PROVE  JoinedInv'
<1>1. /\ edges' = edges /\ ask' = ask
      /\ DOMAIN links' = DOMAIN links \cup StrongNow
      /\ DOMAIN persons' = DOMAIN persons \cup NextNow
      /\ \A p \in DOMAIN persons \ NextNow : persons'[p] = persons[p]
      /\ \A p \in NextNow : persons'[p] = level + 1
      /\ NextNow \subseteq (UNION StrongNow) \ DOMAIN persons
  BY TurnOfLoop, CandidatesAre
<1>2. Plain' => Plain
  BY <1>1, GraphStays
<1>3. \A p \in DOMAIN persons : p \in DOMAIN persons' /\ persons'[p] = persons[p]
  BY <1>1
<1>4. ASSUME Plain, NEW p \in DOMAIN persons', p # Root
      PROVE  \E f \in DOMAIN persons' : persons'[p] = persons'[f] + 1 /\ {f, p} \in DOMAIN links'
  <2>1. CASE p \in DOMAIN persons
    <3>1. PICK f \in DOMAIN persons : persons[p] = persons[f] + 1 /\ {f, p} \in DOMAIN links
      BY <1>4, <2>1 DEF JoinedInv
    <3>. QED  BY <1>1, <1>3, <2>1, <3>1
  <2>2. CASE p \in NextNow
    <3>1. PICK l \in StrongNow : p \in l
      BY <1>1, <2>2
    <3>2. p \notin frontier
      BY <1>1, <2>2, AskedIs
    <3>3. PICK f \in frontier : {f, p} \in StrongNow
      BY <1>4, <3>1, <3>2, StrongFromFrontier
    <3>4. f \in DOMAIN persons /\ persons[f] = level
      BY <3>3 DEF PeopleInv
    <3>. QED  BY <1>1, <1>3, <2>2, <3>3, <3>4
  <2>. QED  BY <1>1, <2>1, <2>2
<1>. QED  BY <1>2, <1>4 DEF JoinedInv

\* Going back one degree at a time leads to the root.
LEMMA JoinedByShown ==
    ASSUME PeopleInv, JoinedInv
    PROVE  FoundIsConnected
<1>. SUFFICES ASSUME Plain, NEW q \in DOMAIN persons
              PROVE  q \in Within(KeptLinks)[persons[q]]
  BY DEF FoundIsConnected, ShownIsJoined
<1>. DEFINE W == Within(KeptLinks)
            Bad == {n \in Nat : \E p \in DOMAIN persons : persons[p] = n /\ p \notin W[n]}
<1>1. \A p \in DOMAIN persons : persons[p] \in Nat
  BY AskedIs DEF PeopleInv
<1>2. W[0] = {Root} /\ \A n \in Nat : W[n + 1] = W[n] \cup UNION {l \in KeptLinks : l \cap W[n] # {}}
  BY WithinStep
<1>. HIDE DEF W
<1>3. Bad = {}
  <2>. SUFFICES ASSUME Bad # {} PROVE FALSE
    OBVIOUS
  <2>0. Bad \subseteq Nat
    OBVIOUS
  <2>1. PICK n \in Bad : \A k \in Bad : n <= k
    <3>. HIDE DEF Bad
    <3>. QED  BY <2>0, LeastNumber
  <2>2. PICK p \in DOMAIN persons : persons[p] = n /\ p \notin W[n]
    BY <2>1
  <2>3. p # Root
    BY <1>2, <2>2 DEF PeopleInv
  <2>4. PICK f \in DOMAIN persons : persons[p] = persons[f] + 1 /\ {f, p} \in DOMAIN links
    BY <2>3 DEF JoinedInv
  <2>5. persons[f] \in Nat /\ n = persons[f] + 1 /\ ~(n <= persons[f])
    BY <1>1, <2>2, <2>4
  <2>6. f \in W[persons[f]]
    BY <2>1, <2>5
  <2>7. {f, p} \in KeptLinks
    BY <2>4 DEF KeptLinks
  <2>8. p \in W[n]
    BY <1>2, <2>5, <2>6, <2>7
  <2>. QED  BY <2>2, <2>8
<1>4. q \in W[persons[q]]
  BY <1>1, <1>3
<1>. QED  BY <1>4 DEF W

\* When nothing is cut, the people at the first n degrees are those in a
\* distance of n.
Whole == DirectIsPersonal /\ ask.minConfidence = 0 /\ ~truncated
BallInv ==
    Whole => \A n \in 0..level : Within(Projection)[n] = {p \in DOMAIN persons : persons[p] <= n}

\* What is not a hub has few owners.
LEMMA HubOrNot ==
    ASSUME PeopleInv, NEW c
    PROVE  ~Hub(c, ask.maxFanout) <=> Cardinality(Owners(c)) <= ask.maxFanout
<1>1. IsFiniteSet(Owners(c))
  BY PeopleAreFinite, FS_Subset DEF Owners
<1>2. Cardinality(Owners(c)) \in Nat /\ ask.maxFanout \in Nat
  BY <1>1, FS_CardinalityType, AskedIs
<1>. QED  BY <1>2 DEF Hub

\* What is found is in the projection.
LEMMA FoundIsProjected ==
    ASSUME PeopleInv, NEW l \in DOMAIN FoundNow
    PROVE  l \in Projection
<1>. DEFINE m == ask.maxFanout
<1>0. l \in DOMAIN Found(frontier, m) /\ l \in Pair /\ edges \in Graphs
  BY FoundArePairs DEF FoundNow, PeopleInv
<1>1. PICK u, v \in People : u # v /\ l = {u, v}
  BY <1>0, TwoPeople
<1>2. CASE \E e \in Neighbors(frontier, DIRECT_EDGES) : {e.src, e.dst} = l
  <2>1. Projected(u, v)
    BY <1>1, <1>2 DEF Projected, Neighbors
  <2>. QED  BY <1>0, <1>1, <2>1 DEF Projection
<1>3. CASE \E c \in Connectors(frontier) : ~Hub(c, m) /\ l \subseteq Owners(c)
  <2>1. Projected(u, v)
    BY <1>0, <1>1, <1>3, ConnectorsAreThings, HubOrNot DEF Projected
  <2>. QED  BY <1>0, <1>1, <2>1 DEF Projection
<1>4. CASE \E b \in Bridges(frontier, m), x, y \in l :
               l = {x, y} /\ x # y /\ x \in Owners(b.near) /\ y \in Owners(b.far)
  <2>. PICK b \in Bridges(frontier, m), x \in l, y \in l :
               l = {x, y} /\ x # y /\ x \in Owners(b.near) /\ y \in Owners(b.far)
    BY <1>4
  <2>1. /\ b.near \in Things /\ b.far \in Things
        /\ TagOf[b.near] \in BRIDGE_TAGS /\ TagOf[b.far] \in BRIDGE_TAGS
        /\ Cardinality(Owners(b.near)) <= m /\ Cardinality(Owners(b.far)) <= m
        /\ b.e \in edges /\ b.e.type \in BRIDGE_EDGES /\ {b.e.src, b.e.dst} = {b.near, b.far}
    BY <1>0, BridgeEnds, HubOrNot
  <2>2. \/ b.e.src = b.near /\ b.e.dst = b.far
        \/ b.e.src = b.far /\ b.e.dst = b.near
    BY <2>1
  <2>3. Projected(x, y)
    BY <2>1, <2>2 DEF Projected
  <2>. QED  BY <1>0, <2>3 DEF Projection
<1>. QED  BY <1>0, <1>2, <1>3, <1>4, WhyFound

\* Who is linked in the projection to somebody in the frontier is found.
LEMMA ProjectedIsFound ==
    ASSUME PeopleInv, DirectIsPersonal, NEW l \in Projection, NEW x \in l, x \in frontier, NEW p \in l
    PROVE  p \in frontier \/ p \in UNION DOMAIN FoundNow
<1>. DEFINE m == ask.maxFanout
            F == frontier
<1>. SUFFICES ASSUME p \notin F PROVE \E k \in DOMAIN FoundNow : p \in k
  OBVIOUS
<1>0. /\ l \in Pair /\ F \subseteq People /\ edges \in Graphs
      /\ FoundNow = Found(F, m) /\ p # x /\ p \in People /\ x \in People
  BY AskedIs, TwoPeople DEF Projection, FoundNow, PeopleInv
<1>1. l = {x, p}
  BY <1>0, TwoPeople
<1>2. Projected(x, p) \/ Projected(p, x)
  BY <1>0, <1>1 DEF Projection
<1>3. ASSUME NEW c \in Things, Cardinality(Owners(c)) <= m, p \in Owners(c), NEW f \in F, f \in Owners(c)
      PROVE  \E k \in DOMAIN FoundNow : p \in k
  <2>1. c \in Connectors(F) /\ ~Hub(c, m)
    BY <1>3, HadIsConnector, HubOrNot
  <2>2. {f, p} \in Pair /\ {f, p} \subseteq Owners(c)
    BY <1>0, <1>3, PairOfTwo
  <2>3. {f, p} \in DOMAIN Found(F, m)
    BY <2>1, <2>2, SharedIsReason
  <2>. QED  BY <1>0, <2>3
<1>4. CASE \E e \in edges : e.type \in DIRECT_EDGES /\ {e.src, e.dst} = l
  <2>1. PICK e \in Neighbors(F, DIRECT_EDGES) : {e.src, e.dst} = l
    BY <1>4 DEF Neighbors
  <2>2. l \in DOMAIN Found(F, m)
    BY <1>0, <2>1, DirectIsReason
  <2>. QED  BY <1>0, <2>2
<1>5. CASE \E c \in Things : Cardinality(Owners(c)) <= m /\ l \subseteq Owners(c)
  BY <1>3, <1>5
<1>6. CASE \E e \in edges :
               /\ e.type \in BRIDGE_EDGES
               /\ {e.src, e.dst} \subseteq {c \in Things : TagOf[c] \in BRIDGE_TAGS /\ Cardinality(Owners(c)) <= m}
               /\ \/ x \in Owners(e.src) /\ p \in Owners(e.dst)
                  \/ p \in Owners(e.src) /\ x \in Owners(e.dst)
  <2>. PICK e \in edges :
               /\ e.type \in BRIDGE_EDGES
               /\ {e.src, e.dst} \subseteq {c \in Things : TagOf[c] \in BRIDGE_TAGS /\ Cardinality(Owners(c)) <= m}
               /\ \/ x \in Owners(e.src) /\ p \in Owners(e.dst)
                  \/ p \in Owners(e.src) /\ x \in Owners(e.dst)
    BY <1>6
  <2>1. PICK c \in Things, d \in Things :
            /\ {e.src, e.dst} = {c, d} /\ x \in Owners(c) /\ p \in Owners(d)
            /\ TagOf[c] \in BRIDGE_TAGS /\ TagOf[d] \in BRIDGE_TAGS
            /\ Cardinality(Owners(c)) <= m /\ Cardinality(Owners(d)) <= m
    OBVIOUS
  <2>2. c \in Near(F)
    <3>1. c \in Connectors(F)
      BY <2>1, HadIsConnector
    <3>. QED  BY <2>1, <3>1 DEF Near
  <2>3. CASE d \in Near(F)
    <3>1. PICK f \in F : f \in Owners(d)
      BY <1>0, <2>3, ConnectorIsHad DEF Near
    <3>. QED  BY <1>3, <2>1, <3>1
  <2>4. CASE d \notin Near(F)
    <3>. DEFINE b == [e |-> e, near |-> c, far |-> d]
    <3>1. e \in Neighbors(Near(F), BRIDGE_EDGES) /\ d \in Things \ Near(F)
      BY <2>1, <2>2, <2>4 DEF Neighbors
    <3>2. ~Hub(c, m) /\ ~Hub(d, m) /\ Owners(d) # {}
      BY <2>1, HubOrNot
    <3>3. b \in Bridges(F, m)
      BY <2>1, <2>2, <3>1, <3>2 DEF Bridges
    <3>4. b.near = c /\ b.far = d
      OBVIOUS
    <3>. HIDE DEF b
    <3>5. {x, p} \in DOMAIN Found(F, m)
      BY <1>0, <2>1, <3>3, <3>4, BridgeIsReason
    <3>. QED  BY <1>0, <3>5
  <2>. QED  BY <2>3, <2>4
<1>. QED  BY <1>1, <1>2, <1>4, <1>5, <1>6 DEF Projected

\* A level adds the people at the next distance, all of them and nobody else.
LEMMA ExpandBallInv ==
    ASSUME PeopleInv, BallInv, ExpandLevel
    PROVE  BallInv'
<1>. DEFINE W == Within(Projection)
<1>1. /\ level' = level + 1 /\ edges' = edges /\ ask' = ask
      /\ DOMAIN persons' = DOMAIN persons \cup NextNow
      /\ \A p \in DOMAIN persons \ NextNow : persons'[p] = persons[p]
      /\ \A p \in NextNow : persons'[p] = level + 1
      /\ truncated' = (truncated \/ NextNow # CandidatesNow)
      /\ NextNow \subseteq CandidatesNow
  BY TurnOfLoop
<1>2. Projection' = Projection /\ (DirectIsPersonal' <=> DirectIsPersonal)
  BY <1>1, GraphStays
<1>3. SUFFICES ASSUME Whole, NextNow = CandidatesNow, NEW n \in 0..level + 1
               PROVE  W[n] = {p \in DOMAIN persons' : persons'[p] <= n}
  <2>1. Whole' => Whole /\ NextNow = CandidatesNow
    BY <1>1, <1>2 DEF Whole
  <2>2. Within(Projection)' = Within(Projection)
    BY <1>2
  <2>. HIDE DEF W
  <2>. QED  BY <1>1, <2>1, <2>2 DEF BallInv, W
<1>4. StrongNow = DOMAIN FoundNow
  BY <1>3, AllAreStrong DEF Whole
<1>5. NextNow = (UNION DOMAIN FoundNow) \ DOMAIN persons
  BY <1>3, <1>4, CandidatesAre
<1>6. level \in Nat /\ \A p \in DOMAIN persons : persons[p] \in 0..level /\ persons'[p] = persons[p]
  BY <1>1, <1>5, AskedIs DEF PeopleInv
<1>7. \A k \in 0..level : W[k] = {p \in DOMAIN persons : persons[p] <= k}
  BY <1>3 DEF BallInv
<1>8. \A k \in Nat : W[k + 1] = W[k] \cup UNION {l \in Projection : l \cap W[k] # {}}
  BY WithinStep
<1>. HIDE DEF W
<1>9. CASE n # level + 1
  <2>1. n \in 0..level
    BY <1>6, <1>9
  <2>2. \A p \in NextNow : ~(persons'[p] <= n)
    BY <1>1, <1>6, <2>1
  <2>. QED  BY <1>1, <1>6, <1>7, <2>1, <2>2
<1>10. CASE n = level + 1
  <2>1. W[level] = DOMAIN persons
    BY <1>6, <1>7
  <2>2. W[n] = DOMAIN persons \cup UNION {l \in Projection : l \cap DOMAIN persons # {}}
    BY <1>6, <1>8, <1>10, <2>1
  <2>3. {p \in DOMAIN persons' : persons'[p] <= n} = DOMAIN persons \cup NextNow
    <3>1. \A p \in DOMAIN persons : persons'[p] <= n
      BY <1>6, <1>10
    <3>2. \A p \in NextNow : persons'[p] <= n
      BY <1>1, <1>6, <1>10
    <3>. QED  BY <1>1, <3>1, <3>2
  <2>4. ASSUME NEW p \in NextNow PROVE p \in W[n]
    <3>1. PICK l \in DOMAIN FoundNow : p \in l
      BY <1>5
    <3>2. l \in StrongNow /\ Plain
      BY <1>3, <1>4 DEF Whole, Plain
    <3>3. p \notin frontier
      BY <1>5, AskedIs
    <3>4. PICK f \in frontier : f # p /\ {f, p} \in StrongNow
      BY <3>1, <3>2, <3>3, StrongFromFrontier
    <3>5. {f, p} \in Projection
      BY <1>4, <3>4, FoundIsProjected
    <3>. QED  BY <2>2, <3>4, <3>5, AskedIs
  <2>5. ASSUME NEW p \in W[n], p \notin DOMAIN persons PROVE p \in NextNow
    <3>1. PICK l \in Projection, x \in DOMAIN persons : x \in l /\ p \in l
      BY <2>2, <2>5
    <3>2. p \notin frontier
      BY <2>5, AskedIs
    <3>3. CASE x \in frontier
      BY <1>3, <1>5, <2>5, <3>1, <3>2, <3>3, ProjectedIsFound DEF Whole
    <3>4. CASE x \notin frontier
      <4>1. persons[x] \in 0..level /\ persons[x] # level
        BY <1>6, <3>4 DEF PeopleInv
      <4>. DEFINE k == persons[x]
      <4>2. k \in 0..level /\ k + 1 \in 0..level /\ k \in Nat
        BY <1>6, <4>1
      <4>3. x \in W[k]
        BY <1>7, <4>2
      <4>. HIDE DEF k
      <4>4. p \in W[k + 1]
        BY <1>8, <3>1, <4>2, <4>3
      <4>. QED  BY <1>7, <2>5, <4>2, <4>4
    <3>. QED  BY <3>3, <3>4
  <2>6. DOMAIN persons \subseteq W[n]
    BY <2>2
  <2>. QED  BY <2>3, <2>4, <2>5, <2>6
<1>. QED  BY <1>9, <1>10

\* The balls give the degrees.
LEMMA BallIsDistance ==
    ASSUME PeopleInv, BallInv
    PROVE  DegreeIsDistance
<1>. SUFFICES ASSUME Whole
              PROVE  LET projection == Projection
                         reach == [n \in 0..level |-> Within(projection)[n]]
                     IN  /\ DOMAIN persons = reach[level]
                         /\ \A p \in DOMAIN persons : \A n \in 0..level : p \in reach[n] => persons[p] <= n
  BY DEF DegreeIsDistance, Whole, Plain
<1>1. level \in 0..level /\ \A p \in DOMAIN persons : persons[p] \in 0..level
  BY AskedIs DEF PeopleInv
<1>2. \A n \in 0..level : Within(Projection)[n] = {p \in DOMAIN persons : persons[p] <= n}
  BY DEF BallInv
<1>. DEFINE reach == [n \in 0..level |-> Within(Projection)[n]]
<1>3. \A n \in 0..level : reach[n] = {p \in DOMAIN persons : persons[p] <= n}
  BY <1>2
<1>. HIDE DEF reach
<1>4. DOMAIN persons = reach[level]
  <2>1. \A p \in DOMAIN persons : persons[p] <= level
    BY <1>1
  <2>2. reach[level] = {p \in DOMAIN persons : persons[p] <= level}
    BY <1>1, <1>3
  <2>. QED  BY <2>1, <2>2
<1>5. \A p \in DOMAIN persons : \A n \in 0..level : p \in reach[n] => persons[p] <= n
  BY <1>3
<1>. QED  BY <1>4, <1>5 DEF reach

\* All that two people share is a reason of their link, or reported as a hub.
Told(l) ==
    /\ \A e \in edges : e.type \in DIRECT_EDGES /\ {e.src, e.dst} = l =>
           l \in DOMAIN links /\ \E r \in links[l] : r.kind = "direct" /\ e.type \in r.types
    /\ \A c \in Things : l \subseteq Owners(c) =>
           \/ Hub(c, ask.maxFanout) /\ c \in suppressed
           \/ l \in DOMAIN links /\ \E r \in links[l] : r.by = {c}

\* Without a threshold it is told once one of them was expanded, whether or not
\* there is a link; under a threshold a link that is let in comes with all.
TellInv ==
    /\ ask.minConfidence = 0 =>
           \A p \in DOMAIN persons : persons[p] < level => \A l \in Pair : p \in l => Told(l)
    /\ Plain /\ ask.minConfidence # 0 => \A l \in DOMAIN links : Told(l)

\* No reason is lost, and what is found is there in its kind.
LEMMA ReasonsStay ==
    ASSUME ExpandLevel
    PROVE  /\ \A l \in DOMAIN links : l \in DOMAIN links' /\ links[l] \subseteq links'[l]
           /\ \A l \in StrongNow : \A r \in FoundNow[l] :
                  l \in DOMAIN links' /\ \E s \in links'[l] : s.kind = r.kind /\ s.by = r.by /\ s.types = r.types
<1>1. /\ DOMAIN links' = DOMAIN links \cup StrongNow
      /\ \A l \in DOMAIN links \ StrongNow : links'[l] = links[l]
      /\ \A l \in DOMAIN links \cap StrongNow : links'[l] = MergeVia(links[l], FoundNow[l])
      /\ \A l \in StrongNow \ DOMAIN links : links'[l] = FoundNow[l]
  BY TurnOfLoop
<1>2. ASSUME NEW l \in DOMAIN links PROVE l \in DOMAIN links' /\ links[l] \subseteq links'[l]
  BY <1>1, Merged
<1>3. ASSUME NEW l \in StrongNow, NEW r \in FoundNow[l]
      PROVE  l \in DOMAIN links' /\ \E s \in links'[l] : s.kind = r.kind /\ s.by = r.by /\ s.types = r.types
  <2>1. CASE l \in DOMAIN links
    <3>1. PICK s \in links'[l] : ViaKey(s) = ViaKey(r)
      BY <1>1, <1>3, <2>1, Merged
    <3>. QED  BY <1>1, <3>1 DEF ViaKey
  <2>2. CASE l \notin DOMAIN links
    BY <1>1, <1>3, <2>2
  <2>. QED  BY <2>1, <2>2
<1>. QED  BY <1>2, <1>3

\* What was told stays told.
LEMMA ToldStays ==
    ASSUME ExpandLevel, NEW l, Told(l)
    PROVE  Told(l)'
<1>1. edges' = edges /\ ask' = ask /\ suppressed \subseteq suppressed'
  BY TurnOfLoop
<1>2. \A c : Owners(c)' = Owners(c)
  BY <1>1, GraphStays
<1>3. \A c : Hub(c, ask.maxFanout)' <=> Hub(c, ask.maxFanout)
  BY <1>1, <1>2 DEF Hub
<1>4. l \in DOMAIN links => l \in DOMAIN links' /\ links[l] \subseteq links'[l]
  BY ReasonsStay
<1>5. ASSUME NEW e \in edges, e.type \in DIRECT_EDGES, {e.src, e.dst} = l
      PROVE  l \in DOMAIN links' /\ \E r \in links'[l] : r.kind = "direct" /\ e.type \in r.types
  BY <1>4, <1>5 DEF Told
<1>6. ASSUME NEW c \in Things, l \subseteq Owners(c)
      PROVE  \/ Hub(c, ask.maxFanout) /\ c \in suppressed'
             \/ l \in DOMAIN links' /\ \E r \in links'[l] : r.by = {c}
  BY <1>1, <1>4, <1>6 DEF Told
<1>. QED  BY <1>1, <1>2, <1>3, <1>5, <1>6 DEF Told

\* Whoever is expanded tells what they share with anybody.
LEMMA FrontierTells ==
    ASSUME PeopleInv, ExpandLevel, NEW l \in Pair, NEW f \in frontier, f \in l,
           ask.minConfidence = 0 \/ l \in StrongNow
    PROVE  Told(l)'
<1>. DEFINE m == ask.maxFanout
<1>1. /\ edges' = edges /\ ask' = ask
      /\ suppressed' = suppressed \cup {c \in Connectors(frontier) : Hub(c, ask.maxFanout)}
  BY TurnOfLoop
<1>2. \A c : Owners(c)' = Owners(c)
  BY <1>1, GraphStays
<1>3. \A c : Hub(c, ask.maxFanout)' <=> Hub(c, ask.maxFanout)
  BY <1>1, <1>2 DEF Hub
<1>4. ASSUME l \in DOMAIN FoundNow, NEW r \in FoundNow[l]
      PROVE  l \in DOMAIN links' /\ \E s \in links'[l] : s.kind = r.kind /\ s.by = r.by /\ s.types = r.types
  BY <1>4, AllAreStrong, ReasonsStay
<1>5. ASSUME NEW e \in edges, e.type \in DIRECT_EDGES, {e.src, e.dst} = l
      PROVE  l \in DOMAIN links' /\ \E r \in links'[l] : r.kind = "direct" /\ e.type \in r.types
  <2>1. e \in Neighbors(frontier, DIRECT_EDGES)
    BY <1>5 DEF Neighbors
  <2>2. l \in DOMAIN FoundNow /\ \E r \in FoundNow[l] : r.kind = "direct" /\ e.type \in r.types
    BY <1>5, <2>1, DirectIsReason DEF FoundNow
  <2>. QED  BY <1>4, <2>2
<1>6. ASSUME NEW c \in Things, l \subseteq Owners(c)
      PROVE  \/ Hub(c, m) /\ c \in suppressed'
             \/ l \in DOMAIN links' /\ \E r \in links'[l] : r.by = {c}
  <2>1. c \in Connectors(frontier)
    BY <1>6, HadIsConnector
  <2>2. CASE Hub(c, m)
    BY <1>1, <2>1, <2>2
  <2>3. CASE ~Hub(c, m)
    <3>1. l \in DOMAIN FoundNow /\ \E r \in FoundNow[l] : r.by = {c}
      BY <1>6, <2>1, <2>3, SharedIsReason DEF FoundNow
    <3>. QED  BY <1>4, <3>1
  <2>. QED  BY <2>2, <2>3
<1>. QED  BY <1>1, <1>2, <1>3, <1>5, <1>6 DEF Told

\* A level tells all about whom it expands.
LEMMA ExpandTellInv ==
    ASSUME PeopleInv, TellInv, ExpandLevel
    PROVE  TellInv'
<1>1. /\ level' = level + 1 /\ edges' = edges /\ ask' = ask
      /\ DOMAIN links' = DOMAIN links \cup StrongNow
      /\ DOMAIN persons' = DOMAIN persons \cup NextNow
      /\ \A p \in DOMAIN persons \ NextNow : persons'[p] = persons[p]
      /\ \A p \in NextNow : persons'[p] = level + 1
      /\ NextNow \subseteq (UNION StrongNow) \ DOMAIN persons
  BY TurnOfLoop, CandidatesAre
<1>2. Plain' <=> Plain
  BY <1>1, GraphStays
<1>3. ASSUME ask.minConfidence = 0, NEW p \in DOMAIN persons', persons'[p] < level', NEW l \in Pair, p \in l
      PROVE  Told(l)'
  <2>1. p \in DOMAIN persons /\ persons'[p] = persons[p] /\ persons[p] \in 0..level
    BY <1>1, <1>3, AskedIs DEF PeopleInv
  <2>2. CASE persons[p] < level
    <3>1. Told(l)
      BY <1>3, <2>1, <2>2 DEF TellInv
    <3>. QED  BY <3>1, ToldStays
  <2>3. CASE persons[p] = level
    <3>1. p \in frontier
      BY <2>1, <2>3 DEF PeopleInv
    <3>. QED  BY <1>3, <3>1, FrontierTells
  <2>. QED  BY <2>1, <2>2, <2>3, AskedIs
<1>4. ASSUME Plain, ask.minConfidence # 0, NEW l \in DOMAIN links'
      PROVE  Told(l)'
  <2>1. CASE l \in DOMAIN links
    <3>1. Told(l)
      BY <1>4, <2>1 DEF TellInv
    <3>. QED  BY <3>1, ToldStays
  <2>2. CASE l \in StrongNow
    <3>1. l \in DOMAIN Found(frontier, ask.maxFanout) /\ l \in Pair /\ frontier \subseteq People /\ edges \in Graphs
      BY <2>2, StrongAreFound, AskedIs DEF FoundNow, PeopleInv
    <3>2. PICK f \in frontier : f \in l
      BY <1>4, <3>1, FoundAtFrontier
    <3>. QED  BY <2>2, <3>1, <3>2, FrontierTells
  <2>. QED  BY <1>1, <1>4, <2>1, <2>2
<1>5. Pair' = Pair
  BY DEF Pair
<1>. QED  BY <1>1, <1>2, <1>3, <1>4, <1>5 DEF TellInv

\* What is told is the whole reason.
LEMMA ToldIsWhy ==
    ASSUME LinksInv, NEW l \in DOMAIN links, Told(l)
    PROVE  SaysWhy(l)
<1>1. ASSUME NEW c \in Things, l \subseteq Owners(c)
      PROVE  c \in suppressed <=> \A r \in links[l] : r.by # {c}
  BY <1>1 DEF Told, LinksInv
<1>. QED  BY <1>1 DEF SaysWhy, Told

\* So the links that are shown say why.
LEMMA ReasonsAreTold ==
    ASSUME LinksInv, TellInv
    PROVE  ReasonsComplete
<1>. SUFFICES ASSUME Plain \/ ask.minConfidence = 0, NEW l \in KeptLinks, NEW p \in l, persons[p] < level
              PROVE  SaysWhy(l)
  BY DEF ReasonsComplete
<1>1. l \in DOMAIN links /\ l \in Pair /\ p \in DOMAIN persons
  BY DEF KeptLinks, LinksInv
<1>2. Told(l)
  BY <1>1 DEF TellInv
<1>. QED  BY <1>1, <1>2, ToldIsWhy

\* As long as nobody is cut, both ends of every link are found.
EndsInv == ~truncated => UNION DOMAIN links \subseteq DOMAIN persons

\* A level that cuts nobody finds both ends of its links.
LEMMA ExpandEndsInv ==
    ASSUME EndsInv, ExpandLevel
    PROVE  EndsInv'
<1>1. /\ DOMAIN links' = DOMAIN links \cup StrongNow
      /\ DOMAIN persons' = DOMAIN persons \cup NextNow
      /\ truncated' = (truncated \/ NextNow # CandidatesNow)
      /\ CandidatesNow = (UNION StrongNow) \ DOMAIN persons
  BY TurnOfLoop, CandidatesAre
<1>. QED  BY <1>1 DEF EndsInv

ProjectionInv == PeopleInv /\ LinksInv /\ JoinedInv /\ BallInv /\ TellInv /\ EndsInv

\* The network is right before it is expanded.
LEMMA InitProjectionInv == NetworkInit => ProjectionInv
<1>. SUFFICES ASSUME NetworkInit PROVE ProjectionInv
  OBVIOUS
<1>1. /\ edges \in Graphs /\ ask \in Asked /\ level = 0
      /\ DOMAIN persons = {Root} /\ persons[Root] = 0
      /\ DOMAIN links = {} /\ suppressed = {} /\ truncated = FALSE /\ frontier = {Root}
  BY DEF NetworkInit
<1>2. PeopleInv
  <2>1. ask.degree \in 1..4
    BY <1>1, AskedAssumption
  <2>2. frontier = {p \in DOMAIN persons : persons[p] = level}
    BY <1>1
  <2>3. level \in 0..ask.degree /\ \A p \in DOMAIN persons : persons[p] \in 0..level
    BY <1>1, <2>1
  <2>4. DOMAIN persons \subseteq People /\ suppressed \subseteq Things /\ truncated \in BOOLEAN
    BY <1>1, PeopleAssumption
  <2>. QED  BY <1>1, <2>2, <2>3, <2>4 DEF PeopleInv
<1>3. LinksInv /\ JoinedInv /\ TellInv /\ EndsInv
  BY <1>1 DEF LinksInv, JoinedInv, TellInv, EndsInv
<1>4. BallInv
  BY <1>1, WithinStep DEF BallInv
<1>. QED  BY <1>2, <1>3, <1>4 DEF ProjectionInv

\* Every step of an investigation keeps the network right.
LEMMA NextProjectionInv == ProjectionInv /\ [Next]_vars => ProjectionInv'
<1>. SUFFICES ASSUME ProjectionInv, [Next]_vars PROVE ProjectionInv'
  OBVIOUS
<1>1. CASE ExpandLevel
  BY <1>1, ExpandPeopleInv, ExpandLinksInv, ExpandJoinedInv, ExpandBallInv, ExpandTellInv, ExpandEndsInv
     DEF ProjectionInv
<1>2. CASE UNCHANGED networkVars
  <2>1. /\ edges' = edges /\ ask' = ask /\ persons' = persons /\ links' = links
        /\ suppressed' = suppressed /\ truncated' = truncated /\ frontier' = frontier /\ level' = level
    BY <1>2 DEF networkVars
  <2>2. /\ \A c : Owners(c)' = Owners(c)
        /\ Plain' <=> Plain
        /\ Projection' = Projection
        /\ DirectIsPersonal' <=> DirectIsPersonal
    BY <2>1, GraphStays
  <2>3. \A c : Hub(c, ask.maxFanout)' <=> Hub(c, ask.maxFanout)
    BY <2>1, <2>2 DEF Hub
  <2>4. \A l : Told(l)' <=> Told(l)
    BY <2>1, <2>2, <2>3 DEF Told
  <2>5. Within(Projection)' = Within(Projection)
    BY <2>2
  <2>6. PeopleInv' /\ EndsInv' /\ JoinedInv'
    BY <2>1, <2>2 DEF ProjectionInv, PeopleInv, EndsInv, JoinedInv
  <2>7. LinksInv'
    BY <2>1, <2>2, <2>3 DEF ProjectionInv, LinksInv, Pair
  <2>8. TellInv'
    BY <2>1, <2>2, <2>4 DEF ProjectionInv, TellInv, Pair
  <2>9. BallInv'
    BY <2>1, <2>2, <2>5 DEF ProjectionInv, BallInv, Whole
  <2>. QED  BY <2>6, <2>7, <2>8, <2>9 DEF ProjectionInv
<1>3. ExpandLevel \/ UNCHANGED networkVars
  BY DEF Next, Expand, FindConnection, Search, AssessRisk, vars
<1>. QED  BY <1>1, <1>2, <1>3

\* The invariant of the network.
LEMMA AlwaysProjectionInv == Spec => []ProjectionInv
<1>1. Init => ProjectionInv
  BY InitProjectionInv DEF Init
<1>. QED  BY <1>1, NextProjectionInv, PTL DEF Spec

\* The network is one of people and links between them, and whoever is shown is
\* joined to the person asked about by as many shown links as their degree.
THEOREM NetworkIsOne == Spec => []NetworkIsSound
<1>1. ProjectionInv => NetworkIsSound
  <2>. SUFFICES ASSUME ProjectionInv PROVE NetworkTypeOK
    BY JoinedByShown DEF ProjectionInv, NetworkIsSound
  <2>. QED  BY DEF ProjectionInv, PeopleInv, LinksInv, NetworkTypeOK
<1>. QED  BY <1>1, AlwaysProjectionInv, PTL

\* The degrees are the distances in the projection, when nothing is cut.
THEOREM DegreesAreDistances == Spec => []DegreeIsDistance
<1>1. ProjectionInv => DegreeIsDistance
  BY BallIsDistance DEF ProjectionInv
<1>. QED  BY <1>1, AlwaysProjectionInv, PTL

\* A link that is shown gives every reason there is, but for the hubs that are
\* reported.
THEOREM LinksSayWhy == Spec => []ReasonsComplete
<1>1. ProjectionInv => ReasonsComplete
  BY ReasonsAreTold DEF ProjectionInv
<1>. QED  BY <1>1, AlwaysProjectionInv, PTL

\* The people that the listings which were read name.
Exposed(read) == {p \in DOMAIN persons \ {Root} : Named(p, read)}
RiskInv ==
    /\ RiskTypeOK
    /\ risk.scored /\ ~risk.direct => Expanded /\ ask.for = "risk" /\ risk.degree = Nearest(Exposed(risk.read))

\* Nobody is any farther once nobody is left to expand.
LEMMA BallIsClosed ==
    ASSUME PeopleInv, BallInv, Whole, frontier = {}, NEW n \in Nat, n >= level
    PROVE  Within(Projection)[n] = DOMAIN persons
<1>. DEFINE W == Within(Projection)
            Bad == {k \in Nat : k >= level /\ W[k] # DOMAIN persons}
<1>1. \A k \in Nat : W[k + 1] = W[k] \cup UNION {l \in Projection : l \cap W[k] # {}}
  BY WithinStep
<1>2. level \in Nat /\ level # 0 /\ \A p \in DOMAIN persons : persons[p] \in 0..level /\ persons[p] # level
  BY AskedIs DEF PeopleInv
<1>3. W[level] = DOMAIN persons /\ W[level - 1] = DOMAIN persons
  <2>1. \A k \in 0..level : W[k] = {p \in DOMAIN persons : persons[p] <= k}
    BY DEF BallInv
  <2>. HIDE DEF W
  <2>2. level \in 0..level /\ level - 1 \in 0..level
    BY <1>2
  <2>3. \A p \in DOMAIN persons : persons[p] <= level /\ persons[p] <= level - 1
    BY <1>2
  <2>. QED  BY <2>1, <2>2, <2>3
<1>. HIDE DEF W
<1>4. DOMAIN persons \cup UNION {l \in Projection : l \cap DOMAIN persons # {}} = DOMAIN persons
  <2>1. level - 1 \in Nat /\ (level - 1) + 1 = level
    BY <1>2
  <2>. QED  BY <1>1, <1>3, <2>1
<1>5. Bad = {}
  <2>. SUFFICES ASSUME Bad # {} PROVE FALSE
    OBVIOUS
  <2>0. Bad \subseteq Nat
    OBVIOUS
  <2>1. PICK k \in Bad : \A j \in Bad : k <= j
    <3>. HIDE DEF Bad
    <3>. QED  BY <2>0, LeastNumber
  <2>2. k \in Nat /\ k >= level /\ W[k] # DOMAIN persons /\ k # level
    BY <1>3, <2>1
  <2>3. k - 1 \in Nat /\ k - 1 >= level /\ (k - 1) + 1 = k /\ ~(k <= k - 1)
    BY <1>2, <2>2
  <2>4. W[k - 1] = DOMAIN persons
    BY <2>1, <2>3
  <2>5. W[(k - 1) + 1] = W[k - 1] \cup UNION {l \in Projection : l \cap W[k - 1] # {}}
    BY <1>1, <2>3
  <2>. QED  BY <1>4, <2>2, <2>3, <2>4, <2>5
<1>. QED  BY <1>5 DEF W

\* Once a network is expanded the ball of its degree is all that was found.
LEMMA ExpandedIsBall ==
    ASSUME PeopleInv, BallInv, Whole, Expanded
    PROVE  Within(Projection)[ask.degree] = DOMAIN persons
<1>1. ask.degree \in Nat /\ ask.degree >= level /\ level \in 0..level
  BY AskedIs DEF PeopleInv
<1>2. CASE frontier = {}
  BY <1>1, <1>2, BallIsClosed
<1>3. CASE level = ask.degree
  <2>1. Within(Projection)[level] = {p \in DOMAIN persons : persons[p] <= level}
    BY <1>1 DEF BallInv
  <2>2. \A p \in DOMAIN persons : persons[p] <= level
    BY <1>1, AskedIs DEF PeopleInv
  <2>. QED  BY <1>3, <2>1, <2>2
<1>. QED  BY <1>2, <1>3 DEF Expanded

\* Nearest is the least degree there is.
LEMMA NearestIs ==
    ASSUME PeopleInv, NEW S \in SUBSET DOMAIN persons
    PROVE  /\ S = {} => Nearest(S) = 0
           /\ S # {} => /\ \E p \in S : persons[p] = Nearest(S)
                        /\ \A p \in S : Nearest(S) <= persons[p]
           /\ Nearest(S) \in 0..ask.degree
<1>. DEFINE D == {persons[p] : p \in S}
<1>1. D \subseteq 0..ask.degree /\ ask.degree \in Nat
  BY AskedIs DEF PeopleInv
<1>2. CASE S = {}
  BY <1>1, <1>2 DEF Nearest
<1>3. CASE S # {}
  <2>. D # {}
    BY <1>3
  <2>. HIDE DEF D
  <2>1. \E d \in D : \A x \in D : d <= x
    <3>1. D \subseteq Nat
      BY <1>1
    <3>. QED  BY <3>1, LeastNumber
  <2>2. Min(D) \in D /\ \A x \in D : Min(D) <= x
    BY <2>1 DEF Min
  <2>3. Nearest(S) = Min(D)
    BY <1>3 DEF Nearest, D
  <2>4. Nearest(S) \in 0..ask.degree
    BY <1>1, <2>2, <2>3
  <2>5. (\E p \in S : persons[p] = Nearest(S)) /\ \A p \in S : Nearest(S) <= persons[p]
    BY <2>2, <2>3 DEF D
  <2>. QED  BY <1>3, <2>4, <2>5
<1>. QED  BY <1>2, <1>3

\* An assessment reads the degrees of a network that is expanded.
LEMMA AssessRiskInv ==
    ASSUME PeopleInv, RiskInv, AssessRisk
    PROVE  RiskInv'
<1>. DEFINE paid == {e \in edges : e.type = "TRANSFERRED_TO" /\ Root \in {e.src, e.dst}}
            far(read) == IF Listed(Root) THEN 0
                         ELSE Nearest({p \in DOMAIN persons \ {Root} : Named(p, read)})
<1>1. PICK read \in SUBSET FLAG_TAGS, pep \in {"none", "self", "associate"}, country \in BOOLEAN :
          risk' = [scored |-> TRUE, direct |-> Listed(Root), degree |-> far(read), read |-> read,
                   transfers |-> Cardinality(paid), pep |-> pep, country |-> country]
  BY DEF AssessRisk
<1>2. ask.for = "risk" /\ (Listed(Root) \/ Expanded) /\ UNCHANGED networkVars
  BY DEF AssessRisk
<1>3. Cardinality(paid) \in Nat
  <2>1. IsFiniteSet(edges)
    BY GraphsAssumption DEF PeopleInv
  <2>. QED  BY <2>1, FS_Subset, FS_CardinalityType
<1>4. far(read) \in 0..3
  <2>1. Nearest(Exposed(read)) \in 0..ask.degree /\ ask.degree = 3
    BY <1>2, NearestIs, AskedIs DEF Exposed
  <2>. QED  BY <2>1 DEF Exposed
<1>5. Listed(Root) \in BOOLEAN
  BY DEF Listed, Named
<1>. HIDE DEF paid
<1>6. risk'.scored /\ (risk'.direct <=> Listed(Root)) /\ risk'.degree = far(read) /\ risk'.read = read
  BY <1>1
<1>7. RiskTypeOK'
  <2>. HIDE DEF far
  <2>. QED  BY <1>1, <1>3, <1>4, <1>5 DEF RiskTypeOK
<1>8. Expanded' = Expanded /\ ask' = ask /\ Nearest(Exposed(risk.read))' = Nearest(Exposed(read))
  BY <1>2, <1>6 DEF networkVars, Expanded, Exposed, Named, Adjacent, Nearest
<1>9. ~Listed(Root) => far(read) = Nearest(Exposed(read))
  BY DEF Exposed
<1>. QED  BY <1>2, <1>6, <1>7, <1>8, <1>9 DEF RiskInv

\* No later step changes what an assessment read.
LEMMA NextRiskInv == PeopleInv /\ RiskInv /\ [Next]_vars => RiskInv'
<1>. SUFFICES ASSUME PeopleInv, RiskInv, [Next]_vars PROVE RiskInv'
  OBVIOUS
<1>1. CASE Expand
  <2>1. ExpandLevel /\ risk' = risk
    BY <1>1 DEF Expand
  <2>2. level # ask.degree /\ frontier # {}
    BY <2>1, AskedIs DEF ExpandLevel
  <2>. QED  BY <2>1, <2>2 DEF RiskInv, RiskTypeOK, Expanded
<1>2. CASE UNCHANGED <<networkVars, risk>>
  <2>1. Expanded' = Expanded /\ ask' = ask /\ Nearest(Exposed(risk.read))' = Nearest(Exposed(risk.read))
    BY <1>2 DEF networkVars, Expanded, Exposed, Named, Adjacent, Nearest
  <2>. QED  BY <1>2, <2>1 DEF RiskInv, RiskTypeOK
<1>3. Expand \/ UNCHANGED <<networkVars, risk>> \/ AssessRisk
  BY DEF Next, FindConnection, Search, vars
<1>. QED  BY <1>1, <1>2, <1>3, AssessRiskInv

\* The nearest listed person is at their distance.
LEMMA ExposureIsRight ==
    ASSUME PeopleInv, BallInv, RiskInv
    PROVE  ExposureIsDistance
<1>. DEFINE near(n) == \E p \in Within(Projection)[n] \ {Root} : Named(p, risk.read)
<1>. SUFFICES ASSUME Plain, risk.scored, ~risk.direct, ~truncated
              PROVE  /\ risk.degree = 0 => ~near(ask.degree)
                     /\ risk.degree > 0 => near(risk.degree) /\ ~near(risk.degree - 1)
  BY DEF ExposureIsDistance
<1>1. Expanded /\ ask.for = "risk" /\ risk.degree = Nearest(Exposed(risk.read))
  BY DEF RiskInv
<1>2. Whole
  BY <1>1, AskedIs DEF Whole, Plain
<1>3. \A n \in 0..level : Within(Projection)[n] = {p \in DOMAIN persons : persons[p] <= n}
  BY <1>2 DEF BallInv
<1>4. Within(Projection)[ask.degree] = DOMAIN persons
  BY <1>1, <1>2, ExpandedIsBall
<1>5. \A p \in DOMAIN persons : persons[p] \in 0..level /\ (p # Root => persons[p] # 0)
  <2>1. 0 \in 0..level /\ Within(Projection)[0] = {Root}
    BY AskedIs, WithinStep
  <2>. QED  BY <1>3, <2>1 DEF PeopleInv
<1>6. /\ Exposed(risk.read) = {} => risk.degree = 0
      /\ Exposed(risk.read) # {} => /\ \E p \in Exposed(risk.read) : persons[p] = risk.degree
                                    /\ \A p \in Exposed(risk.read) : risk.degree <= persons[p]
  BY <1>1, NearestIs DEF Exposed
<1>7. ASSUME risk.degree = 0 PROVE ~near(ask.degree)
  <2>1. Exposed(risk.read) = {}
    BY <1>5, <1>6, <1>7 DEF Exposed
  <2>. QED  BY <1>4, <2>1 DEF Exposed
<1>8. ASSUME risk.degree > 0 PROVE near(risk.degree) /\ ~near(risk.degree - 1)
  <2>1. PICK p \in Exposed(risk.read) : persons[p] = risk.degree
    BY <1>6, <1>8
  <2>2. level \in Nat /\ risk.degree \in 0..level /\ risk.degree - 1 \in 0..level /\ risk.degree \in Nat
    BY <1>5, <1>8, <2>1, AskedIs DEF Exposed
  <2>3. near(risk.degree)
    BY <1>3, <2>1, <2>2 DEF Exposed
  <2>4. ASSUME NEW q \in Within(Projection)[risk.degree - 1] \ {Root}, Named(q, risk.read) PROVE FALSE
    <3>1. q \in Exposed(risk.read) /\ persons[q] <= risk.degree - 1 /\ persons[q] \in Nat
      BY <1>3, <1>5, <2>2, <2>4 DEF Exposed
    <3>. QED  BY <1>6, <2>2, <3>1
  <2>. QED  BY <2>3, <2>4
<1>. QED  BY <1>7, <1>8

\* The bands of the scorer, for any number of transfers.
LEMMA BandsAreRight ==
    ASSUME RiskTypeOK
    PROVE  PepBands
<1>. DEFINE shared == 50 * (IF risk.transfers < 3 THEN risk.transfers ELSE 3)
            exposure == IF risk.degree = 0 THEN 0 ELSE 24 * (8 - 2 * (risk.degree - 1))
            direct == IF risk.direct THEN 300 ELSE 0
            country == IF risk.country THEN 90 ELSE 0
            pep == PepFactor(risk.pep)
            total == direct + exposure + shared + pep + country
<1>1. /\ risk.transfers \in Nat /\ risk.degree \in 0..3 /\ risk.direct \in BOOLEAN /\ risk.country \in BOOLEAN
      /\ risk.pep \in {"none", "self", "associate"}
  BY DEF RiskTypeOK
<1>2. Score(risk) = IF total < 300 THEN total ELSE 300
  BY DEF Score
<1>3. shared \in Nat /\ (risk.transfers = 0 => shared = 0) /\ (risk.transfers > 0 => shared >= 50)
  BY <1>1
<1>4. exposure \in Nat /\ (risk.degree = 0 => exposure = 0) /\ (risk.degree > 0 => exposure >= 96)
  BY <1>1
<1>5. direct \in {0, 300} /\ country \in {0, 90} /\ (risk.direct <=> direct = 300) /\ (risk.country <=> country = 90)
  BY <1>1
<1>6. /\ pep \in {0, 147, 210}
      /\ risk.pep = "self" => pep = 210
      /\ risk.pep = "associate" => pep = 147
  BY <1>1 DEF PepFactor
<1>. HIDE DEF shared, exposure, direct, country, pep
<1>7. \/ Score(risk) \in Nat /\ Score(risk) >= 240 /\ Level(risk) = "high"
      \/ Score(risk) \in Nat /\ Score(risk) >= 135 /\ Score(risk) < 240 /\ Level(risk) = "medium"
      \/ Score(risk) \in Nat /\ Score(risk) < 135
  <2>1. Score(risk) \in Nat
    BY <1>2, <1>3, <1>4, <1>5, <1>6
  <2>. QED  BY <2>1 DEF Level
<1>8. ASSUME risk.pep = "self", risk.direct \/ risk.degree > 0 \/ risk.transfers > 0 \/ risk.country
      PROVE  Level(risk) = "high"
  <2>1. Score(risk) >= 240
    BY <1>1, <1>2, <1>3, <1>4, <1>5, <1>6, <1>8
  <2>. QED  BY <1>7, <2>1
<1>9. ASSUME risk.pep \in {"self", "associate"}, ~(risk.direct \/ risk.degree > 0 \/ risk.transfers > 0 \/ risk.country)
      PROVE  Level(risk) = "medium"
  <2>0. risk.degree = 0 /\ risk.transfers = 0
    BY <1>1, <1>9
  <2>1. Score(risk) >= 135 /\ Score(risk) < 240
    BY <1>2, <1>3, <1>4, <1>5, <1>6, <1>9, <2>0
  <2>. QED  BY <1>7, <2>1
<1>10. ASSUME risk.direct PROVE Level(risk) = "high"
  <2>1. Score(risk) >= 240
    BY <1>2, <1>3, <1>4, <1>5, <1>6, <1>10
  <2>. QED  BY <1>7, <2>1
<1>. QED  BY <1>8, <1>9, <1>10 DEF PepBands

\* What is said of a person's risk is right: the exposure is the distance to the
\* nearest person in the projection that a listing which could be read names,
\* whatever the graph is and whichever scans fail, and the factors fall in the bands that the scorer states.
THEOREM RiskIsRight == Spec => []AssessmentIsRight
<1>1. Init => RiskInv
  BY DEF Init, RiskInv, RiskTypeOK, NoRisk
<1>2. RiskInv /\ ProjectionInv => AssessmentIsRight
  BY ExposureIsRight, BandsAreRight DEF RiskInv, ProjectionInv, AssessmentIsRight
<1>3. ProjectionInv => PeopleInv
  BY DEF ProjectionInv
<1>. QED  BY <1>1, <1>2, <1>3, NextRiskInv, AlwaysProjectionInv, PTL DEF Spec

\* The attributes of the root are things that they own.
LEMMA AttributesAreOwned ==
    ASSUME PeopleInv, NEW c \in DOMAIN Attributes(Root)
    PROVE  c \in Things /\ Root \in Owners(c) /\ Attributes(Root)[c] = Owners(c) \ {Root}
<1>1. c \in Ends(Neighbors({Root}, SHARED_EDGES)) \ People /\ Attributes(Root)[c] = Owners(c) \ {Root}
  BY DEF Attributes, SharedWith
<1>2. PICK e \in edges : e.type \in SHARED_EDGES /\ Root \in {e.src, e.dst} /\ c \in {e.src, e.dst}
  BY <1>1 DEF Ends, Neighbors
<1>3. c \in Things
  BY <1>1, <1>2, EndsAreVertices DEF PeopleInv
<1>4. Root \in Owners(c)
  BY <1>2, PeopleAssumption DEF Owners, Ends, Neighbors
<1>. QED  BY <1>1, <1>3, <1>4

\* An attribute that is shared is a reason, and a reason is a shared attribute.
LEMMA AttributesAreReasons ==
    ASSUME ProjectionInv
    PROVE  AttributesAgree
<1>. SUFFICES ASSUME level > 0, NEW c \in DOMAIN Attributes(Root), NEW q \in People \ {Root},
                     \/ {Root, q} \in KeptLinks /\ (Plain \/ ask.minConfidence = 0)
                     \/ ~truncated /\ ask.minConfidence = 0
              PROVE  {Root, q} \in KeptLinks /\ (\E r \in links[{Root, q}] : r.by = {c})
                         <=> q \in Attributes(Root)[c] /\ c \notin suppressed
  BY DEF AttributesAgree
<1>. DEFINE l == {Root, q}
<1>1. c \in Things /\ Root \in Owners(c) /\ Attributes(Root)[c] = Owners(c) \ {Root}
  BY AttributesAreOwned DEF ProjectionInv
<1>2. l \in Pair /\ Root \in DOMAIN persons /\ persons[Root] < level
  BY PairOfTwo, PeopleAssumption DEF ProjectionInv, PeopleInv
<1>3. ASSUME l \in KeptLinks, NEW r \in links[l], r.by = {c}
      PROVE  q \in Attributes(Root)[c] /\ c \notin suppressed
  <2>1. ~Hub(c, ask.maxFanout) /\ l \subseteq Owners(c)
    BY <1>3 DEF ProjectionInv, LinksInv, KeptLinks
  <2>2. c \notin suppressed
    BY <2>1 DEF ProjectionInv, LinksInv
  <2>. QED  BY <1>1, <2>1, <2>2
<1>4. ASSUME q \in Attributes(Root)[c], c \notin suppressed
      PROVE  l \in KeptLinks /\ \E r \in links[l] : r.by = {c}
  <2>1. Told(l)
    BY <1>2 DEF ProjectionInv, TellInv, KeptLinks
  <2>2. l \in DOMAIN links /\ \E r \in links[l] : r.by = {c}
    BY <1>1, <1>4, <2>1 DEF Told
  <2>3. l \in KeptLinks
    BY <2>2 DEF ProjectionInv, EndsInv, KeptLinks
  <2>. QED  BY <2>2, <2>3
<1>. QED  BY <1>3, <1>4

\* A recursion up to a depth is a repeated step.
LEMMA RepeatedTo ==
    ASSUME NEW X, NEW base \in X, NEW step \in [X -> X], NEW depth \in Nat
    PROVE  \E f \in [0..depth -> X] :
               f[0] = base /\ \A n \in 0..depth : n # 0 => f[n] = step[f[n - 1]]
<1>1. PICK g \in [Nat -> X] : g[0] = base /\ \A n \in Nat : g[n + 1] = step[g[n]]
  BY Repeated
<1>. DEFINE f == [n \in 0..depth |-> g[n]]
<1>2. f \in [0..depth -> X] /\ f[0] = base
  BY <1>1
<1>3. ASSUME NEW n \in 0..depth, n # 0 PROVE f[n] = step[f[n - 1]]
  <2>1. n - 1 \in Nat /\ n - 1 \in 0..depth /\ (n - 1) + 1 = n /\ n \in Nat
    BY <1>3
  <2>2. g[(n - 1) + 1] = step[g[n - 1]]
    BY <1>1, <2>1
  <2>. QED  BY <2>1, <2>2
<1>. HIDE DEF f
<1>. QED  BY <1>2, <1>3

\* expand_node visits in each turn what it found in the one before.
LEMMA ExpandNodeIsBall ==
    ASSUME edges \in Graphs, NEW v \in People, NEW depth \in Nat, depth > 0
    PROVE  LET answer == expand_node(v, depth)
               ball[n \in 0..depth] ==
                   IF n = 0 THEN {v} ELSE ball[n - 1] \cup UNION {Adjacent(x) : x \in ball[n - 1]}
           IN  /\ answer.nodes = ball[depth]
               /\ answer.edges = Around(ball[depth - 1])
<1>. DEFINE U == People \cup Things
            States == [visited: SUBSET U, frontier: SUBSET U, nodes: SUBSET U, edges: SUBSET edges]
            start == [visited |-> {}, frontier |-> {v}, nodes |-> {}, edges |-> {}]
            beyond(S) == UNION {Adjacent(x) : x \in S}
            turns == [s \in States |-> Turn(s)]
            grow == [S \in SUBSET U |-> S \cup beyond(S)]
            SoBody(f) == [n \in 0..depth |-> IF n = 0 THEN start ELSE Turn(f[n - 1])]
            BallBody(f) == [n \in 0..depth |-> IF n = 0 THEN {v} ELSE f[n - 1] \cup beyond(f[n - 1])]
            so == CHOOSE f : f = SoBody(f)
            ball == CHOOSE f : f = BallBody(f)
<1>1. ASSUME NEW x PROVE Adjacent(x) \subseteq U
  BY EndsAreVertices DEF Adjacent, Ends
<1>2. start \in States
  OBVIOUS
<1>3. ASSUME NEW s \in States PROVE Turn(s) \in States
  <2>1. Around(s.frontier \ s.visited) \subseteq edges
    BY DEF Around
  <2>2. beyond(s.frontier \ s.visited) \subseteq U
    BY <1>1
  <2>. QED  BY <2>1, <2>2 DEF Turn
<1>4. turns \in [States -> States] /\ \A s \in States : turns[s] = Turn(s)
  BY <1>3
<1>5. grow \in [SUBSET U -> SUBSET U] /\ \A S \in SUBSET U : grow[S] = S \cup beyond(S)
  BY <1>1
<1>6. {v} \in SUBSET U
  OBVIOUS
<1>. HIDE DEF States, start, turns, grow, beyond, U
<1>a. \A n \in 0..depth : n # 0 => n - 1 \in 0..depth
  OBVIOUS
<1>7. so = SoBody(so)
  <2>0. start \in States /\ turns \in [States -> States]
    BY <1>2, <1>4
  <2>1. PICK f \in [0..depth -> States] :
            f[0] = start /\ \A n \in 0..depth : n # 0 => f[n] = turns[f[n - 1]]
    BY <2>0, RepeatedTo
  <2>2. \A n \in 0..depth : f[n] = IF n = 0 THEN start ELSE Turn(f[n - 1])
    BY <1>4, <1>a, <2>1
  <2>3. f = SoBody(f)
    BY <2>1, <2>2
  <2>. HIDE DEF SoBody
  <2>. QED  BY <2>3
<1>8. ball = BallBody(ball)
  <2>. DEFINE X == SUBSET U
              base == {v}
  <2>1. base \in X /\ grow \in [X -> X]
    BY <1>5, <1>6
  <2>. HIDE DEF X, base
  <2>2. PICK f \in [0..depth -> X] : f[0] = base /\ \A n \in 0..depth : n # 0 => f[n] = grow[f[n - 1]]
    BY <2>1, RepeatedTo
  <2>3. \A n \in 0..depth : f[n] = IF n = 0 THEN {v} ELSE f[n - 1] \cup beyond(f[n - 1])
    BY <1>5, <1>a, <2>2 DEF X, base
  <2>4. f = BallBody(f)
    BY <2>2, <2>3
  <2>. HIDE DEF BallBody
  <2>. QED  BY <2>4
<1>. HIDE DEF so, ball
<1>9. so[0] = start /\ ball[0] = {v}
  BY <1>7, <1>8
<1>10. ASSUME NEW n \in 0..depth, n # 0
       PROVE  so[n] = Turn(so[n - 1]) /\ ball[n] = ball[n - 1] \cup beyond(ball[n - 1])
  BY <1>7, <1>8, <1>10
\* What was visited, what comes next, and what was found.
<1>. DEFINE Good(n) ==
         /\ so[n].nodes \cup {v} = ball[n]
         /\ so[n].visited \cup so[n].frontier = ball[n]
         /\ so[n].nodes = beyond(so[n].visited)
         /\ so[n].edges = Around(so[n].visited)
         /\ n # 0 => so[n].visited = ball[n - 1]
<1>11. Good(0)
  <2>1. beyond({}) = {} /\ Around({}) = {}
    BY DEF beyond, Around
  <2>. QED  BY <1>9, <2>1 DEF start
<1>12. ASSUME NEW n \in 0..depth, n # 0, Good(n - 1) PROVE Good(n)
  <2>. DEFINE s == so[n - 1]
              new == s.frontier \ s.visited
  <2>1. /\ so[n].visited = s.visited \cup new
        /\ so[n].frontier = beyond(new)
        /\ so[n].nodes = s.nodes \cup beyond(new)
        /\ so[n].edges = s.edges \cup Around(new)
    <3>1. so[n] = Turn(s)
      BY <1>10, <1>12
    <3>. HIDE DEF s, so
    <3>2. Turn(s) = [visited |-> s.visited \cup new, frontier |-> beyond(new),
                     nodes |-> s.nodes \cup beyond(new), edges |-> s.edges \cup Around(new)]
      BY DEF Turn, beyond
    <3>. HIDE DEF new, beyond
    <3>. QED  BY <3>1, <3>2
  <2>2. so[n].visited = ball[n - 1]
    BY <1>12, <2>1
  <2>3. beyond(s.visited) \cup beyond(new) = beyond(s.visited \cup new)
    BY DEF beyond
  <2>4. Around(s.visited) \cup Around(new) = Around(s.visited \cup new)
    BY DEF Around
  <2>5. ball[n] = ball[n - 1] \cup beyond(ball[n - 1])
    BY <1>10, <1>12
  <2>6. /\ s.nodes \cup {v} = ball[n - 1]
        /\ s.visited \cup s.frontier = ball[n - 1]
        /\ s.nodes = beyond(s.visited)
        /\ s.edges = Around(s.visited)
    BY <1>12
  <2>. HIDE DEF s, new
  <2>7. so[n].nodes = beyond(so[n].visited) /\ so[n].edges = Around(so[n].visited)
    BY <2>1, <2>3, <2>4, <2>6
  <2>8. so[n].nodes \cup {v} = ball[n]
    BY <2>1, <2>2, <2>5, <2>6, <2>7
  <2>9. so[n].visited \cup so[n].frontier = ball[n]
    BY <2>1, <2>2, <2>3, <2>5, <2>6, <2>8
  <2>. QED  BY <2>2, <2>7, <2>8, <2>9
<1>. HIDE DEF Good
<1>13. \A n \in 0..depth : Good(n)
  <2>. DEFINE Bad == {n \in 0..depth : ~Good(n)}
  <2>. SUFFICES ASSUME Bad # {} PROVE FALSE
    OBVIOUS
  <2>0. Bad \subseteq Nat
    OBVIOUS
  <2>1. PICK n \in Bad : \A k \in Bad : n <= k
    <3>. HIDE DEF Bad
    <3>. QED  BY <2>0, LeastNumber
  <2>2. n \in 0..depth /\ n # 0 /\ n - 1 \in 0..depth /\ ~(n <= n - 1)
    BY <1>11, <2>1
  <2>3. Good(n - 1)
    BY <2>1, <2>2
  <2>. QED  BY <1>12, <2>1, <2>2, <2>3
<1>14. so[depth].nodes \cup {v} = ball[depth] /\ so[depth].edges = Around(ball[depth - 1])
  <2>1. Good(depth)
    BY <1>13
  <2>. QED  BY <2>1 DEF Good
<1>15. expand_node(v, depth).nodes = so[depth].nodes \cup {v} /\ expand_node(v, depth).edges = so[depth].edges
  BY DEF expand_node, so, start
<1>. QED  BY <1>14, <1>15 DEF ball, beyond

\* What is shown of an entity is what the graph and the network have: the
\* attributes of a person are the reasons of their links, and expanding an
\* entity gives the ball around it.
THEOREM EntitiesAreShown == Spec => []EntityIsShown
<1>1. ProjectionInv => EntityIsShown
  <2>. SUFFICES ASSUME ProjectionInv PROVE ExpansionIsBall
    BY AttributesAreReasons DEF EntityIsShown
  <2>1. edges \in Graphs /\ \A d \in 1..3 : d \in Nat /\ d > 0
    BY DEF ProjectionInv, PeopleInv
  <2>. QED  BY <2>1, ExpandNodeIsBall DEF ExpansionIsBall
<1>. QED  BY <1>1, AlwaysProjectionInv, PTL
=============================================================================
