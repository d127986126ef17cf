---------------------------- MODULE StrongestPath ----------------------------
(***************************************************************************)
(* _strongest_path (person_network_service.py): the chain of links between *)
(* two people with the largest product of confidences.  The code adds up   *)
(* -log(confidence); a link's cost stands for it, any natural number, zero *)
(* included: a confidence is rounded and may be 1.                         *)
(*                                                                         *)
(* One step per element popped from the heap, and one per hop of the walk  *)
(* back from the target.                                                   *)
(***************************************************************************)
EXTENDS Naturals, FiniteSets, Sequences

CONSTANTS
    Nodes,          \* persons
    NoNode,         \* not a person
    Costs           \* the weighted graphs: functions from some links to Nat

ASSUME NoNodeAssumption == NoNode \notin Nodes
ASSUME CostsAssumption ==
    \A c \in Costs : /\ \A l \in DOMAIN c : \E u, v \in Nodes : u # v /\ l = {u, v}
                     /\ \A l \in DOMAIN c : c[l] \in Nat

VARIABLES
    phase,      \* "idle", "search", "walk", "found" or "raised"
    ends,       \* source and target
    cost,       \* the links and their costs
    best,       \* best[v]: weight and hops of the best way to v so far
    from,       \* came_from: the person before v on that way
    visited,
    heap,       \* the priority queue: weight, hops and person
    path        \* path_ids as the walk back finds them, target first

pathVars == <<phase, ends, cost, best, from, visited, heap, path>>

Key == [w: Nat, h: Nat]
Nothing == [v \in {} |-> 0]

PathTypeOK ==
    /\ phase \in {"idle", "search", "walk", "found", "raised"}
    /\ ends \in [source: Nodes \cup {NoNode}, target: Nodes \cup {NoNode}]
    /\ phase # "idle" => ends.source \in Nodes /\ ends.target \in Nodes
    /\ DOMAIN best \subseteq Nodes /\ best \in [DOMAIN best -> Key]
    /\ DOMAIN from \subseteq Nodes /\ from \in [DOMAIN from -> Nodes]
    /\ visited \subseteq Nodes
    /\ heap \subseteq [w: Nat, h: Nat, v: Nodes]
    /\ path \in Seq(Nodes)

PathInit ==
    /\ phase = "idle"
    /\ ends = [source |-> NoNode, target |-> NoNode]
    /\ cost = Nothing /\ best = Nothing /\ from = Nothing
    /\ visited = {} /\ heap = {} /\ path = <<>>

\* The two are different people (find_connection).
Begin(s, t, c) ==
    /\ phase = "idle"
    /\ s # t
    /\ phase' = "search"
    /\ ends' = [source |-> s, target |-> t]
    /\ cost' = c
    /\ best' = [v \in {s} |-> [w |-> 0, h |-> 0]]
    /\ heap' = {[w |-> 0, h |-> 0, v |-> s]}
    /\ UNCHANGED <<from, visited, path>>

-----------------------------------------------------------------------------
\* Tuples are compared from the left.
Less(a, b) == a.w < b.w \/ (a.w = b.w /\ a.h < b.h)

Linked(u, v) == {u, v} \in DOMAIN cost /\ u # v
Via(u, v) == [w |-> best[u].w + cost[{u, v}], h |-> best[u].h + 1]

\* Mutant of Least: hops come first.
LeastHops(x) == x \in heap /\ \A y \in heap : x.h <= y.h

\* heappop: weight, then hops; the order of ids does not matter here.
Least(x) == x \in heap /\ \A y \in heap : ~Less(y, x)

Skip(x) ==
    /\ x.v \in visited
    /\ heap' = heap \ {x}
    /\ UNCHANGED <<phase, visited, best, from>>

Arrive(x) ==
    /\ x.v \notin visited
    /\ x.v = ends.target
    /\ phase' = "walk"
    /\ visited' = visited \cup {x.v}
    /\ heap' = heap \ {x}
    /\ UNCHANGED <<best, from>>

\* Mutant of Improved: a person that was reached before is left as it is.
ImprovedOnce(u) ==
    {v \in Nodes \ (visited \cup {u}) : Linked(u, v) /\ v \notin DOMAIN best}

Improved(u) ==
    {v \in Nodes \ (visited \cup {u}) :
        Linked(u, v) /\ (v \in DOMAIN best => Less(Via(u, v), best[v]))}

Settle(x) ==
    LET u == x.v
        I == Improved(u)
    IN  /\ u \notin visited
        /\ u # ends.target
        /\ visited' = visited \cup {u}
        /\ best' = [v \in DOMAIN best \cup I |-> IF v \in I THEN Via(u, v) ELSE best[v]]
        /\ from' = [v \in DOMAIN from \cup I |-> IF v \in I THEN u ELSE from[v]]
        /\ heap' = (heap \ {x}) \cup {[w |-> Via(u, v).w, h |-> Via(u, v).h, v |-> v] : v \in I}
        /\ UNCHANGED phase

Pop ==
    /\ phase = "search"
    /\ \E x \in heap : Least(x) /\ (Skip(x) \/ Arrive(x) \/ Settle(x))
    /\ UNCHANGED <<ends, cost, path>>

Exhausted ==
    /\ phase = "search"
    /\ heap = {}
    /\ phase' = "walk"
    /\ UNCHANGED <<ends, cost, best, from, visited, heap, path>>

\* came_from, back from the target; KeyError where there is none.
StartWalk ==
    /\ path = <<>>
    /\ path' = <<ends.target>>
    /\ UNCHANGED phase

WalkBack ==
    LET v == path[Len(path)]
    IN  /\ path # <<>>
        /\ IF v = ends.source THEN phase' = "found" /\ UNCHANGED path
           ELSE IF v \in DOMAIN from THEN path' = Append(path, from[v]) /\ UNCHANGED phase
           ELSE phase' = "raised" /\ UNCHANGED path

Walk ==
    /\ phase = "walk"
    /\ StartWalk \/ WalkBack
    /\ UNCHANGED <<ends, cost, best, from, visited, heap>>

SearchStep == Pop \/ Exhausted \/ Walk

PathNext == (\E s, t \in Nodes, c \in Costs : Begin(s, t, c)) \/ SearchStep

PathSpec == PathInit /\ [][PathNext]_pathVars

-----------------------------------------------------------------------------
(* What the search promises                                                *)

\* What the last n hops of a chain cost; a chain begins with the target.
CostOf(p) ==
    LET ofLast[n \in 0 .. Len(p) - 1] ==
            IF n = 0 THEN 0 ELSE ofLast[n - 1] + cost[{p[Len(p) - n], p[Len(p) - n + 1]}]
    IN  ofLast

WeightOf(p) == [w |-> CostOf(p)[Len(p) - 1], h |-> Len(p) - 1]

\* A chain of links, from the target back to the source.
Chain(p) ==
    /\ Len(p) > 1 /\ p[1] = ends.target /\ p[Len(p)] = ends.source
    /\ \A n \in 1 .. Len(p) - 1 : {p[n], p[n + 1]} \in DOMAIN cost

\* Every link of a settled person was tried: the person at its other end has a
\* way that is as good.
Relaxed ==
    \A u \in visited \ {ends.target} : \A v \in Nodes :
        Linked(u, v) => v \in DOMAIN best /\ ~Less(Via(u, v), best[v])

\* People are settled in order, and who is not settled is no nearer.
Ordered ==
    \A u \in visited : \A v \in DOMAIN best \ visited : ~Less(best[v], best[u])

\* came_from leads from every person reached to the source, hop by hop, and
\* the weight found is the cost of those hops.
Traced ==
    /\ DOMAIN best \subseteq DOMAIN from \cup {ends.source}
    /\ \A v \in DOMAIN from :
           /\ from[v] \in visited /\ v \in DOMAIN best
           /\ Linked(from[v], v) /\ best[v] = Via(from[v], v)

\* What makes the answer right: the three together certify that no chain of
\* links is better than the one found ("weighted to maximize the product of
\* hop confidences", person_network_service.py:737), whatever the links are.
Certified == phase # "idle" => Relaxed /\ Ordered /\ Traced

\* "target_id must be reachable from source_id through links", the docstring
\* says (person_network_service.py:742), but find_connection() calls with
\* anybody who was found, linked or not.  The walk back ends in a KeyError
\* exactly then: the people reached are closed under links and the target is
\* not among them.
RaisedWhenApart ==
    phase = "raised" =>
        /\ ends.source \in visited /\ ends.target \notin visited
        /\ \A u \in visited : \A v \in Nodes : Linked(u, v) => v \in visited

\* The search is right at every step, and gives up only where there is no way.
SearchSound == PathTypeOK /\ Certified /\ RaisedWhenApart
=============================================================================
