---------------------------- MODULE PersonNetwork ----------------------------
(***************************************************************************)
(* person_network (person_network_service.py): the stored graph, where a   *)
(* person's phone, employer or passport is a vertex of its own, projected  *)
(* onto links between persons, breadth first, one step per degree.         *)
(*                                                                         *)
(* A link has a set of reasons ("via").  A confidence is an integer: 600   *)
(* stands for 1.0 in a reason, CERTAIN in a link, where reasons compound.  *)
(* Labels, properties and the ids of documents are left out.  Every edge   *)
(* type exists in the space and every vertex an edge names exists.         *)
(***************************************************************************)
EXTENDS Integers, Sequences, FiniteSets, FiniteSetsExt

CONSTANTS
    People,         \* vertices with the person tag
    Things,         \* the other vertices
    TagOf,          \* [Things -> tags]
    Order,          \* the people as their ids are sorted
    FieldKeys,      \* field keys of HAS_FIELD_VALUE edges, sorted
    Root,           \* the person asked about
    Graphs,         \* the graphs there may be: sets of edges
    Asked           \* the requests

DIRECT_EDGES == {"RELATED_TO", "PAYS", "COMMUNICATED_WITH", "TRANSFERRED_TO"}
SHARED_EDGES == {"HAS_FIELD_VALUE", "HAS_PHONE", "HAS_EMAIL", "HAS_DOCUMENT", "HAS_ACCOUNT",
                 "OWNS_VEHICLE", "LOCATED_AT", "WORKS_AT", "OWNS"}
BRIDGE_EDGES == {"PAYS", "OWNS", "RELATED_TO", "TRANSFERRED_TO", "SHAREHOLDER_OF", "DIRECTOR_OF"}
BRIDGE_TAGS == {"company", "organization"}

\* "key" tells the field of a HAS_FIELD_VALUE edge.
Edge == [src: People \cup Things, dst: People \cup Things, type: STRING, key: STRING]

ASSUME PeopleAssumption == Root \in People /\ People \cap Things = {}
ASSUME OrderAssumption ==
    /\ Order \in Seq(People) /\ Len(Order) = Cardinality(People)
    /\ {Order[n] : n \in 1..Len(Order)} = People
ASSUME GraphsAssumption ==
    /\ IsFiniteSet(Things)
    /\ \A G \in Graphs : G \subseteq Edge /\ IsFiniteSet(G)

\* Connections and risks are asked for without a threshold, a risk within
\* MAX_EXPOSURE_DEGREE.
ASSUME AskedAssumption ==
    /\ Asked \subseteq [for: {"network", "connection", "risk"}, degree: 1..4,
                         minConfidence: 0..600, maxFanout: Nat, maxPersons: Nat \ {0}]
    /\ \A a \in Asked : /\ a.for # "network" => a.minConfidence = 0
                        /\ a.for = "risk" => a.degree = 3

VARIABLES
    edges,          \* the stored graph
    ask,            \* the request
    persons,        \* persons found, with their degree
    links,          \* links found: reasons of each pair
    suppressed,     \* suppressed_hubs
    truncated,
    frontier,
    level           \* degrees expanded so far

networkVars == <<edges, ask, persons, links, suppressed, truncated, frontier, level>>

Pair == {l \in SUBSET People : Cardinality(l) = 2}

NetworkTypeOK ==
    /\ DOMAIN persons \subseteq People
    /\ \A p \in DOMAIN persons : persons[p] \in 0..level
    /\ DOMAIN links \subseteq Pair
    /\ \A l \in DOMAIN links : \A r \in links[l] : r.conf \in 0..600
    /\ suppressed \subseteq Things
    /\ truncated \in BOOLEAN
    /\ frontier \subseteq DOMAIN persons
    /\ level \in 0..ask.degree

NetworkInit ==
    /\ edges \in Graphs
    /\ ask \in Asked
    /\ persons = [p \in {Root} |-> 0]
    /\ links = [l \in {} |-> {}]
    /\ suppressed = {}
    /\ truncated = FALSE
    /\ frontier = {Root}
    /\ level = 0

-----------------------------------------------------------------------------
(* Confidence (connection_confidence.py)                                   *)

\* In hundredths.
WEIGHT_OF(key) ==
    CASE key \in {"passport_number", "national_id", "emirates_id", "number", "iban", "document"} -> 95
      [] key = "bank_account" -> 90
      [] key \in {"phone", "email", "vehicle"} -> 80
      [] key \in {"father_name", "mother_name", "address", "dob", "place_of_birth"} -> 70
      [] key \in {"company", "organization"} -> 40
      [] OTHER -> 50
DIRECT_CONFIDENCE == 540
BRIDGE_CONFIDENCE == 240

\* weight times rarity, 1 / (owners - 1), times 0.6 across different keys.
MatchConfidence(key, owners, sameKey) ==
    (6 * WEIGHT_OF(key) * (IF sameKey THEN 10 ELSE 6)) \div (10 * (owners - 1))

\* combine: noisy-OR of independent reasons.
CERTAIN == 600 * 1000
Combined(via) ==
    CERTAIN - FoldSet(LAMBDA r, rest : (rest * (600 - r.conf)) \div 600, CERTAIN, via)

-----------------------------------------------------------------------------
(* One level                                                               *)

Ends(E) == UNION {{e.src, e.dst} : e \in E}
OtherEnd(e, v) == IF e.src = v THEN e.dst ELSE e.src

\* Traversal.neighbors_batch, in both directions.
Neighbors(V, types) == {e \in edges : e.type \in types /\ (e.src \in V \/ e.dst \in V)}

\* What is not a person at the other end of a direct or a shared edge.
Connectors(F) == Ends(Neighbors(F, DIRECT_EDGES) \cup Neighbors(F, SHARED_EDGES)) \ People

Owners(c) == Ends(Neighbors({c}, SHARED_EDGES)) \cap People
OwnerEdges(c, p) == {e \in Neighbors({c}, SHARED_EDGES) : OtherEnd(e, c) = p}
FieldKeysOf(c, p) == {e.key : e \in {f \in OwnerEdges(c, p) : f.type = "HAS_FIELD_VALUE"}} \ {""}

\* Mutant of Hub: as many owners as are allowed make a hub.
HubAtLimit(c, maxFanout) == Cardinality(Owners(c)) >= maxFanout

Hub(c, maxFanout) == Cardinality(Owners(c)) > maxFanout

\* "tell" keeps apart what the code has twice in a list.
DirectReason(e) ==
    [kind |-> "direct", by |-> {}, types |-> {e.type}, keys |-> {},
     conf |-> DIRECT_CONFIDENCE, tell |-> {<<e, e.src>>}]

\* The first key in the order of keys.
FirstKey(K) ==
    IF K = {} THEN ""
    ELSE FieldKeys[Min({n \in 1..Len(FieldKeys) : FieldKeys[n] \in K})]

FieldReason(c, p, q) ==
    LET same == FieldKeysOf(c, p) \cap FieldKeysOf(c, q)
        all == FieldKeysOf(c, p) \cup FieldKeysOf(c, q)
        sameKey == same # {}
    IN  [kind |-> "shared_field", by |-> {c}, types |-> {"HAS_FIELD_VALUE"}, keys |-> all,
         conf |-> MatchConfidence(FirstKey(IF sameKey THEN same ELSE all),
                                  Cardinality(Owners(c)), sameKey),
         tell |-> {}]

SharedReason(c, p, q) ==
    IF TagOf[c] = "field_value" THEN FieldReason(c, p, q)
    ELSE [kind |-> "shared_attribute", by |-> {c},
          types |-> {e.type : e \in UNION {OwnerEdges(c, o) : o \in Owners(c)}}, keys |-> {},
          conf |-> MatchConfidence(TagOf[c], Cardinality(Owners(c)), TRUE), tell |-> {}]

BridgeReason(e, near, far, p) ==
    [kind |-> "linked_organisation", by |-> {near, far}, types |-> {e.type}, keys |-> {},
     conf |-> BRIDGE_CONFIDENCE, tell |-> {<<e, p>>}]

\* _add_bridged_links: from the organisations at hand to others they are
\* related to; two organisations that are both at hand are not bridged.
Near(F) == {c \in Connectors(F) : TagOf[c] \in BRIDGE_TAGS /\ Owners(c) # {}}
Bridges(F, maxFanout) ==
    LET near == Near(F)
    IN  {b \in [e: Neighbors(near, BRIDGE_EDGES), near: near, far: Things \ near] :
            /\ {b.near, b.far} = {b.e.src, b.e.dst}
            /\ TagOf[b.far] \in BRIDGE_TAGS
            /\ Owners(b.far) # {}
            /\ ~Hub(b.near, maxFanout) /\ ~Hub(b.far, maxFanout)}

\* _expand_level: the reasons that two persons have among the direct edges E,
\* the connectors C and the bridges B.
ReasonsOf(p, q, E, C, B) ==
    {DirectReason(e) : e \in {f \in E : {f.src, f.dst} = {p, q}}}
        \cup {SharedReason(c, p, q) : c \in {d \in C : {p, q} \subseteq Owners(d)}}
        \cup UNION {{BridgeReason(b.e, b.near, b.far, x) :
                        x \in {y \in {p, q} : y \in Owners(b.near) /\ {p, q} \ {y} \subseteq Owners(b.far)}} :
                    b \in B}

\* The links found from a frontier: every pair with a reason.
Found(F, maxFanout) ==
    LET E == Neighbors(F, DIRECT_EDGES)
        C == {c \in Connectors(F) : ~Hub(c, maxFanout)}
        B == Bridges(F, maxFanout)
        all == [l \in Pair |->
                   LET p == CHOOSE x \in l : TRUE
                       q == CHOOSE x \in l : x # p
                   IN  ReasonsOf(p, q, E, C, B)]
    IN  [l \in {k \in Pair : all[k] # {}} |-> all[l]]

\* Mutant of ViaKey: two phones are one reason.
ViaKeyOfKind(r) == <<r.kind, r.types, r.keys>>

\* _merge_via: the identity of a reason does not depend on the end it was
\* found from.
ViaKey(r) == <<r.kind, r.by, r.types, r.keys>>
MergeVia(existing, incoming) ==
    LET new == {ViaKey(r) : r \in incoming} \ {ViaKey(r) : r \in existing}
    IN  existing \cup {CHOOSE r \in incoming : ViaKey(r) = k : k \in new}

\* The first n of the people S by their ids.
FirstOf(S, n) ==
    {p \in S : Cardinality({m \in 1..Len(Order) : Order[m] \in S /\ \E k \in m..Len(Order) : Order[k] = p}) <= n}

Strong(via) == Combined(via) >= 1000 * ask.minConfidence

\* Mutant of Reachable: a weak link is not shown, but leads on.
ReachableAnyway(found, strong) == UNION DOMAIN found

\* "Filtering before the frontier is built is what makes the threshold cut".
Reachable(found, strong) == UNION strong

\* One turn of the loop: links that are too weak are dropped, and the people
\* at the ends of the others make the next frontier, as long as there is room.
ExpandLevel ==
    LET found == Found(frontier, ask.maxFanout)
        strong == {l \in DOMAIN found : Strong(found[l])}
        candidates == Reachable(found, strong) \ DOMAIN persons
        next == FirstOf(candidates, ask.maxPersons - Cardinality(DOMAIN persons))
    IN  /\ level < ask.degree
        /\ frontier # {}
        /\ level' = level + 1
        /\ links' = [l \in DOMAIN links \cup strong |->
                        IF l \notin strong THEN links[l]
                        ELSE IF l \in DOMAIN links THEN MergeVia(links[l], found[l])
                        ELSE found[l]]
        /\ suppressed' = suppressed \cup {c \in Connectors(frontier) : Hub(c, ask.maxFanout)}
        /\ persons' = [p \in DOMAIN persons \cup next |->
                          IF p \in next THEN level + 1 ELSE persons[p]]
        /\ truncated' = (truncated \/ next # candidates)
        /\ frontier' = next
        /\ UNCHANGED <<edges, ask>>

Expanded == level = ask.degree \/ frontier = {}

\* A link whose far end was cut would dangle.
KeptLinks == {l \in DOMAIN links : l \subseteq DOMAIN persons}

-----------------------------------------------------------------------------
(* What the answer promises                                                *)

\* People that are within n links of Root, for links in L.
Within(L) ==
    LET reach[n \in Nat] ==
            IF n = 0 THEN {Root}
            ELSE reach[n - 1] \cup UNION {l \in L : l \cap reach[n - 1] # {}}
    IN  reach

\* Where the code keeps it: a direct edge does not lead from a person to a
\* thing, whose owners would be let in without a link to the person.
DirectIsPersonal ==
    \A e \in edges : e.type \in DIRECT_EDGES =>
        ({e.src, e.dst} \subseteq People \/ {e.src, e.dst} \subseteq Things)

\* And a threshold does not come with a thing of three people, or an
\* organisation of two: of those it is found for, two may have a strong link
\* where each has a weak one to the person it was found from.
Plain ==
    /\ DirectIsPersonal
    /\ \/ ask.minConfidence = 0
       \/ \A c \in Things : Cardinality(Owners(c)) <= IF TagOf[c] \in BRIDGE_TAGS THEN 1 ELSE 2

\* Whoever is shown is joined to the root by the links that are shown, as many
\* as the degree.
ShownIsJoined ==
    LET reach == Within(KeptLinks)
    IN  \A p \in DOMAIN persons : p \in reach[persons[p]]

\* "a person only reachable through a link too weak to show is not reachable"
\* (person_network_service.py:164), where the code keeps it.
FoundIsConnected == Plain => ShownIsJoined

\* The network is one: people, links between them, and the root at its centre.
NetworkIsSound == NetworkTypeOK /\ FoundIsConnected

\* The projection, without a frontier: two people are linked when they have a
\* direct edge, share a vertex that few people have, or belong to related
\* organisations.
Projected(p, q) ==
    LET joins(c) == Cardinality(Owners(c)) <= ask.maxFanout
    IN  \/ \E e \in edges : e.type \in DIRECT_EDGES /\ {e.src, e.dst} = {p, q}
        \/ \E c \in Things : joins(c) /\ {p, q} \subseteq Owners(c)
        \/ \E e \in edges :
               /\ e.type \in BRIDGE_EDGES
               /\ {e.src, e.dst} \subseteq {c \in Things : TagOf[c] \in BRIDGE_TAGS /\ joins(c)}
               /\ \/ p \in Owners(e.src) /\ q \in Owners(e.dst)
                  \/ q \in Owners(e.src) /\ p \in Owners(e.dst)

Projection == {l \in Pair : \E p, q \in l : p # q /\ Projected(p, q)}

\* "Degree 1/2/3 is then breadth-first search over that projection" (:12): when
\* nothing is cut, the people found are those within the distance, each at its
\* own.
DegreeIsDistance ==
    Plain /\ ask.minConfidence = 0 /\ ~truncated =>
        LET projection == Projection
            reach == [n \in 0..level |-> Within(projection)[n]]
        IN  /\ DOMAIN persons = reach[level]
            /\ \A p \in DOMAIN persons : \A n \in 0..level : p \in reach[n] => persons[p] <= n

\* Every direct edge of the pair is a reason of the link, and so is everything
\* the two share, if it is not reported as a hub.
SaysWhy(l) ==
    /\ \A e \in edges : e.type \in DIRECT_EDGES /\ {e.src, e.dst} = l =>
           \E r \in links[l] : r.kind = "direct" /\ e.type \in r.types
    /\ \A c \in Things : l \subseteq Owners(c) =>
           (c \in suppressed <=> \A r \in links[l] : r.by # {c})

\* A link that is shown says why once one of its ends was expanded ("Report it
\* rather than hide it", :429).  A threshold may drop it when it is expanded
\* and let it in later for a part of its reasons; not in a Plain graph.
ReasonsComplete ==
    Plain \/ ask.minConfidence = 0 =>
        \A l \in KeptLinks : (\E p \in l : persons[p] < level) => SaysWhy(l)
=============================================================================
