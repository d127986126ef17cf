---------------------------- MODULE Investigation ----------------------------
(***************************************************************************)
(* What an investigator asks of the person network: who is connected       *)
(* (person_network), by which chain (find_connection), how risky a person  *)
(* is (risk_service.py with risk_engine/scorer.py), and what is around one *)
(* entity (attributes, expand_node).                                       *)
(*                                                                         *)
(* A score is in units of 1/300.  The properties of a vertex that a score  *)
(* reads, pep_status and risk_classification, are chosen when it is read.  *)
(***************************************************************************)
EXTENDS PersonNetwork, StrongestPath

VARIABLE
    risk        \* the result of RiskService, or NoRisk

vars == <<networkVars, pathVars, risk>>

\* The search is among the people of the network.
ASSUME NodesAssumption == Nodes = People

FLAG_TAGS == {"sanction_entry", "watchlist_entry"}
NoRisk == [scored |-> FALSE, direct |-> FALSE, degree |-> 0, read |-> {},
           transfers |-> 0, pep |-> "none", country |-> FALSE]

RiskTypeOK ==
    risk \in [scored: BOOLEAN, direct: BOOLEAN, degree: 0..3, read: SUBSET FLAG_TAGS,
              transfers: Nat, pep: {"none", "self", "associate"}, country: BOOLEAN]

Init == NetworkInit /\ PathInit /\ risk = NoRisk

-----------------------------------------------------------------------------
(* find_connection                                                         *)

\* The logarithm of a confidence to the base 10/9, rounded down.  A chain costs
\* the sum of its links, so of two chains that are about as likely the search of
\* the code, which does not round, may take the other.
Cost(confidence) ==
    LET power[n \in Nat] == IF n = 0 THEN CERTAIN ELSE (power[n - 1] * 9) \div 10
    IN  Cardinality({n \in 1..30 : confidence <= power[n]})

\* A person who was not found is not connected, and nothing is searched.
FindConnection ==
    /\ ask.for = "connection"
    /\ Expanded
    /\ \E t \in DOMAIN persons \ {Root} :
           Begin(Root, t, [l \in KeptLinks |-> Cost(Combined(links[l]))])
    /\ UNCHANGED <<networkVars, risk>>

-----------------------------------------------------------------------------
(* Risk                                                                    *)

Adjacent(v) == Ends({e \in edges : v \in {e.src, e.dst}}) \ {v}

\* A listing hangs off the entity it names.
Listings(tags) == {c \in Things : TagOf[c] \in tags}
Named(v, tags) == Adjacent(v) \cap Listings(tags) # {}
Listed(v) == Named(v, FLAG_TAGS)

\* Mutant of Nearest: some listed person, not the nearest.
Farthest(exposed) == IF exposed = {} THEN 0 ELSE Max({persons[p] : p \in exposed})

\* _add_indirect_exposure; 0: nobody.
Nearest(exposed) == IF exposed = {} THEN 0 ELSE Min({persons[p] : p \in exposed})

\* The neighbours of the person carry their tags.  Around a person that is not
\* listed, find_listed_entities scans the tags of the listings one by one: a scan
\* that raises, for whatever reason, is taken for a space without the tag.
AssessRisk ==
    /\ ask.for = "risk"
    /\ ~risk.scored
    /\ Listed(Root) \/ Expanded
    /\ \E read \in SUBSET FLAG_TAGS, pep \in {"none", "self", "associate"}, country \in BOOLEAN :
           /\ country => \E c \in Adjacent(Root) : c \in Things /\ TagOf[c] = "country"
           /\ risk' = [scored |-> TRUE,
                       direct |-> Listed(Root),
                       degree |-> IF Listed(Root) THEN 0
                                  ELSE Nearest({p \in DOMAIN persons \ {Root} : Named(p, read)}),
                       read |-> read,
                       transfers |-> Cardinality({e \in edges : /\ e.type = "TRANSFERRED_TO"
                                                                /\ Root \in {e.src, e.dst}}),
                       pep |-> pep, country |-> country]
    /\ UNCHANGED <<networkVars, pathVars>>

PepFactor(pep) == CASE pep = "self" -> 210 [] pep = "associate" -> 147 [] pep = "none" -> 0

\* RiskScorer.calculate.
Score(r) ==
    LET shared == 50 * (IF r.transfers < 3 THEN r.transfers ELSE 3)
        exposure == IF r.degree = 0 THEN 0 ELSE 24 * (8 - 2 * (r.degree - 1))
        total == (IF r.direct THEN 300 ELSE 0) + exposure + shared
                     + PepFactor(r.pep) + (IF r.country THEN 90 ELSE 0)
    IN  IF total < 300 THEN total ELSE 300

Level(r) ==
    CASE Score(r) >= 240 -> "high"
      [] Score(r) >= 135 /\ Score(r) < 240 -> "medium"
      [] OTHER -> "low"

-----------------------------------------------------------------------------
(* One entity: what it expands into                                        *)

EXPANDABLE_TAGS == {"document"}

\* Mutant of SharedWith: who has it by the edge that v has it by.
SharedWithAlike(v, c) ==
    UNION {{OtherEnd(f, c) : f \in {g \in Neighbors({c}, {e.type}) : OtherEnd(g, c) \in People}} :
             e \in OwnerEdges(c, v)} \ {v}

\* The other people who share a connector (shared_with).
SharedWith(v, c) == Owners(c) \ {v}

\* attributes: the connectors of v that are opened on the canvas.
Attributes(v) ==
    LET own == {c \in Ends(Neighbors({v}, SHARED_EDGES)) \ People : TagOf[c] \in EXPANDABLE_TAGS}
    IN  [c \in own |-> SharedWith(v, c)]

Around(V) == {e \in edges : {e.src, e.dst} \cap V # {}}

\* One turn of the loop in expand_node, with get_neighbors_with_edges of every
\* vertex in the frontier that was not visited.
Turn(so) ==
    LET new == so.frontier \ so.visited
        found == UNION {Adjacent(x) : x \in new}
    IN  [visited |-> so.visited \cup new, frontier |-> found,
         nodes |-> so.nodes \cup found, edges |-> so.edges \cup Around(new)]

\* expand_node: the entity itself is there whether or not it was found.
expand_node(v, depth) ==
    LET so[n \in 0..depth] ==
            IF n = 0 THEN [visited |-> {}, frontier |-> {v}, nodes |-> {}, edges |-> {}]
            ELSE Turn(so[n - 1])
    IN  [nodes |-> so[depth].nodes \cup {v}, edges |-> so[depth].edges]

-----------------------------------------------------------------------------
Expand ==
    /\ ~(ask.for = "risk" /\ Listed(Root))
    /\ ExpandLevel
    /\ UNCHANGED <<pathVars, risk>>

Search == SearchStep /\ UNCHANGED <<networkVars, risk>>

Next == Expand \/ FindConnection \/ Search \/ AssessRisk

Spec == Init /\ [][Next]_vars

-----------------------------------------------------------------------------
\* The chain is one of shown links, and no other chain of them that visits
\* nobody twice has less weight, or as little in fewer hops.
ChainIsStrongest ==
    phase = "found" =>
        LET chains == {p \in UNION {[1..n -> DOMAIN persons] : n \in 2..Cardinality(DOMAIN persons)} : Chain(p)}
        IN  /\ DOMAIN cost = KeptLinks
            /\ path \in chains
            /\ \A p \in chains : ~Less(WeightOf(p), WeightOf(path))

\* "the nearest listed party in their person network is reported at the degree it
\* was found" (risk_service.py:95): a person who is not listed is exposed exactly
\* when somebody within three degrees is named by a listing that was read, at the
\* degree of the nearest.  So an exposed person is scored as clean in two cases
\* alone: no listing that names somebody near could be read, as an exception is
\* taken for "this space has no such tag" (graph_service.py:214), or the network
\* was cut.
ExposureIsDistance ==
    Plain /\ risk.scored /\ ~risk.direct /\ ~truncated =>
        LET projection == Projection
            near(n) == \E p \in Within(projection)[n] \ {Root} : Named(p, risk.read)
        IN  /\ risk.degree = 0 => ~near(ask.degree)
            /\ risk.degree > 0 => near(risk.degree) /\ ~near(risk.degree - 1)

\* "a PEP with nothing else against them lands in the middle band ... but
\* combines with any other factor to clear the high threshold" (scorer.py:6);
\* a listed person is high, and an associate alone is in the middle as well.
PepBands ==
    risk.scored =>
        LET others == risk.direct \/ risk.degree > 0 \/ risk.transfers > 0 \/ risk.country
        IN  /\ risk.pep = "self" => Level(risk) = IF others THEN "high" ELSE "medium"
            /\ risk.pep = "associate" /\ ~others => Level(risk) = "medium"
            /\ risk.direct => Level(risk) = "high"

\* "that's what makes an expanded attribute readable as the reason for a link"
\* (person_network_service.py:270): what attributes() says a person shares is
\* what the network gives as the reason of their link, and the other way
\* round, but for hubs, which the network reports as such, and for people who
\* were cut.
AttributesAgree ==
    level > 0 =>
        \A c \in DOMAIN Attributes(Root) : \A q \in People \ {Root} :
            LET l == {Root, q}
                shown == l \in KeptLinks /\ \E r \in links[l] : r.by = {c}
                told == \/ l \in KeptLinks /\ (Plain \/ ask.minConfidence = 0)
                        \/ ~truncated /\ ask.minConfidence = 0
            IN  told =>
                    shown <=> q \in Attributes(Root)[c] /\ c \notin suppressed

\* expand_node gives the vertices within its depth, every edge that was crossed
\* on the way, and no edge without its ends.
ExpansionIsBall ==
    level = 0 =>
        \A v \in People, depth \in 1..3 :
            LET answer == expand_node(v, depth)
                ball[n \in 0..depth] ==
                    IF n = 0 THEN {v} ELSE ball[n - 1] \cup UNION {Adjacent(x) : x \in ball[n - 1]}
            IN  /\ answer.nodes = ball[depth]
                /\ answer.edges = Around(ball[depth - 1])

\* What is shown of an entity is what the graph and the network have.
EntityIsShown == AttributesAgree /\ ExpansionIsBall

\* What is said of a person's risk: how far the nearest listing that was read is,
\* and which band the factors make.
AssessmentIsRight == RiskTypeOK /\ ExposureIsDistance /\ PepBands
=============================================================================
