------------------------------ MODULE WebClient ------------------------------
(***************************************************************************)
(* The investigation page: usePersonNetworkState and its callers in        *)
(* InvestigationPage.  Requests to the API are answered in any order, or   *)
(* fail, and none is withdrawn.                                            *)
(*                                                                         *)
(* React hands a callback the state of the last rendering.  What a click   *)
(* sets is rendered before the next event; what the answer of a request    *)
(* sets is rendered some time later, and other events come in between.     *)
(*                                                                         *)
(* An answer is told by its question; the confidence threshold, another    *)
(* part of the question, is left out.                                      *)
(***************************************************************************)
EXTENDS Naturals, Sequences, SequencesExt

CONSTANTS
    People,
    PersonsOf,      \* [People -> [1..3 -> SUBSET People]]: the network of a root at a degree
    NoNetwork,      \* nothing is shown
    MaxLoads        \* bound: loads in flight

Question == [root: People, degree: 1..3]

ASSUME PersonsAssumption ==
    \A r \in People, d \in 1..3 : r \in PersonsOf[r][d] /\ PersonsOf[r][d] \subseteq People
ASSUME NoNetworkAssumption == NoNetwork \notin Question
ASSUME MaxLoadsAssumption == MaxLoads \in Nat \ {0}

VARIABLES
    wanted,         \* rootId, if any, and the degree on the controls
    loads,          \* getPersonNetwork calls in flight: question and preserveExpanded
    network,        \* the question that the network on the canvas answers
    expanded,       \* people who are fanned out
    attributes,     \* people whose attributes are cached
    inFlight,       \* inFlightRef
    fetches,        \* getEntityAttributes calls in flight, of each person
    waiting,        \* people that a toggleExpand waits for
    screen,         \* network, expanded and attributes as rendered
    overlapped      \* was the last question asked while another one was out?

netVars == <<wanted, loads, overlapped>>
attrVars == <<attributes, inFlight, fetches, waiting>>
vars == <<netVars, attrVars, network, expanded, screen>>

Persons(n) == IF n = NoNetwork THEN {} ELSE PersonsOf[n.root][n.degree]

TypeOK ==
    /\ wanted \in [root: SUBSET People, degree: 1..3]
    /\ loads \in Seq([q: Question, keep: BOOLEAN])
    /\ network \in Question \cup {NoNetwork}
    /\ {expanded, attributes, inFlight, waiting} \subseteq SUBSET People
    /\ fetches \in [People -> Nat]
    /\ screen \in [network: Question \cup {NoNetwork}, expanded: SUBSET People,
                   attributes: SUBSET People]
    /\ overlapped \in BOOLEAN

Init ==
    /\ wanted = [root |-> {}, degree |-> 1]
    /\ loads = <<>>
    /\ network = NoNetwork
    /\ expanded = {} /\ attributes = {} /\ inFlight = {} /\ waiting = {}
    /\ fetches = [p \in People |-> 0]
    /\ screen = [network |-> NoNetwork, expanded |-> {}, attributes |-> {}]
    /\ overlapped = FALSE

-----------------------------------------------------------------------------
(* The network                                                             *)

Load(r, d, keep) ==
    /\ Len(loads) < MaxLoads
    /\ loads' = Append(loads, [q |-> [root |-> r, degree |-> d], keep |-> keep])
    /\ overlapped' = (loads # <<>>)

\* handleSelectResult, handleExploreFromConnection.
SelectRoot(r) ==
    /\ wanted' = [wanted EXCEPT !.root = {r}]
    /\ Load(r, wanted.degree, FALSE)
    /\ UNCHANGED <<attrVars, network, expanded, screen>>

\* Mutant of DegreeAsked: the degree of the last rendering.
DegreeBefore(d) == wanted.degree

DegreeAsked(d) == d

\* handleDegreeChange; without a root nothing is asked.
ChangeDegree(d) ==
    /\ d # wanted.degree
    /\ wanted' = [wanted EXCEPT !.degree = d]
    /\ \/ wanted.root = {} /\ UNCHANGED <<loads, overlapped>>
       \/ \E r \in wanted.root : Load(r, DegreeAsked(d), TRUE)
    /\ UNCHANGED <<attrVars, network, expanded, screen>>

\* loadNetwork goes on, whichever question was answered.
LoadAnswered(n) ==
    /\ network' = loads[n].q
    /\ expanded' = IF loads[n].keep THEN expanded ELSE {}
    /\ loads' = RemoveAt(loads, n)
    /\ UNCHANGED <<wanted, overlapped, attrVars, screen>>

LoadFailed(n) ==
    /\ network' = NoNetwork
    /\ loads' = RemoveAt(loads, n)
    /\ UNCHANGED <<wanted, overlapped, expanded, attrVars, screen>>

-----------------------------------------------------------------------------
(* Attributes                                                              *)

Fetching(p) == p \in inFlight

\* ensureAttributes.
Ensure(p) ==
    IF p \in screen.attributes \/ Fetching(p) THEN UNCHANGED <<inFlight, fetches>>
    ELSE /\ inFlight' = inFlight \cup {p}
         /\ fetches' = [fetches EXCEPT ![p] = @ + 1]

\* The panel asks for whoever is selected and on the canvas.
Look(p) ==
    /\ p \in Persons(screen.network)
    /\ Ensure(p)
    /\ UNCHANGED <<netVars, network, expanded, attributes, waiting, screen>>

\* A click is rendered, with whatever was waiting to be.
Rendered == screen' = [network |-> network, expanded |-> expanded', attributes |-> attributes]

FoldIn(p) ==
    /\ p \in screen.expanded
    /\ expanded' = expanded \ {p}
    /\ UNCHANGED <<inFlight, fetches, waiting>>

FanOut(p) ==
    /\ p \notin screen.expanded
    /\ expanded' = expanded \cup {p}
    /\ Ensure(p)
    /\ waiting' = IF p \in screen.attributes THEN waiting ELSE waiting \cup {p}

\* handleToggle and toggleExpand.
Toggle(p) ==
    /\ p \in Persons(screen.network)
    /\ FoldIn(p) \/ FanOut(p)
    /\ Rendered
    /\ UNCHANGED <<netVars, network, attributes>>

Answered(p) ==
    /\ fetches' = [fetches EXCEPT ![p] = @ - 1]
    /\ inFlight' = inFlight \ {p}
    /\ waiting' = waiting \ {p}
    /\ UNCHANGED <<netVars, network, screen>>

FetchAnswered(p) ==
    /\ fetches[p] > 0
    /\ attributes' = attributes \cup {p}
    /\ Answered(p)
    /\ UNCHANGED expanded

\* Mutant of Folded: the ring stays open.
FoldedNever(p) == expanded

\* "a failed fetch folds them back in": who was fanned out, not who was only
\* looked at.
Folded(p) == IF p \in waiting THEN expanded \ {p} ELSE expanded

FetchFailed(p) ==
    /\ fetches[p] > 0
    /\ expanded' = Folded(p)
    /\ Answered(p)
    /\ UNCHANGED attributes

Render ==
    /\ screen' = [network |-> network, expanded |-> expanded, attributes |-> attributes]
    /\ UNCHANGED <<netVars, attrVars, network, expanded>>

-----------------------------------------------------------------------------
Next ==
    \/ \E r \in People : SelectRoot(r)
    \/ \E d \in 1..3 : ChangeDegree(d)
    \/ \E n \in 1..Len(loads) : LoadAnswered(n) \/ LoadFailed(n)
    \/ \E p \in People : Look(p) \/ Toggle(p) \/ FetchAnswered(p) \/ FetchFailed(p)
    \/ Render

Spec == Init /\ [][Next]_vars

-----------------------------------------------------------------------------
\* "One request per person, shared by every caller that asks while it's in
\* flight" (usePersonNetworkState.ts:41), and nobody is "marked open with an
\* empty ring" (:132): whoever is fanned out has attributes to show, or a
\* request is out whose failure folds the ring back in, however clicks, the
\* panel, late answers and renderings are mixed.
RingsAreBacked ==
    /\ \A p \in People : fetches[p] = IF p \in inFlight THEN 1 ELSE 0
    /\ \A p \in expanded : p \in attributes \/ (p \in waiting /\ p \in inFlight)

\* The canvas shows what the controls ask for, once the last answer is there.
\* It takes that no question was asked before the one before it was answered:
\* the hook shows whichever answer comes last, not that of the last question.
ShownIsAsked ==
    loads = <<>> /\ ~overlapped =>
        \A r \in wanted.root : network \in {NoNetwork, [root |-> r, degree |-> wanted.degree]}
=============================================================================
