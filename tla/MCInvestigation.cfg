\* Graphs of four people, networks, connections and risk.
SPECIFICATION Spec
CONSTANTS
    p1 = p1
    p2 = p2
    p3 = p3
    p4 = p4
    ph = ph
    ph2 = ph2
    c1 = c1
    c2 = c2
    fv = fv
    s = s
    wl = wl
    ct = ct
    dc = dc
    People = {p1, p2, p3, p4}
    Things = {ph, ph2, c1, c2, fv, s, wl, ct, dc}
    TagOf <- MCTagOf
    Order <- MCOrder
    FieldKeys <- MCFieldKeys
    Root = p1
    Graphs <- MCGraphs
    Asked <- MCAsked
    Nodes = {p1, p2, p3, p4}
    NoNode = NoNode
    Costs <- MCCosts
INVARIANTS
    NetworkIsSound
    DegreeIsDistance
    ReasonsComplete
    SearchSound
    ChainIsStrongest
    AssessmentIsRight
    EntityIsShown
\* An answer ends the request.
CHECK_DEADLOCK FALSE
