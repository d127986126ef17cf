\* Two loads at a time, and any number of clicks.
SPECIFICATION Spec
CONSTANTS
    p1 = p1
    p2 = p2
    People = {p1, p2}
    PersonsOf <- MCPersonsOf
    NoNetwork = NoNetwork
    MaxLoads = 2
INVARIANTS
    RingsAreBacked
    ShownIsAsked
