--------------------------- MODULE MCInvestigation ---------------------------
(***************************************************************************)
(* Four people and what they may have in common, for TLC.                  *)
(***************************************************************************)
EXTENDS Investigation, TLC

CONSTANTS p1, p2, p3, p4, ph, ph2, c1, c2, fv, s, wl, ct, dc

MCTagOf == (ph :> "phone") @@ (ph2 :> "phone") @@ (c1 :> "company") @@ (c2 :> "organization")
               @@ (fv :> "field_value") @@ (s :> "sanction_entry") @@ (wl :> "watchlist_entry")
               @@ (ct :> "country") @@ (dc :> "document")
MCOrder == <<p1, p2, p3, p4>>
MCFieldKeys == <<"dob", "father_name", "nickname">>

E(x, type, y) == [src |-> x, dst |-> y, type |-> type, key |-> ""]
Field(x, key) == [src |-> x, dst |-> fv, type |-> "HAS_FIELD_VALUE", key |-> key]

\* Phones that two or three people have, and direct edges in both directions.
Phones == {E(p1, "RELATED_TO", p2), E(p3, "PAYS", p2), E(p2, "PAYS", p3), E(p1, "HAS_PHONE", ph),
           E(p2, "HAS_PHONE", ph), E(p3, "HAS_PHONE", ph), E(p2, "HAS_PHONE", ph2),
           E(p3, "HAS_PHONE", ph2)}

\* Employers that are related, and values that fields agree on.
Companies == {E(p1, "WORKS_AT", c1), E(p2, "WORKS_AT", c1), E(p3, "WORKS_AT", c2), E(p4, "WORKS_AT", c2),
              E(c2, "PAYS", c1), Field(p2, "dob"), Field(p4, "father_name"), Field(p4, "dob")}

\* A passport that people share, and that one of them holds in two ways.
Papers == {E(p1, "HAS_DOCUMENT", dc), E(p2, "HAS_DOCUMENT", dc), E(p2, "OWNS", dc), E(p3, "OWNS", dc),
           E(p1, "PAYS", p2), E(p3, "RELATED_TO", p1)}

\* Listed people, transfers and countries.
Listing == {E(p1, "RELATED_TO", p2), E(p2, "TRANSFERRED_TO", p3), E(p3, "HAS_PHONE", ph),
            E(p4, "HAS_PHONE", ph), E(p1, "APPEARS_ON", s), E(p3, "APPEARS_ON", s),
            E(p4, "APPEARS_ON", wl), E(p1, "TRANSFERRED_TO", p3), E(p1, "CITIZEN_OF", ct)}

\* A company that a person is related to: an edge that links no person.
Related == {E(p1, "RELATED_TO", c1), E(p2, "WORKS_AT", c1), E(p3, "WORKS_AT", c1), E(p2, "PAYS", p4)}

\* A way round that is better than the link at hand.
WayRound == {E(p1, "HAS_PHONE", ph), E(p2, "HAS_PHONE", ph), E(p2, "HAS_PHONE", ph2), E(p3, "HAS_PHONE", ph2),
             E(p1, "WORKS_AT", c1), E(p3, "WORKS_AT", c1), E(p3, "WORKS_AT", c2), E(p4, "WORKS_AT", c2)}

MCGraphs == SUBSET Phones \cup SUBSET Companies \cup SUBSET Papers \cup SUBSET Listing \cup SUBSET Related \cup {WayRound}

Ask(for, degree, minConfidence, maxFanout, maxPersons) ==
    [for |-> for, degree |-> degree, minConfidence |-> minConfidence,
     maxFanout |-> maxFanout, maxPersons |-> maxPersons]

MCAsked == {Ask("network", 3, 300, 2, 4), Ask("network", 3, 0, 2, 2), Ask("connection", 4, 0, 3, 4),
            Ask("connection", 4, 0, 2, 3), Ask("risk", 3, 0, 3, 4), Ask("risk", 3, 0, 2, 3)}

MCCosts == {[l \in {{p1, p2}} |-> 0]}
=============================================================================
