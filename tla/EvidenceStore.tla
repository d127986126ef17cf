--------------------------- MODULE EvidenceStore ---------------------------
(***************************************************************************)
(* The state that the ingest pipeline, the API's request handlers and the  *)
(* startup sweep share: the evidence, fact, review-item and registry rows  *)
(* of the relational store (evidence_core/db_models.py) and the graph the  *)
(* accepted facts are projected into (intelligence_schema/graph_writer.py).*)
(*                                                                         *)
(* A fact and its review item are inserted in one transaction and deleted  *)
(* in one transaction everywhere in the code, so the item is a field of    *)
(* the fact.  A fact's uuid is its evidence, the commit that made it (gen),*)
(* its kind and its endpoints; an entity fact has src = tgt.               *)
(***************************************************************************)
EXTENDS Naturals, FiniteSets, Sequences

CONSTANTS
    Evidence,       \* evidence uuids, each used by one row at most
    EntityIds,      \* registry uuids, each used by one row at most
    Keys,           \* what a mention identifies: deterministic key or name
    KeyOf,          \* [EntityIds -> Keys]
    HardKeys,       \* the keys under the UNIQUE constraint; others are fuzzy
    Contents,       \* text contents, told apart by sha256
    ContentOf,      \* [Evidence -> Contents]
    Threads,        \* threads of the ingest pool (INGEST_WORKERS)
    Clients,        \* API request handlers that may run at one time
    NoEvidence      \* not an evidence: what an idle thread or client works on

ASSUME KeyOfAssumption == KeyOf \in [EntityIds -> Keys] /\ HardKeys \subseteq Keys
ASSUME NoEvidenceAssumption == NoEvidence \notin Evidence
ASSUME ContentOfAssumption == ContentOf \in [Evidence -> Contents]

VARIABLES
    row,            \* evidence rows: status and cancel_requested
    gen,            \* commits so far that made facts of each evidence
    facts,          \* fact rows, with the state of their review items
    reg,            \* entity_registry rows and their evidence_ids
    graph           \* vertices and edges of the intelligence graph

storeVars == <<row, gen, facts, reg, graph>>

ACTIVE_STATUSES == {"uploaded", "parsed", "extracted", "resolved", "written"}
TERMINAL_STATUSES == {"enriched", "failed", "cancelled"}

\* "none": the uuid is not in use yet; "deleted": its row is gone for good.
Statuses == ACTIVE_STATUSES \cup TERMINAL_STATUSES \cup {"none", "deleted"}

Row == [st: Statuses, cancel: BOOLEAN]
Exists(e) == row[e].st \in ACTIVE_STATUSES \cup TERMINAL_STATUSES

\* "inferred" is a relationship of origin "enrichment".
Kinds == {"entity", "merge", "relationship", "inferred"}
FactId == [ev: Evidence, gen: Nat, kind: Kinds, src: EntityIds, tgt: EntityIds]
FactRow == [st: {"pending", "accepted", "in_review", "rejected", "written"},
            item: {"none", "open", "approved", "rejected"}]

RegRow == [st: {"unused", "live", "gone"}, evs: SUBSET Evidence]
Live(x) == reg[x].st = "live"

\* Edges between entities all have one type, RELATED_TO, which any two entity
\* types may have: INSERT EDGE keeps one edge for a (source, target) pair.
Edge == [src: EntityIds, dst: EntityIds, ev: Evidence, st: {"accepted", "proposed"}]
Graph == [ev: SUBSET Evidence, ent: SUBSET EntityIds,
          sup: SUBSET (EntityIds \X Evidence), rel: SUBSET Edge]

StoreTypeOK ==
    /\ row \in [Evidence -> Row]
    /\ gen \in [Evidence -> Nat]
    /\ DOMAIN facts \subseteq FactId
    /\ facts \in [DOMAIN facts -> FactRow]
    /\ reg \in [EntityIds -> RegRow]
    /\ graph \in Graph

StoreInit ==
    /\ row = [e \in Evidence |-> [st |-> "none", cancel |-> FALSE]]
    /\ gen = [e \in Evidence |-> 0]
    /\ facts = [i \in {} |-> [st |-> "pending", item |-> "none"]]
    /\ reg = [x \in EntityIds |-> [st |-> "unused", evs |-> {}]]
    /\ graph = [ev |-> {}, ent |-> {}, sup |-> {}, rel |-> {}]

-----------------------------------------------------------------------------
(* Facts and review items                                                  *)

FactsOf(e) == {i \in DOMAIN facts : i.ev = e}
FactsIn(e, kinds, st) == {i \in FactsOf(e) : i.kind \in kinds /\ facts[i].st = st}

\* The two bulk DELETEs by evidence_id.
WithoutFactsOf(e) == [i \in DOMAIN facts \ FactsOf(e) |-> facts[i]]

\* Mutant of WithStatus: the second loop forgets its facts.
WithStatusOfEntities(S, st) ==
    [i \in DOMAIN facts |->
        IF i \in S /\ i.kind = "entity" THEN [facts[i] EXCEPT !.st = st] ELSE facts[i]]

\* UPDATE of the status of the rows S; the callers check that S still exists.
WithStatus(S, st) ==
    [i \in DOMAIN facts |-> IF i \in S THEN [facts[i] EXCEPT !.st = st] ELSE facts[i]]

\* The row _confidence_gate leaves for a fact whose confidence is in a band:
\* accepted as is, queued for review, or rejected with a closed review item.
Gated(band) ==
    [st |-> band,
     item |-> CASE band = "accepted"  -> "none"
                [] band = "in_review" -> "open"
                [] band = "rejected"  -> "rejected"]

-----------------------------------------------------------------------------
(* Graph writes                                                            *)

UpsertEvidence(g, e) == [g EXCEPT !.ev = @ \cup {e}]

\* Mutant of UpsertEntities: link_supported_by is left out.
UpsertUnlinked(g, X, e) == [g EXCEPT !.ent = @ \cup X]

UpsertEntities(g, X, e) ==
    [g EXCEPT !.ent = @ \cup X, !.sup = @ \cup (X \X {e})]

\* INSERT EDGE for each fact of I, replacing what the pair had.
UpsertEdges(g, I, st) ==
    LET fresh == {[src |-> i.src, dst |-> i.tgt, ev |-> i.ev, st |-> st] : i \in I}
    IN  [g EXCEPT !.rel = fresh \cup
            {r \in @ : \A i \in I : <<r.src, r.dst>> # <<i.src, i.tgt>>}]

\* Mutant of DropEvidence: the vertex goes without its edges.
DropEvidenceOnly(g, e) == [g EXCEPT !.ev = @ \ {e}]

\* DELETE VERTEX ... WITH EDGE for an evidence and for entities X.
DropEvidence(g, e) ==
    [g EXCEPT !.ev = @ \ {e}, !.sup = {p \in @ : p[2] # e}]

\* Mutant of DropEntities: the relationships of the vertices stay.
DropEntitiesOnly(g, X) ==
    [g EXCEPT !.ent = @ \ X, !.sup = {p \in @ : p[1] \notin X}]

DropEntities(g, X) ==
    [g EXCEPT !.ent = @ \ X,
              !.sup = {p \in @ : p[1] \notin X},
              !.rel = {r \in @ : r.src \notin X /\ r.dst \notin X}]
=============================================================================
