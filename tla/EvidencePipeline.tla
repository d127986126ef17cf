-------------------------- MODULE EvidencePipeline --------------------------
(***************************************************************************)
(* The five steps of evidence_core/pipeline.py as the ingest pool's        *)
(* threads run them (INGEST_MODE=inline): parse, extract, resolve, write   *)
(* and enrich, one run of an evidence after another.                       *)
(*                                                                         *)
(* A step of the code is cut where another thread or a request handler can *)
(* come between: at its commits and after it has read rows that it uses    *)
(* later.  A pc that names a stage is the boundary before that stage's     *)
(* _load_checked; the others are inside a stage.  The commit of a row that *)
(* was deleted meanwhile raises StaleDataError, rolls back and ends the    *)
(* run.  SQLAlchemy writes the columns that differ from what the session   *)
(* loaded: "seen" is the status the stage loaded.                          *)
(***************************************************************************)
EXTENDS EvidenceStore

CONSTANTS
    Extractions,        \* what a text may mention: sets of keys
    Bands,              \* the confidence bands a fact may fall in
    MaxProposals,       \* proposals of one enrichment, at most
    MergeSuggestions,   \* may a name be a near match (ER_FUZZY_CANDIDATE)?
    GraphFaults         \* may NebulaGraph fail in the middle of a stage?

ASSUME ExtractionsAssumption == Extractions \subseteq SUBSET Keys /\ {} \in Extractions
ASSUME BandsAssumption == Bands \subseteq {"accepted", "in_review", "rejected"}
ASSUME FlagsAssumption == {MergeSuggestions, GraphFaults} \subseteq BOOLEAN
ASSUME MaxProposalsAssumption == MaxProposals \in Nat

VARIABLES
    thread,     \* [pc, ev, seen, ids, res] of each thread of the pool
    queue       \* evidences submitted to the executor, oldest first

pipelineVars == <<thread, queue>>

Boundaries == {"parse", "extract", "resolve", "write", "enrich"}
InStage == {"parsing", "extracting", "matching", "resolving", "connecting",
            "projecting", "inferring", "enriching"}

\* How a mention is resolved: into a registry row as the stage read it, or
\* into a fresh row, with the candidate of a merge suggestion (cand = id: none).
Match == [id: EntityIds, fresh: BOOLEAN, evs: SUBSET Evidence, cand: EntityIds]

RunState == [pc: Boundaries \cup InStage \cup {"idle"}, ev: Evidence \cup {NoEvidence},
             seen: Statuses, ids: SUBSET FactId, res: SUBSET Match]
Idle == [pc |-> "idle", ev |-> NoEvidence, seen |-> "none", ids |-> {}, res |-> {}]

PipelineTypeOK ==
    /\ thread \in [Threads -> RunState]
    /\ queue \in Seq(Evidence)

PipelineInit ==
    /\ thread = [t \in Threads |-> Idle]
    /\ queue = <<>>

Ev(t) == thread[t].ev
At(t, pc) == thread[t].pc = pc
Finish(t) == thread' = [thread EXCEPT ![t] = Idle]
Goto(t, pc) == thread' = [thread EXCEPT ![t].pc = pc, ![t].ids = {}, ![t].res = {}]

\* ev.status = st; commit, by a session that loaded thread[t].seen.
Saved(t, st) ==
    IF thread[t].seen = st THEN row ELSE [row EXCEPT ![Ev(t)].st = st]

\* Mutants of Marked: a row that was asked to stop keeps its status; a row
\* that was deleted comes back.
MarkedUnlessCancelled(e, st) ==
    IF Exists(e) /\ ~row[e].cancel THEN [row EXCEPT ![e].st = st] ELSE row
MarkedAnyway(e, st) == [row EXCEPT ![e].st = st]

\* db.get after a rollback, then the assignment and commit, if the row exists.
Marked(e, st) == IF Exists(e) THEN [row EXCEPT ![e].st = st] ELSE row

-----------------------------------------------------------------------------
(* The executor and the stage boundaries                                   *)

\* _EXECUTOR: a free thread takes the oldest submitted run.
StartRun(t) ==
    /\ At(t, "idle")
    /\ queue # <<>>
    /\ thread' = [thread EXCEPT ![t] = [Idle EXCEPT !.pc = "parse", !.ev = Head(queue)]]
    /\ queue' = Tail(queue)
    /\ UNCHANGED storeVars

\* Mutant of MustStop: the flag is not looked at.
MustStopIfGone(e) == ~Exists(e)

\* _load_checked, when it raises PipelineCancelled.
MustStop(e) == ~Exists(e) \/ row[e].cancel

Stop(t) ==
    /\ thread[t].pc \in Boundaries
    /\ MustStop(Ev(t))
    /\ row' = Marked(Ev(t), "cancelled")
    /\ Finish(t)
    /\ UNCHANGED <<gen, facts, reg, graph, queue>>

\* _load_checked, when it returns the row, the facts that are read with
\* it, and the commit of "started".
Load(t, stage, pc, ids) ==
    /\ At(t, stage)
    /\ ~MustStop(Ev(t))
    /\ thread' = [thread EXCEPT ![t].pc = pc, ![t].seen = row[Ev(t)].st, ![t].ids = ids]

\* The except branch of parse, extract, resolve and write: roll back, _fail.
FailWith(t, g) ==
    /\ row' = Marked(Ev(t), "failed")
    /\ graph' = g
    /\ Finish(t)
    /\ UNCHANGED <<gen, facts, reg, queue>>

-----------------------------------------------------------------------------
(* Parse and extract                                                       *)

LoadText(t) ==
    /\ Load(t, "parse", "parsing", {}) \/ Load(t, "extract", "extracting", {})
    /\ UNCHANGED <<storeVars, queue>>

FinishText(t) ==
    /\ \/ At(t, "parsing") /\ row' = Saved(t, "parsed") /\ Goto(t, "extract")
       \/ At(t, "extracting") /\ row' = Saved(t, "extracted") /\ Goto(t, "resolve")
    /\ Exists(Ev(t))
    /\ UNCHANGED <<gen, facts, reg, graph, queue>>

\* No text, no LLM answer, or the row is gone at the commit.
TextFails(t) ==
    /\ thread[t].pc \in {"parsing", "extracting"}
    /\ FailWith(t, graph)

-----------------------------------------------------------------------------
(* Resolve                                                                 *)

\* The facts and review items of an earlier run are deleted and committed.
ClearFacts(t) ==
    /\ Load(t, "resolve", "matching", {})
    /\ facts' = WithoutFactsOf(Ev(t))
    /\ UNCHANGED <<row, gen, reg, graph, queue>>

\* A fresh uuid: unused, and not in the hands of another thread.
FreshIds(k) ==
    {x \in EntityIds : /\ KeyOf[x] = k /\ reg[x].st = "unused"
                       /\ \A u \in Threads : \A m \in thread[u].res : m.id # x}

\* deterministic_key, then _fuzzy_candidates, then a new registry row; K is
\* what the text mentions, fresh rows of the same run are candidates too.
Matches(k, K) ==
    LET same == {x \in EntityIds : Live(x) /\ KeyOf[x] = k}
        near == {y \in EntityIds : MergeSuggestions /\ (Live(y) \/ KeyOf[y] \in K \ {k})}
    IN  IF same # {}
        THEN {[id |-> x, fresh |-> FALSE, evs |-> reg[x].evs, cand |-> x] : x \in same}
        ELSE UNION {{[id |-> x, fresh |-> TRUE, evs |-> {}, cand |-> y] : y \in near \cup {x}} :
                    x \in FreshIds(k)}

\* A candidate was registered before, or by an earlier mention of the text.
InOrder(res) ==
    \E at \in [res -> 1..Cardinality(res)] :
        \A m \in res :
            m.cand = m.id \/ Live(m.cand) \/ \E n \in res : n.id = m.cand /\ at[n] < at[m]

\* The registry is read, before the transaction's first flush takes the
\* write lock; the rows stay as read in the session's identity map.
MatchMentions(t) ==
    /\ At(t, "matching")
    /\ \E K \in Extractions : \E f \in [K -> UNION {Matches(k, K) : k \in K}] :
           LET res == {f[k] : k \in K}
           IN  /\ \A k \in K : f[k] \in Matches(k, K)
               /\ InOrder(res)
               /\ thread' = [thread EXCEPT ![t].pc = "resolving", ![t].res = res]
    /\ UNCHANGED <<storeVars, queue>>

\* IntegrityError on deterministic_key, or the UPDATE of a deleted row.
Conflict(e, m) ==
    \/ /\ m.fresh
       /\ KeyOf[m.id] \in HardKeys
       /\ \E x \in EntityIds : Live(x) /\ KeyOf[x] = KeyOf[m.id]
    \/ ~m.fresh /\ e \notin m.evs /\ ~Live(m.id)

\* Mutant of Registered: an existing row does not get the evidence's id.
RegisteredWhenNew(e, res) ==
    [x \in EntityIds |-> IF \E m \in res : m.id = x /\ m.fresh
                         THEN [st |-> "live", evs |-> {e}]
                         ELSE reg[x]]

\* _merge_into_registry and the inserts: evidence_ids as read, with e added.
\* A list that is already right is no change, and nothing is written.
Registered(e, res) ==
    [x \in EntityIds |->
        IF \E m \in res : m.id = x /\ e \notin m.evs
        THEN [st |-> "live", evs |-> {e} \cup UNION {m.evs : m \in {n \in res : n.id = x}}]
        ELSE reg[x]]

\* The facts of one resolve run, each with its band; a merge suggestion is
\* always in review.
ResolvedFacts(e, res, band, rels, relBand) ==
    LET id(kind, x, y) == [ev |-> e, gen |-> gen[e] + 1, kind |-> kind, src |-> x, tgt |-> y]
        entity == {id("entity", m.id, m.id) : m \in res}
        merge == {id("merge", m.id, m.cand) : m \in {n \in res : n.cand # n.id}}
        rel == {id("relationship", p[1], p[2]) : p \in rels}
    IN  [i \in entity \cup merge \cup rel |->
            CASE i \in entity -> Gated(band[i.src])
              [] i \in merge  -> Gated("in_review")
              [] i \in rel    -> Gated(relBand)]

Resolve(t) ==
    LET e == Ev(t)
        res == thread[t].res
        ids == {m.id : m \in res}
    IN  /\ At(t, "resolving")
        /\ Exists(e)
        /\ \A m \in res : ~Conflict(e, m)
        /\ \E band \in [ids -> Bands], relBand \in Bands,
              rels \in {{}} \cup {{p} : p \in {q \in ids \X ids : q[1] # q[2]}} :
               LET new == ResolvedFacts(e, res, band, rels, relBand)
               IN  facts' = [i \in DOMAIN facts \cup DOMAIN new |->
                                IF i \in DOMAIN new THEN new[i] ELSE facts[i]]
        /\ reg' = Registered(e, res)
        /\ gen' = [gen EXCEPT ![e] = @ + 1]
        /\ row' = Saved(t, "resolved")
        /\ Goto(t, "write")
        /\ UNCHANGED <<graph, queue>>

ResolveFails(t) ==
    /\ At(t, "resolving")
    /\ ~Exists(Ev(t)) \/ \E m \in thread[t].res : Conflict(Ev(t), m)
    /\ FailWith(t, graph)

-----------------------------------------------------------------------------
(* Write                                                                   *)

LoadWrite(t) ==
    /\ Load(t, "write", "connecting", {})
    /\ UNCHANGED <<storeVars, queue>>

\* The client connects, ensures the schema and upserts the evidence vertex;
\* then the accepted facts are read.
ReadAccepted(t) ==
    /\ At(t, "connecting")
    /\ graph' = UpsertEvidence(graph, Ev(t))
    /\ thread' = [thread EXCEPT ![t].pc = "projecting",
                                ![t].ids = {i \in FactsOf(Ev(t)) : facts[i].st = "accepted"}]
    /\ UNCHANGED <<row, gen, facts, reg, queue>>

ConnectFails(t) ==
    /\ GraphFaults
    /\ At(t, "connecting")
    /\ FailWith(t, graph)

\* Entity facts are written when their registry row is there, relationship
\* facts always: nothing is asked about their endpoints.
Writable(ids) == {i \in ids : i.kind = "entity" => Live(i.src)}

Projected(g, e, ids) ==
    LET of(kind) == {i \in ids : i.kind = kind}
    IN  UpsertEdges(UpsertEdges(UpsertEntities(g, {i.src : i \in of("entity")}, e),
                                of("relationship"), "accepted"),
                    of("inferred"), "proposed")

\* The graph is written, then the facts' status and the row are committed;
\* the commit fails when one of them was deleted, and the graph stays written.
Project(t) ==
    LET e == Ev(t)
        ids == Writable(thread[t].ids)
    IN  /\ At(t, "projecting")
        /\ IF Exists(e) /\ ids \subseteq DOMAIN facts
           THEN /\ graph' = Projected(graph, e, ids)
                /\ facts' = WithStatus(ids, "written")
                /\ row' = Saved(t, "written")
                /\ Goto(t, "enrich")
                /\ UNCHANGED <<gen, reg, queue>>
           ELSE FailWith(t, Projected(graph, e, ids))

\* A failure on the way: entities come before relationships.
ProjectFails(t) ==
    /\ GraphFaults
    /\ At(t, "projecting")
    /\ \E ids \in SUBSET Writable(thread[t].ids) :
           /\ \/ \A i \in ids : i.kind = "entity"
              \/ \A i \in Writable(thread[t].ids) : i.kind = "entity" => i \in ids
           /\ FailWith(t, Projected(graph, Ev(t), ids))

-----------------------------------------------------------------------------
(* Enrich                                                                  *)

WrittenEntities(e) == FactsIn(e, {"entity"}, "written")

\* No written entity: the run is over.
SkipEnrich(t) ==
    /\ At(t, "enrich")
    /\ ~MustStop(Ev(t))
    /\ WrittenEntities(Ev(t)) = {}
    /\ row' = Marked(Ev(t), "enriched")
    /\ Finish(t)
    /\ UNCHANGED <<gen, facts, reg, graph, queue>>

LoadEnrich(t) ==
    /\ Load(t, "enrich", "inferring", WrittenEntities(Ev(t)))
    /\ WrittenEntities(Ev(t)) # {}
    /\ UNCHANGED <<storeVars, queue>>

\* enrich(): pairs of vertices at most two edges away from the entities I,
\* unless some evidence has the proposal already (_duplicate_exists); pending
\* facts, committed without a look at the evidence row.
Around(X) == X \cup {r.dst : r \in {q \in graph.rel : q.src \in X}}
Proposable(I) ==
    LET seen == Around(Around({i.src : i \in I}))
    IN  {p \in seen \X seen :
            /\ p[1] # p[2]
            /\ \A i \in DOMAIN facts : i.kind = "inferred" => <<i.src, i.tgt>> # p}

Infer(t) ==
    LET e == Ev(t)
        id(p) == [ev |-> e, gen |-> gen[e] + 1, kind |-> "inferred", src |-> p[1], tgt |-> p[2]]
    IN  /\ At(t, "inferring")
        /\ \E P \in SUBSET Proposable(thread[t].ids) :
               /\ Cardinality(P) <= MaxProposals
               /\ facts' = [i \in DOMAIN facts \cup {id(p) : p \in P} |->
                               IF i \in DOMAIN facts THEN facts[i]
                               ELSE [st |-> "pending", item |-> "none"]]
               /\ gen' = IF P = {} THEN gen ELSE [gen EXCEPT ![e] = @ + 1]
        /\ Goto(t, "enriching")
        /\ UNCHANGED <<row, reg, graph, queue>>

\* Mutant of Unflushed: the facts gated in one commit are all not yet there.
UnflushedAll(pending) == {pending}

\* The session does not autoflush: the status of the last fact gated is not
\* yet in the database when the accepted facts are queried for projection.
Unflushed(pending) == IF pending = {} THEN {{}} ELSE {{i} : i \in pending}

Enrich(t) ==
    LET e == Ev(t)
        pending == FactsIn(e, {"inferred"}, "pending")
    IN  /\ At(t, "enriching")
        /\ \E band \in [pending -> Bands], last \in Unflushed(pending) :
             LET ids == FactsIn(e, {"inferred"}, "accepted")
                            \cup {i \in pending \ last : band[i] = "accepted"}
             IN  /\ graph' = UpsertEdges(graph, ids, "proposed")
                 /\ facts' = IF ~Exists(e) THEN facts
                             ELSE [i \in DOMAIN facts |->
                                      CASE i \in ids -> [st |-> "written", item |-> "none"]
                                        [] i \in pending \ ids -> Gated(band[i])
                                        [] OTHER -> facts[i]]
        /\ row' = IF Exists(e) THEN Saved(t, "enriched") ELSE row
        /\ Finish(t)
        /\ UNCHANGED <<gen, reg, queue>>

\* Best effort: a failure keeps what enrich() committed and ends as enriched.
EnrichFails(t) ==
    /\ GraphFaults
    /\ thread[t].pc \in {"inferring", "enriching"}
    /\ \E ids \in SUBSET FactsIn(Ev(t), {"inferred"}, "pending") :
           /\ At(t, "inferring") => ids = {}
           /\ graph' = UpsertEdges(graph, ids, "proposed")
    /\ row' = Marked(Ev(t), "enriched")
    /\ Finish(t)
    /\ UNCHANGED <<gen, facts, reg, queue>>

-----------------------------------------------------------------------------
\* What the pool does on its own.
RunStep(t) ==
    \/ Stop(t)
    \/ LoadText(t) \/ FinishText(t) \/ TextFails(t)
    \/ ClearFacts(t) \/ MatchMentions(t) \/ Resolve(t) \/ ResolveFails(t)
    \/ LoadWrite(t) \/ ReadAccepted(t) \/ ConnectFails(t) \/ Project(t) \/ ProjectFails(t)
    \/ SkipEnrich(t) \/ LoadEnrich(t) \/ Infer(t) \/ Enrich(t) \/ EnrichFails(t)
=============================================================================
