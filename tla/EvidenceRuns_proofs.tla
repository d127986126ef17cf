------------------------ MODULE EvidenceRuns_proofs ------------------------
(***************************************************************************)
(* The types of the evidence modules, inductive together with what a       *)
(* thread and a request in progress work on, and promises about the runs   *)
(* of an evidence, under the pool and with Celery:                         *)
(*   NoneStranded        a row that is shown as in progress has a run;     *)
(*   OneRunUntilOver     it has one, and none once it has ended, as long   *)
(*                       as no two retries of an evidence overlap;         *)
(*   StopStands          nobody takes back a stop under a run;             *)
(*   Lifecycle!Steps     its status is that of an evidence lifecycle;      *)
(*   StrandedOnlyByLoss  with Celery, an active row without a message lost *)
(*                       one.                                              *)
(*                                                                         *)
(* NoneStranded is not inductive.  The enrich stage ends with the status   *)
(* it loaded compared with "enriched": a thread that entered the stage     *)
(* when another run had already finished the row writes nothing at its     *)
(* end, so it does not count as the run of a row that a retry has made     *)
(* active meanwhile.  The retry's own run does.                            *)
(***************************************************************************)
EXTENDS CelerySystem, SequenceTheorems, FiniteSetTheorems, TLAPS

-----------------------------------------------------------------------------
(* The operators that the actions are built from                           *)

\* A set without two elements.
LEMMA OneElement ==
    ASSUME NEW S, \A x, y \in S : x = y
    PROVE  Cardinality(S) \in {0, 1} /\ (S = {} => Cardinality(S) = 0)
<1>1. S = {} => Cardinality(S) = 0
  BY FS_EmptySet
<1>2. ASSUME NEW x \in S PROVE Cardinality(S) = 1
  <2>1. S = {x}
    OBVIOUS
  <2>2. Cardinality({x}) = 1
    BY FS_Singleton
  <2>. QED  BY <2>1, <2>2
<1>. QED  BY <1>1, <1>2

\* The facts of an evidence are facts.
LEMMA FactsOfType ==
    ASSUME StoreTypeOK, NEW e
    PROVE  FactsOf(e) \subseteq DOMAIN facts /\ FactsOf(e) \subseteq FactId
BY DEF StoreTypeOK, FactsOf

\* Deleting the facts of an evidence leaves a table of facts.
LEMMA WithoutFactsOfType ==
    ASSUME StoreTypeOK, NEW e
    PROVE  LET f == WithoutFactsOf(e)
           IN  DOMAIN f \subseteq FactId /\ f \in [DOMAIN f -> FactRow]
BY DEF StoreTypeOK, WithoutFactsOf

\* So does the update of a status.
LEMMA WithStatusType ==
    ASSUME StoreTypeOK, NEW S, NEW st \in {"pending", "accepted", "in_review", "rejected", "written"}
    PROVE  LET f == WithStatus(S, st)
           IN  DOMAIN f \subseteq FactId /\ f \in [DOMAIN f -> FactRow]
<1>1. \A i \in DOMAIN facts : [facts[i] EXCEPT !.st = st] \in FactRow
  BY DEF StoreTypeOK, FactRow
<1>. QED  BY <1>1 DEF StoreTypeOK, WithStatus

\* The gate leaves a row of the table.
LEMMA GatedType ==
    ASSUME NEW band \in {"accepted", "in_review", "rejected"}
    PROVE  Gated(band) \in FactRow
BY DEF Gated, FactRow

LEMMA UpsertEvidenceType ==
    ASSUME NEW g \in Graph, NEW e \in Evidence
    PROVE  UpsertEvidence(g, e) \in Graph
BY DEF UpsertEvidence, Graph

LEMMA UpsertEntitiesType ==
    ASSUME NEW g \in Graph, NEW e \in Evidence, NEW X \in SUBSET EntityIds
    PROVE  UpsertEntities(g, X, e) \in Graph
BY DEF UpsertEntities, Graph

LEMMA UpsertEdgesType ==
    ASSUME NEW g \in Graph, NEW I \in SUBSET FactId, NEW st \in {"accepted", "proposed"}
    PROVE  UpsertEdges(g, I, st) \in Graph
<1>. DEFINE fresh == {[src |-> i.src, dst |-> i.tgt, ev |-> i.ev, st |-> st] : i \in I}
            kept == {r \in g.rel : \A i \in I : <<r.src, r.dst>> # <<i.src, i.tgt>>}
<1>1. fresh \subseteq Edge
  BY DEF Edge, FactId
<1>2. kept \subseteq Edge
  BY DEF Graph
<1>3. UpsertEdges(g, I, st) = [g EXCEPT !.rel = fresh \cup kept]
  BY DEF UpsertEdges
<1>. HIDE DEF fresh, kept
<1>. QED  BY <1>1, <1>2, <1>3 DEF Graph

LEMMA DropType ==
    ASSUME NEW g \in Graph, NEW e, NEW X
    PROVE  DropEntities(DropEvidence(g, e), X) \in Graph
<1>1. DropEvidence(g, e) \in Graph
  BY DEF DropEvidence, Graph
<1>2. ASSUME NEW h \in Graph PROVE DropEntities(h, X) \in Graph
  BY DEF DropEntities, Graph
<1>. QED  BY <1>1, <1>2

\* The projection of facts keeps the graph a graph.
LEMMA ProjectedType ==
    ASSUME NEW g \in Graph, NEW e \in Evidence, NEW ids \in SUBSET FactId
    PROVE  Projected(g, e, ids) \in Graph
<1>. DEFINE of(kind) == {i \in ids : i.kind = kind}
            g1 == UpsertEntities(g, {i.src : i \in of("entity")}, e)
            g2 == UpsertEdges(g1, of("relationship"), "accepted")
<1>1. {i.src : i \in of("entity")} \in SUBSET EntityIds
  BY DEF FactId
<1>2. g1 \in Graph
  BY <1>1, UpsertEntitiesType
<1>3. g2 \in Graph
  <2>. HIDE DEF g1
  <2>. QED  BY <1>2, UpsertEdgesType
<1>4. UpsertEdges(g2, of("inferred"), "proposed") \in Graph
  <2>. HIDE DEF g2
  <2>. QED  BY <1>3, UpsertEdgesType
<1>. QED  BY <1>4 DEF Projected

\* A list of evidence ids stays one when a run is registered.
LEMMA RegisteredType ==
    ASSUME StoreTypeOK, NEW e \in Evidence, NEW res \in SUBSET Match
    PROVE  Registered(e, res) \in [EntityIds -> RegRow]
<1>1. ASSUME NEW x \in EntityIds
      PROVE  {e} \cup UNION {m.evs : m \in {n \in res : n.id = x}} \in SUBSET Evidence
  BY DEF Match
<1>. QED  BY <1>1 DEF StoreTypeOK, Registered, RegRow

LEMMA ScrubbedType ==
    ASSUME StoreTypeOK, NEW e, NEW touched
    PROVE  Scrubbed(e, touched) \in [EntityIds -> RegRow]
<1>1. ASSUME NEW x \in EntityIds PROVE [reg[x] EXCEPT !.evs = @ \ {e}] \in RegRow
  BY DEF StoreTypeOK, RegRow
<1>. QED  BY <1>1 DEF StoreTypeOK, Scrubbed, RegRow

\* The facts of a resolve run are facts of its evidence, gated.
LEMMA ResolvedFactsType ==
    ASSUME StoreTypeOK, NEW e \in Evidence, NEW res \in SUBSET Match,
           NEW band \in [{m.id : m \in res} -> Bands], NEW relBand \in Bands,
           NEW rels \in SUBSET (EntityIds \X EntityIds)
    PROVE  LET new == ResolvedFacts(e, res, band, rels, relBand)
           IN  DOMAIN new \subseteq FactId /\ new \in [DOMAIN new -> FactRow]
<1>. DEFINE id(kind, x, y) == [ev |-> e, gen |-> gen[e] + 1, kind |-> kind, src |-> x, tgt |-> y]
            entity == {id("entity", m.id, m.id) : m \in res}
            merge == {id("merge", m.id, m.cand) : m \in {n \in res : n.cand # n.id}}
            rel == {id("relationship", p[1], p[2]) : p \in rels}
            new == ResolvedFacts(e, res, band, rels, relBand)
<1>0. Bands \subseteq {"accepted", "in_review", "rejected"}
  BY BandsAssumption
<1>1. gen[e] + 1 \in Nat
  BY DEF StoreTypeOK
<1>2. entity \subseteq FactId /\ merge \subseteq FactId /\ rel \subseteq FactId
  BY <1>1 DEF FactId, Kinds, Match
<1>3. DOMAIN new = entity \cup merge \cup rel
  BY DEF ResolvedFacts
<1>4. ASSUME NEW i \in DOMAIN new PROVE new[i] \in FactRow
  <2>1. CASE i \in entity
    <3>1. i.src \in {m.id : m \in res}
      BY <2>1
    <3>2. band[i.src] \in Bands
      BY <3>1
    <3>3. new[i] = Gated(band[i.src])
      BY <2>1, <1>4, <1>3 DEF ResolvedFacts
    <3>. QED  BY <3>2, <3>3, <1>0, GatedType
  <2>2. CASE i \notin entity /\ i \in merge
    <3>1. new[i] = Gated("in_review")
      BY <2>2, <1>4, <1>3 DEF ResolvedFacts, id
    <3>. QED  BY <3>1, GatedType
  <2>3. CASE i \notin entity /\ i \notin merge /\ i \in rel
    <3>1. new[i] = Gated(relBand)
      BY <2>3, <1>4, <1>3 DEF ResolvedFacts, id
    <3>. QED  BY <3>1, <1>0, GatedType
  <2>. QED  BY <2>1, <2>2, <2>3, <1>3, <1>4
<1>5. new \in [DOMAIN new -> FactRow]
  BY <1>4 DEF ResolvedFacts
<1>. QED  BY <1>2, <1>3, <1>5

-----------------------------------------------------------------------------
(* Threads                                                                 *)

\* The work of the threads, which the pool's steps preserve.
RunsOK ==
    /\ thread \in [Threads -> RunState]
    /\ \A t \in Threads : Ev(t) = NoEvidence <=> At(t, "idle")

LEMMA IdleType == Idle \in RunState
BY DEF Idle, RunState, Statuses

\* A thread that is not idle works on an evidence.
LEMMA WorksOnEvidence ==
    ASSUME RunsOK, NEW t \in Threads, ~At(t, "idle")
    PROVE  Ev(t) \in Evidence
BY DEF RunsOK, RunState, Ev, At

LEMMA FinishRuns ==
    ASSUME RunsOK, NEW t \in Threads, Finish(t)
    PROVE  RunsOK'
BY IdleType DEF RunsOK, Finish, Ev, At, Idle

\* A busy thread may be given any busy state with the same evidence.
LEMMA MoveRuns ==
    ASSUME RunsOK, NEW t \in Threads, ~At(t, "idle"),
           NEW r \in RunState, r.pc # "idle", r.ev = Ev(t),
           thread' = [thread EXCEPT ![t] = r]
    PROVE  RunsOK'
BY DEF RunsOK, Ev, At

LEMMA GotoRuns ==
    ASSUME RunsOK, NEW t \in Threads, NEW pc \in Boundaries \cup InStage,
           ~At(t, "idle"), Goto(t, pc)
    PROVE  RunsOK'
<1>1. [thread[t] EXCEPT !.pc = pc, !.ids = {}, !.res = {}] \in RunState
  BY DEF RunsOK, RunState
<1>2. pc # "idle"
  BY DEF Boundaries, InStage
<1>. QED  BY <1>1, <1>2 DEF RunsOK, Goto, RunState, Ev, At

LEMMA LoadRuns ==
    ASSUME RunsOK, StoreTypeOK, NEW t \in Threads, NEW stage \in Boundaries,
           NEW pc \in InStage, NEW ids \in SUBSET FactId, Load(t, stage, pc, ids)
    PROVE  RunsOK'
<1>1. pc # "idle" /\ ~At(t, "idle")
  BY DEF Boundaries, InStage, Load, At
<1>2. row[Ev(t)].st \in Statuses
  BY <1>1, WorksOnEvidence DEF StoreTypeOK, Row
<1>3. [thread[t] EXCEPT !.pc = pc, !.seen = row[Ev(t)].st, !.ids = ids] \in RunState
  BY <1>2 DEF RunsOK, RunState
<1>. QED  BY <1>1, <1>3 DEF RunsOK, Load, RunState, Ev, At

-----------------------------------------------------------------------------
(* The steps of the pool                                                   *)

\* Both ways of writing a status leave rows.
LEMMA SavedType ==
    ASSUME StoreTypeOK, NEW t, NEW st \in Statuses
    PROVE  Saved(t, st) \in [Evidence -> Row] /\ Marked(Ev(t), st) \in [Evidence -> Row]
BY DEF StoreTypeOK, Saved, Marked, Row

\* A mention is matched with a row of the registry or a fresh one.
LEMMA MatchesType ==
    ASSUME StoreTypeOK, NEW k, NEW K, NEW m \in Matches(k, K)
    PROVE  m \in Match
<1>. DEFINE same == {x \in EntityIds : Live(x) /\ KeyOf[x] = k}
            near == {y \in EntityIds : MergeSuggestions /\ (Live(y) \/ KeyOf[y] \in K \ {k})}
<1>1. CASE same # {}
  <2>1. PICK x \in same : m = [id |-> x, fresh |-> FALSE, evs |-> reg[x].evs, cand |-> x]
    BY <1>1 DEF Matches
  <2>2. x \in EntityIds /\ reg[x].evs \in SUBSET Evidence
    <3>1. x \in EntityIds /\ reg[x] \in RegRow
      BY DEF StoreTypeOK
    <3>. QED  BY <3>1 DEF RegRow
  <2>. QED  BY <2>1, <2>2 DEF Match
<1>2. CASE same = {}
  <2>1. PICK x \in FreshIds(k) :
           m \in {[id |-> x, fresh |-> TRUE, evs |-> {}, cand |-> y] : y \in near \cup {x}}
    BY <1>2 DEF Matches
  <2>2. x \in EntityIds /\ near \cup {x} \subseteq EntityIds
    BY DEF FreshIds
  <2>3. PICK y \in near \cup {x} : m = [id |-> x, fresh |-> TRUE, evs |-> {}, cand |-> y]
    BY <2>1
  <2>. QED  BY <2>2, <2>3 DEF Match
<1>. QED  BY <1>1, <1>2

LEMMA FailWithShape ==
    ASSUME StoreTypeOK, RunsOK, NEW t \in Threads, NEW g \in Graph, FailWith(t, g)
    PROVE  StoreTypeOK' /\ RunsOK' /\ queue' = queue
<1>1. RunsOK'
  BY FinishRuns DEF FailWith
<1>2. row' \in [Evidence -> Row]
  BY SavedType DEF FailWith, Statuses, TERMINAL_STATUSES
<1>. QED  BY <1>1, <1>2 DEF FailWith, StoreTypeOK

\* The stages up to the write stage.
LEMMA EarlyStepShape ==
    ASSUME StoreTypeOK, RunsOK, NEW t \in Threads,
           \/ Stop(t) \/ LoadText(t) \/ FinishText(t) \/ TextFails(t)
           \/ ClearFacts(t) \/ MatchMentions(t) \/ ResolveFails(t)
    PROVE  StoreTypeOK' /\ RunsOK' /\ queue' = queue
<1>1. CASE Stop(t)
  <2>1. RunsOK'
    BY <1>1, FinishRuns DEF Stop
  <2>2. row' \in [Evidence -> Row]
    BY <1>1, SavedType DEF Stop, Statuses, TERMINAL_STATUSES
  <2>. QED  BY <1>1, <2>1, <2>2 DEF Stop, StoreTypeOK
<1>2. CASE LoadText(t)
  <2>1. RunsOK'
    BY <1>2, LoadRuns DEF LoadText, Boundaries, InStage
  <2>. QED  BY <1>2, <2>1 DEF LoadText, storeVars, StoreTypeOK
<1>3. CASE FinishText(t)
  <2>1. RunsOK'
    BY <1>3, GotoRuns DEF FinishText, Boundaries, InStage, At
  <2>2. row' \in [Evidence -> Row]
    BY <1>3, SavedType DEF FinishText, Statuses, ACTIVE_STATUSES
  <2>. QED  BY <1>3, <2>1, <2>2 DEF FinishText, StoreTypeOK
<1>4. CASE TextFails(t)
  BY <1>4, FailWithShape DEF TextFails, StoreTypeOK
<1>5. CASE ClearFacts(t)
  <2>1. RunsOK'
    BY <1>5, LoadRuns DEF ClearFacts, Boundaries, InStage
  <2>. QED  BY <1>5, <2>1, WithoutFactsOfType DEF ClearFacts, StoreTypeOK
<1>6. CASE MatchMentions(t)
  <2>1. PICK K \in Extractions : \E f \in [K -> UNION {Matches(k, K) : k \in K}] :
           /\ \A k \in K : f[k] \in Matches(k, K)
           /\ thread' = [thread EXCEPT ![t].pc = "resolving", ![t].res = {f[k] : k \in K}]
    BY <1>6, Zenon DEF MatchMentions
  <2>2. PICK f \in [K -> UNION {Matches(k, K) : k \in K}] :
                 /\ \A k \in K : f[k] \in Matches(k, K)
                 /\ thread' = [thread EXCEPT ![t].pc = "resolving",
                                            ![t].res = {f[k] : k \in K}]
    BY <2>1
  <2>. DEFINE res == {f[k] : k \in K}
              r == [thread[t] EXCEPT !.pc = "resolving", !.res = res]
  <2>3. ASSUME NEW k \in K PROVE f[k] \in Match
    BY <2>2, MatchesType
  <2>4. res \in SUBSET Match
    BY <2>3
  <2>5. thread[t] \in RunState
    BY DEF RunsOK
  <2>6. r \in RunState /\ r.pc # "idle" /\ r.ev = Ev(t) /\ thread' = [thread EXCEPT ![t] = r]
    <3>1. thread' = [thread EXCEPT ![t].pc = "resolving", ![t].res = res]
      BY <2>2
    <3>. HIDE DEF res
    <3>. QED  BY <2>4, <2>5, <3>1 DEF RunState, InStage, Ev, RunsOK
  <2>7. RunsOK'
    <3>. HIDE DEF r
    <3>. QED  BY <1>6, <2>6, MoveRuns DEF MatchMentions, At
  <2>. QED  BY <1>6, <2>7 DEF MatchMentions, storeVars, StoreTypeOK
<1>7. CASE ResolveFails(t)
  BY <1>7, FailWithShape DEF ResolveFails, StoreTypeOK
<1>. QED  BY <1>1, <1>2, <1>3, <1>4, <1>5, <1>6, <1>7

LEMMA ResolveShape ==
    ASSUME StoreTypeOK, RunsOK, NEW t \in Threads, Resolve(t)
    PROVE  StoreTypeOK' /\ RunsOK' /\ queue' = queue
<1>. DEFINE e == Ev(t)
            res == thread[t].res
            ids == {m.id : m \in res}
<1>1. RunsOK'
  BY GotoRuns DEF Resolve, Boundaries, At
<1>2. e \in Evidence /\ res \in SUBSET Match
  BY WorksOnEvidence DEF Resolve, At, RunsOK, RunState
<1>3. ids \subseteq EntityIds
  BY <1>2 DEF Match
<1>4. row' \in [Evidence -> Row] /\ reg' \in [EntityIds -> RegRow] /\ gen' \in [Evidence -> Nat]
  BY <1>2, SavedType, RegisteredType DEF Resolve, Statuses, ACTIVE_STATUSES, StoreTypeOK
<1>5. PICK band \in [ids -> Bands], relBand \in Bands,
           rels \in {{}} \cup {{p} : p \in {q \in ids \X ids : q[1] # q[2]}} :
         LET new == ResolvedFacts(e, res, band, rels, relBand)
         IN  facts' = [i \in DOMAIN facts \cup DOMAIN new |->
                          IF i \in DOMAIN new THEN new[i] ELSE facts[i]]
  BY DEF Resolve
<1>6. rels \in SUBSET (EntityIds \X EntityIds)
  BY <1>3
<1>. DEFINE new == ResolvedFacts(e, res, band, rels, relBand)
<1>7. DOMAIN new \subseteq FactId /\ new \in [DOMAIN new -> FactRow]
  BY <1>2, <1>6, ResolvedFactsType
<1>8. facts' = [i \in DOMAIN facts \cup DOMAIN new |->
                   IF i \in DOMAIN new THEN new[i] ELSE facts[i]]
  BY <1>5
<1>9. DOMAIN facts' \subseteq FactId /\ facts' \in [DOMAIN facts' -> FactRow]
  <2>. HIDE DEF new
  <2>. QED  BY <1>7, <1>8 DEF StoreTypeOK
<1>. QED  BY <1>1, <1>4, <1>9 DEF Resolve, StoreTypeOK

\* The write stage.
LEMMA WriteStepShape ==
    ASSUME StoreTypeOK, RunsOK, NEW t \in Threads,
           \/ LoadWrite(t) \/ ReadAccepted(t) \/ ConnectFails(t)
           \/ Project(t) \/ ProjectFails(t)
    PROVE  StoreTypeOK' /\ RunsOK' /\ queue' = queue
<1>0. thread[t].ids \in SUBSET FactId
  BY DEF RunsOK, RunState
<1>1. CASE LoadWrite(t)
  <2>1. RunsOK'
    BY <1>1, LoadRuns DEF LoadWrite, Boundaries, InStage
  <2>. QED  BY <1>1, <2>1 DEF LoadWrite, storeVars, StoreTypeOK
<1>2. CASE ReadAccepted(t)
  <2>1. Ev(t) \in Evidence
    BY <1>2, WorksOnEvidence DEF ReadAccepted, At
  <2>2. graph' \in Graph
    BY <1>2, <2>1, UpsertEvidenceType DEF ReadAccepted, StoreTypeOK
  <2>. DEFINE ids == {i \in FactsOf(Ev(t)) : facts[i].st = "accepted"}
  <2>3. ids \in SUBSET FactId
    BY FactsOfType
  <2>4. thread' = [thread EXCEPT ![t].pc = "projecting", ![t].ids = ids]
    BY <1>2 DEF ReadAccepted
  <2>. DEFINE r == [thread[t] EXCEPT !.pc = "projecting", !.ids = ids]
  <2>5. r \in RunState /\ r.pc # "idle" /\ r.ev = Ev(t) /\ thread' = [thread EXCEPT ![t] = r]
    <3>. HIDE DEF ids
    <3>. QED  BY <2>3, <2>4 DEF RunsOK, RunState, InStage, Ev
  <2>6. RunsOK'
    <3>. HIDE DEF r
    <3>. QED  BY <1>2, <2>5, MoveRuns DEF ReadAccepted, At
  <2>. QED  BY <1>2, <2>2, <2>6 DEF ReadAccepted, StoreTypeOK
<1>3. CASE ConnectFails(t)
  BY <1>3, FailWithShape DEF ConnectFails, StoreTypeOK
<1>4. CASE Project(t)
  <2>. DEFINE ids == Writable(thread[t].ids)
  <2>1. Ev(t) \in Evidence /\ ids \in SUBSET FactId
    BY <1>0, <1>4, WorksOnEvidence DEF Project, At, Writable
  <2>2. Projected(graph, Ev(t), ids) \in Graph
    BY <2>1, ProjectedType DEF StoreTypeOK
  <2>3. CASE Exists(Ev(t)) /\ ids \subseteq DOMAIN facts
    <3>1. RunsOK'
      BY <1>4, <2>3, GotoRuns DEF Project, Boundaries, At
    <3>2. row' \in [Evidence -> Row]
      BY <1>4, <2>3, SavedType DEF Project, Statuses, ACTIVE_STATUSES
    <3>3. facts' = WithStatus(ids, "written") /\ graph' = Projected(graph, Ev(t), ids)
      BY <1>4, <2>3 DEF Project
    <3>4. DOMAIN facts' \subseteq FactId /\ facts' \in [DOMAIN facts' -> FactRow]
      BY <3>3, WithStatusType
    <3>. QED  BY <1>4, <2>2, <2>3, <3>1, <3>2, <3>3, <3>4 DEF Project, StoreTypeOK
  <2>4. CASE ~(Exists(Ev(t)) /\ ids \subseteq DOMAIN facts)
    BY <1>4, <2>2, <2>4, FailWithShape DEF Project
  <2>. QED  BY <2>3, <2>4
<1>5. CASE ProjectFails(t)
  <2>1. PICK ids \in SUBSET Writable(thread[t].ids) : FailWith(t, Projected(graph, Ev(t), ids))
    BY <1>5 DEF ProjectFails
  <2>2. Ev(t) \in Evidence /\ ids \in SUBSET FactId
    BY <1>0, <1>5, WorksOnEvidence DEF ProjectFails, At, Writable
  <2>3. Projected(graph, Ev(t), ids) \in Graph
    BY <2>2, ProjectedType DEF StoreTypeOK
  <2>. QED  BY <2>1, <2>3, FailWithShape
<1>. QED  BY <1>1, <1>2, <1>3, <1>4, <1>5

\* The enrich stage.
LEMMA EnrichStepShape ==
    ASSUME StoreTypeOK, RunsOK, NEW t \in Threads,
           SkipEnrich(t) \/ LoadEnrich(t) \/ Infer(t) \/ Enrich(t) \/ EnrichFails(t)
    PROVE  StoreTypeOK' /\ RunsOK' /\ queue' = queue
<1>. DEFINE e == Ev(t)
            pending == FactsIn(e, {"inferred"}, "pending")
<1>0. pending \in SUBSET FactId /\ pending \subseteq DOMAIN facts
  BY FactsOfType DEF FactsIn
<1>1. CASE SkipEnrich(t)
  <2>1. RunsOK'
    BY <1>1, FinishRuns DEF SkipEnrich
  <2>2. row' \in [Evidence -> Row]
    BY <1>1, SavedType DEF SkipEnrich, Statuses, TERMINAL_STATUSES
  <2>. QED  BY <1>1, <2>1, <2>2 DEF SkipEnrich, StoreTypeOK
<1>2. CASE LoadEnrich(t)
  <2>1. WrittenEntities(e) \in SUBSET FactId
    BY FactsOfType DEF WrittenEntities, FactsIn
  <2>2. RunsOK'
    BY <1>2, <2>1, LoadRuns DEF LoadEnrich, Boundaries, InStage
  <2>. QED  BY <1>2, <2>2 DEF LoadEnrich, storeVars, StoreTypeOK
<1>3. CASE Infer(t)
  <2>. DEFINE id(p) == [ev |-> e, gen |-> gen[e] + 1, kind |-> "inferred", src |-> p[1], tgt |-> p[2]]
  <2>1. RunsOK'
    BY <1>3, GotoRuns DEF Infer, InStage, At
  <2>2. PICK P \in SUBSET Proposable(thread[t].ids) :
           /\ facts' = [i \in DOMAIN facts \cup {id(p) : p \in P} |->
                           IF i \in DOMAIN facts THEN facts[i]
                           ELSE [st |-> "pending", item |-> "none"]]
           /\ gen' = IF P = {} THEN gen ELSE [gen EXCEPT ![e] = @ + 1]
    BY <1>3 DEF Infer
  <2>3. e \in Evidence /\ thread[t].ids \in SUBSET FactId
    BY <1>3, WorksOnEvidence DEF Infer, At, RunsOK, RunState
  <2>4. \A X \in SUBSET EntityIds : Around(X) \in SUBSET EntityIds
    BY DEF Around, StoreTypeOK, Graph, Edge
  <2>5. {i.src : i \in thread[t].ids} \in SUBSET EntityIds
    BY <2>3 DEF FactId
  <2>6. P \subseteq EntityIds \X EntityIds
    BY <2>4, <2>5 DEF Proposable
  <2>7. {id(p) : p \in P} \subseteq FactId
    BY <2>3, <2>6 DEF FactId, Kinds, StoreTypeOK
  <2>8. [st |-> "pending", item |-> "none"] \in FactRow
    BY DEF FactRow
  <2>9. DOMAIN facts' \subseteq FactId /\ facts' \in [DOMAIN facts' -> FactRow]
    <3>. HIDE DEF id
    <3>. QED  BY <2>2, <2>7, <2>8 DEF StoreTypeOK
  <2>10. gen' \in [Evidence -> Nat]
    <3>1. gen[e] + 1 \in Nat
      BY <2>3 DEF StoreTypeOK
    <3>. HIDE DEF id, e
    <3>. QED  BY <2>2, <3>1 DEF StoreTypeOK
  <2>11. UNCHANGED <<row, reg, graph, queue>>
    BY <1>3 DEF Infer
  <2>. QED  BY <2>1, <2>9, <2>10, <2>11 DEF StoreTypeOK
<1>4. CASE Enrich(t)
  <2>1. RunsOK'
    BY <1>4, FinishRuns DEF Enrich
  <2>2. row' \in [Evidence -> Row]
    BY <1>4, SavedType DEF Enrich, Statuses, TERMINAL_STATUSES, StoreTypeOK
  <2>3. PICK band \in [pending -> Bands], last \in Unflushed(pending) :
           LET ids == FactsIn(e, {"inferred"}, "accepted")
                          \cup {i \in pending \ last : band[i] = "accepted"}
           IN  /\ graph' = UpsertEdges(graph, ids, "proposed")
               /\ facts' = IF ~Exists(e) THEN facts
                           ELSE [i \in DOMAIN facts |->
                                    CASE i \in ids -> [st |-> "written", item |-> "none"]
                                      [] i \in pending \ ids -> Gated(band[i])
                                      [] OTHER -> facts[i]]
    BY <1>4 DEF Enrich
  <2>. DEFINE ids == FactsIn(e, {"inferred"}, "accepted")
                         \cup {i \in pending \ last : band[i] = "accepted"}
  <2>4. ids \in SUBSET FactId
    BY <1>0, FactsOfType DEF FactsIn
  <2>5. graph' \in Graph
    BY <2>3, <2>4, UpsertEdgesType DEF StoreTypeOK
  <2>6. ASSUME NEW i \in pending PROVE Gated(band[i]) \in FactRow
    BY GatedType, BandsAssumption
  <2>7. [st |-> "written", item |-> "none"] \in FactRow
    BY DEF FactRow
  <2>8. \/ facts' = facts
        \/ facts' = [i \in DOMAIN facts |->
                        CASE i \in ids -> [st |-> "written", item |-> "none"]
                          [] i \in pending \ ids -> Gated(band[i])
                          [] OTHER -> facts[i]]
    BY <2>3
  <2>9. DOMAIN facts' \subseteq FactId /\ facts' \in [DOMAIN facts' -> FactRow]
    <3>. HIDE DEF ids, pending
    <3>. QED  BY <2>6, <2>7, <2>8 DEF StoreTypeOK
  <2>. QED  BY <1>4, <2>1, <2>2, <2>5, <2>9 DEF Enrich, StoreTypeOK
<1>5. CASE EnrichFails(t)
  <2>1. RunsOK'
    BY <1>5, FinishRuns DEF EnrichFails
  <2>2. row' \in [Evidence -> Row]
    BY <1>5, SavedType DEF EnrichFails, Statuses, TERMINAL_STATUSES
  <2>3. PICK ids \in SUBSET pending : graph' = UpsertEdges(graph, ids, "proposed")
    BY <1>5 DEF EnrichFails
  <2>4. graph' \in Graph
    BY <1>0, <2>3, UpsertEdgesType DEF StoreTypeOK
  <2>. QED  BY <1>5, <2>1, <2>2, <2>4 DEF EnrichFails, StoreTypeOK
<1>. QED  BY <1>1, <1>2, <1>3, <1>4, <1>5

\* Every step of a run, and its start.
LEMMA RunStepShape ==
    ASSUME StoreTypeOK, RunsOK, NEW t \in Threads, RunStep(t)
    PROVE  StoreTypeOK' /\ RunsOK' /\ queue' = queue
BY EarlyStepShape, ResolveShape, WriteStepShape, EnrichStepShape DEF RunStep

LEMMA StartRunShape ==
    ASSUME StoreTypeOK, RunsOK, queue \in Seq(Evidence), NEW t \in Threads, StartRun(t)
    PROVE  StoreTypeOK' /\ RunsOK' /\ queue' \in Seq(Evidence)
<1>. DEFINE r == [Idle EXCEPT !.pc = "parse", !.ev = Head(queue)]
<1>1. Head(queue) \in Evidence /\ Tail(queue) \in Seq(Evidence)
  BY HeadTailProperties DEF StartRun
<1>2. r \in RunState /\ r.pc # "idle" /\ r.ev # NoEvidence
  BY <1>1, IdleType, NoEvidenceAssumption DEF Idle, RunState, Boundaries
<1>3. RunsOK'
  <2>1. thread' = [thread EXCEPT ![t] = r]
    BY DEF StartRun
  <2>. HIDE DEF r
  <2>. QED  BY <1>2, <2>1 DEF RunsOK, Ev, At
<1>. QED  BY <1>1, <1>3 DEF StartRun, storeVars, StoreTypeOK

-----------------------------------------------------------------------------
(* The steps of the requests                                               *)

EvidenceOps == {"ingesting", "retrying", "unsent", "deleting", "scrubbing", "cleaning"}
FactOps == {"approving", "deciding", "rejecting"}

\* A request in progress names what it is about.
Named(r) == /\ r.op \in EvidenceOps => r.ev \in Evidence
            /\ r.op \in FactOps => r.id \in FactId
RequestsOK == \A c \in Clients : Named(client[c])

LEMMA RequestUpdate ==
    ASSUME client \in [Clients -> RequestState], RequestsOK, NEW c \in Clients,
           NEW r \in RequestState, Named(r), client' = [client EXCEPT ![c] = r]
    PROVE  client' \in [Clients -> RequestState] /\ RequestsOK'
BY DEF RequestsOK, Named

LEMMA NoRequestType == NoRequest \in RequestState /\ Named(NoRequest)
BY DEF NoRequest, RequestState, Ops, Named, EvidenceOps, FactOps

LEMMA AnswerShape ==
    ASSUME client \in [Clients -> RequestState], RequestsOK, NEW c \in Clients, Answer(c)
    PROVE  client' \in [Clients -> RequestState] /\ RequestsOK'
BY NoRequestType, RequestUpdate DEF Answer

\* What holds before and after a step of a request.
ApiShape == StoreTypeOK /\ queue \in Seq(Evidence) /\ ApiTypeOK /\ RequestsOK

LEMMA RowUpdate ==
    ASSUME StoreTypeOK, NEW e \in Evidence, NEW r \in Row
    PROVE  [row EXCEPT ![e] = r] \in [Evidence -> Row]
BY DEF StoreTypeOK

LEMMA DispatchShape ==
    ASSUME queue \in Seq(Evidence), NEW e \in Evidence, Dispatch(e)
    PROVE  queue' \in Seq(Evidence)
BY AppendProperties DEF Dispatch

LEMMA IngestShape ==
    ASSUME ApiShape, NEW c \in Clients,
           (\E e \in Evidence : BeginIngest(c, e)) \/ CommitIngest(c)
    PROVE  ApiShape' /\ thread' = thread
<1>0. client[c] \in RequestState /\ Named(client[c])
  BY DEF ApiShape, ApiTypeOK, RequestsOK
<1>1. ASSUME NEW e \in Evidence, BeginIngest(c, e) PROVE ApiShape' /\ thread' = thread
  <2>. DEFINE r == [client[c] EXCEPT !.op = "ingesting", !.ev = e]
  <2>1. r \in RequestState /\ Named(r)
    BY <1>0 DEF RequestState, Ops, Named, EvidenceOps, FactOps
  <2>2. client' = [client EXCEPT ![c] = r]
    BY <1>0, <1>1 DEF BeginIngest, ApiShape, ApiTypeOK, RequestState
  <2>3. client' \in [Clients -> RequestState] /\ RequestsOK'
    <3>. HIDE DEF r
    <3>. QED  BY <2>1, <2>2, RequestUpdate DEF ApiShape, ApiTypeOK
  <2>. QED  BY <1>1, <2>3 DEF BeginIngest, ApiShape, ApiTypeOK, StoreTypeOK, storeVars, pipelineVars
<1>2. CASE CommitIngest(c)
  <2>1. client[c].ev \in Evidence
    BY <1>0, <1>2 DEF CommitIngest, Asks, Named, EvidenceOps
  <2>2. row' \in [Evidence -> Row]
    BY <1>2, <2>1 DEF CommitIngest, ApiShape, StoreTypeOK, Row, Statuses, ACTIVE_STATUSES
  <2>3. queue' \in Seq(Evidence)
    BY <1>2, <2>1, DispatchShape DEF CommitIngest, ApiShape
  <2>4. client' \in [Clients -> RequestState] /\ RequestsOK'
    BY <1>2, AnswerShape DEF CommitIngest, ApiShape, ApiTypeOK
  <2>. QED  BY <1>2, <2>2, <2>3, <2>4 DEF CommitIngest, ApiShape, ApiTypeOK, StoreTypeOK
<1>. QED  BY <1>1, <1>2

LEMMA RetryCancelShape ==
    ASSUME ApiShape, NEW c \in Clients,
           (\E e \in Evidence : BeginRetry(c, e) \/ Cancel(c, e)) \/ CommitRetry(c)
    PROVE  ApiShape' /\ thread' = thread
<1>0. client[c] \in RequestState /\ Named(client[c])
  BY DEF ApiShape, ApiTypeOK, RequestsOK
<1>1. ASSUME NEW e \in Evidence, BeginRetry(c, e) PROVE ApiShape' /\ thread' = thread
  <2>. DEFINE r == [client[c] EXCEPT !.op = "retrying", !.ev = e, !.found = row[e].cancel]
  <2>1. r \in RequestState /\ Named(r)
    BY <1>0 DEF RequestState, Ops, Named, EvidenceOps, FactOps, ApiShape, StoreTypeOK, Row
  <2>2. client' = [client EXCEPT ![c] = r]
    BY <1>0, <1>1 DEF BeginRetry, ApiShape, ApiTypeOK, RequestState
  <2>3. client' \in [Clients -> RequestState] /\ RequestsOK'
    <3>. HIDE DEF r
    <3>. QED  BY <2>1, <2>2, RequestUpdate DEF ApiShape, ApiTypeOK
  <2>4. retries' \in Nat
    <3>1. retries' = retries + 1
      BY <1>1, Zenon DEF BeginRetry
    <3>2. retries \in Nat
      BY DEF ApiShape, ApiTypeOK
    <3>. HIDE DEF r
    <3>. QED  BY <3>1, <3>2
  <2>5. UNCHANGED <<row, gen, facts, reg, graph, thread, queue>>
    BY <1>1 DEF BeginRetry, storeVars, pipelineVars
  <2>. QED  BY <2>3, <2>4, <2>5 DEF ApiShape, ApiTypeOK, StoreTypeOK
<1>2. ASSUME NEW e \in Evidence, Cancel(c, e) PROVE ApiShape' /\ thread' = thread
  <2>1. row' \in [Evidence -> Row]
    BY <1>2 DEF Cancel, ApiShape, StoreTypeOK, Row
  <2>. QED  BY <1>2, <2>1 DEF Cancel, ApiShape, ApiTypeOK, StoreTypeOK, pipelineVars, apiVars, RequestsOK
<1>3. CASE CommitRetry(c)
  <2>1. client[c].ev \in Evidence
    BY <1>0, <1>3 DEF CommitRetry, Asks, Named, EvidenceOps
  <2>. DEFINE e == client[c].ev
              r == [st |-> "uploaded", cancel |-> row[e].cancel /\ ~client[c].found]
  <2>2. r \in Row
    BY DEF Row, Statuses, ACTIVE_STATUSES
  <2>3. row' \in [Evidence -> Row] /\ queue' \in Seq(Evidence)
    <3>1. CASE Exists(e)
      <4>1. row' = [row EXCEPT ![e] = r] /\ Dispatch(e)
        BY <1>3, <2>1, <3>1 DEF CommitRetry, ApiShape, StoreTypeOK
      <4>. QED  BY <2>1, <2>2, <4>1, RowUpdate, DispatchShape DEF ApiShape
    <3>2. CASE ~Exists(e)
      BY <1>3, <3>2 DEF CommitRetry, ApiShape, StoreTypeOK
    <3>. QED  BY <3>1, <3>2
  <2>4. client' \in [Clients -> RequestState] /\ RequestsOK'
    BY <1>3, AnswerShape DEF CommitRetry, ApiShape, ApiTypeOK
  <2>. QED  BY <1>3, <2>3, <2>4 DEF CommitRetry, ApiShape, ApiTypeOK, StoreTypeOK
<1>. QED  BY <1>1, <1>2, <1>3

LEMMA DeleteShape ==
    ASSUME ApiShape, NEW c \in Clients,
           \/ \E e \in Evidence : BeginDelete(c, e)
           \/ CollectTouched(c) \/ CommitDelete(c) \/ CleanGraph(c)
    PROVE  ApiShape' /\ thread' = thread
<1>0. client[c] \in RequestState /\ Named(client[c])
  BY DEF ApiShape, ApiTypeOK, RequestsOK
<1>1. ASSUME NEW e \in Evidence, BeginDelete(c, e) PROVE ApiShape' /\ thread' = thread
  <2>. DEFINE r == [client[c] EXCEPT !.op = "deleting", !.ev = e]
  <2>1. r \in RequestState /\ Named(r)
    BY <1>0 DEF RequestState, Ops, Named, EvidenceOps, FactOps
  <2>2. client' = [client EXCEPT ![c] = r]
    BY <1>0, <1>1 DEF BeginDelete, ApiShape, ApiTypeOK, RequestState
  <2>3. client' \in [Clients -> RequestState] /\ RequestsOK'
    <3>. HIDE DEF r
    <3>. QED  BY <2>1, <2>2, RequestUpdate DEF ApiShape, ApiTypeOK
  <2>4. row' \in [Evidence -> Row]
    BY <1>1 DEF BeginDelete, ApiShape, StoreTypeOK, Row
  <2>5. UNCHANGED <<gen, facts, reg, graph, thread, queue, retries>>
    BY <1>1 DEF BeginDelete, pipelineVars
  <2>. QED  BY <2>3, <2>4, <2>5 DEF ApiShape, ApiTypeOK, StoreTypeOK
<1>2. CASE CollectTouched(c)
  <2>. DEFINE X == Touched(client[c].ev)
              r == [client[c] EXCEPT !.op = "scrubbing", !.ents = X]
  <2>1. X \in SUBSET EntityIds
    BY DEF Touched, FactsOf, FactId, ApiShape, StoreTypeOK
  <2>2. client[c].ev \in Evidence
    BY <1>0, <1>2 DEF CollectTouched, Asks, Named, EvidenceOps
  <2>3. client' = [client EXCEPT ![c].op = "scrubbing", ![c].ents = X]
    BY <1>2 DEF CollectTouched
  <2>4. r \in RequestState /\ Named(r) /\ client' = [client EXCEPT ![c] = r]
    <3>. HIDE DEF X
    <3>. QED  BY <1>0, <2>1, <2>2, <2>3
              DEF RequestState, Ops, Named, EvidenceOps, FactOps, ApiShape, ApiTypeOK
  <2>5. client' \in [Clients -> RequestState] /\ RequestsOK'
    <3>. HIDE DEF r
    <3>. QED  BY <2>4, RequestUpdate DEF ApiShape, ApiTypeOK
  <2>6. UNCHANGED <<row, gen, facts, reg, graph, thread, queue, retries>>
    BY <1>2 DEF CollectTouched, storeVars, pipelineVars
  <2>. QED  BY <2>5, <2>6 DEF ApiShape, ApiTypeOK, StoreTypeOK
<1>3. CASE CommitDelete(c)
  <2>. DEFINE e == client[c].ev
              X == Orphaned(e, client[c].ents)
              r == [client[c] EXCEPT !.op = "cleaning", !.ents = X]
  <2>1. X \in SUBSET EntityIds
    BY <1>0 DEF Orphaned, RequestState
  <2>2. e \in Evidence
    BY <1>0, <1>3 DEF CommitDelete, Asks, Named, EvidenceOps
  <2>3. client' = [client EXCEPT ![c].op = "cleaning", ![c].ents = X]
    BY <1>3 DEF CommitDelete
  <2>4. r \in RequestState /\ Named(r) /\ client' = [client EXCEPT ![c] = r]
    <3>. HIDE DEF X
    <3>. QED  BY <1>0, <2>1, <2>2, <2>3
              DEF RequestState, Ops, Named, EvidenceOps, FactOps, ApiShape, ApiTypeOK
  <2>5. client' \in [Clients -> RequestState] /\ RequestsOK'
    <3>. HIDE DEF r
    <3>. QED  BY <2>4, RequestUpdate DEF ApiShape, ApiTypeOK
  <2>6. [st |-> "deleted", cancel |-> FALSE] \in Row
    BY DEF Row, Statuses
  <2>7. row' \in [Evidence -> Row]
    BY <1>3, <2>2, <2>6, RowUpdate DEF CommitDelete, ApiShape
  <2>8. /\ facts' = WithoutFactsOf(e)
        /\ reg' = Scrubbed(e, client[c].ents)
        /\ UNCHANGED <<gen, graph, thread, queue, retries>>
    BY <1>3 DEF CommitDelete, pipelineVars
  <2>9. reg' \in [EntityIds -> RegRow]
    BY <2>8, ScrubbedType DEF ApiShape
  <2>10. DOMAIN facts' \subseteq FactId /\ facts' \in [DOMAIN facts' -> FactRow]
    BY <2>8, WithoutFactsOfType DEF ApiShape
  <2>. QED  BY <2>5, <2>7, <2>8, <2>9, <2>10 DEF ApiShape, ApiTypeOK, StoreTypeOK
<1>4. CASE CleanGraph(c)
  <2>1. graph' \in Graph
    BY <1>4, DropType DEF CleanGraph, ApiShape, StoreTypeOK
  <2>2. client' \in [Clients -> RequestState] /\ RequestsOK'
    BY <1>4, AnswerShape DEF CleanGraph, ApiShape, ApiTypeOK
  <2>3. UNCHANGED <<row, gen, facts, reg, thread, queue, retries>>
    BY <1>4 DEF CleanGraph, pipelineVars
  <2>. QED  BY <2>1, <2>2, <2>3 DEF ApiShape, ApiTypeOK, StoreTypeOK
<1>. QED  BY <1>1, <1>2, <1>3, <1>4

LEMMA DecideType ==
    ASSUME StoreTypeOK, NEW i \in DOMAIN facts,
           NEW st \in {"written", "rejected"}, NEW item \in {"approved", "rejected"},
           Decide(i, st, item)
    PROVE  DOMAIN facts' \subseteq FactId /\ facts' \in [DOMAIN facts' -> FactRow]
<1>1. [st |-> st, item |-> item] \in FactRow
  BY DEF FactRow
<1>. QED  BY <1>1 DEF Decide, StoreTypeOK

LEMMA ReviewShape ==
    ASSUME ApiShape, NEW c \in Clients,
           \/ \E i \in DOMAIN facts : BeginApprove(c, i) \/ BeginReject(c, i)
           \/ ApproveInGraph(c) \/ CommitApprove(c) \/ CommitReject(c)
    PROVE  ApiShape' /\ thread' = thread
<1>0. client[c] \in RequestState /\ Named(client[c])
  BY DEF ApiShape, ApiTypeOK, RequestsOK
<1>1. ASSUME NEW i \in DOMAIN facts, BeginApprove(c, i) PROVE ApiShape' /\ thread' = thread
  <2>. DEFINE r == [op |-> "approving", ev |-> NoEvidence, id |-> i, found |-> RowsFound(i),
                    base |-> reg[i.tgt].evs, evs |-> reg[i.src].evs \cup reg[i.tgt].evs,
                    ents |-> {}]
  <2>1. i \in FactId /\ i.src \in EntityIds /\ i.tgt \in EntityIds
    BY DEF ApiShape, StoreTypeOK, FactId
  <2>2. \A x \in EntityIds : reg[x].evs \in SUBSET Evidence
    <3>1. \A x \in EntityIds : reg[x] \in RegRow
      BY DEF ApiShape, StoreTypeOK
    <3>. QED  BY <3>1 DEF RegRow
  <2>3. RowsFound(i) \in BOOLEAN
    BY DEF RowsFound
  <2>4. r \in RequestState /\ Named(r)
    BY <2>1, <2>2, <2>3 DEF RequestState, Ops, Named, EvidenceOps, FactOps
  <2>5. client' = [client EXCEPT ![c] = r]
    BY <1>1 DEF BeginApprove
  <2>6. client' \in [Clients -> RequestState] /\ RequestsOK'
    <3>. HIDE DEF r
    <3>. QED  BY <2>4, <2>5, RequestUpdate DEF ApiShape, ApiTypeOK
  <2>7. UNCHANGED <<row, gen, facts, reg, graph, thread, queue, retries>>
    BY <1>1 DEF BeginApprove, storeVars, pipelineVars
  <2>. QED  BY <2>6, <2>7 DEF ApiShape, ApiTypeOK, StoreTypeOK
<1>2. ASSUME NEW i \in DOMAIN facts, BeginReject(c, i) PROVE ApiShape' /\ thread' = thread
  <2>. DEFINE r == [client[c] EXCEPT !.op = "rejecting", !.id = i]
  <2>1. i \in FactId
    BY DEF ApiShape, StoreTypeOK
  <2>2. r \in RequestState /\ Named(r)
    BY <1>0, <2>1 DEF RequestState, Ops, Named, EvidenceOps, FactOps
  <2>3. client' = [client EXCEPT ![c] = r]
    BY <1>0, <1>2 DEF BeginReject, ApiShape, ApiTypeOK, RequestState
  <2>4. client' \in [Clients -> RequestState] /\ RequestsOK'
    <3>. HIDE DEF r
    <3>. QED  BY <2>2, <2>3, RequestUpdate DEF ApiShape, ApiTypeOK
  <2>5. UNCHANGED <<row, gen, facts, reg, graph, thread, queue, retries>>
    BY <1>2 DEF BeginReject, storeVars, pipelineVars
  <2>. QED  BY <2>4, <2>5 DEF ApiShape, ApiTypeOK, StoreTypeOK
<1>3. CASE ApproveInGraph(c)
  <2>. DEFINE i == client[c].id
  <2>1. UNCHANGED <<row, gen, facts, reg, thread, queue, retries>>
    BY <1>3 DEF ApproveInGraph, pipelineVars
  <2>2. i \in FactId
    BY <1>0, <1>3 DEF ApproveInGraph, Asks, Named, FactOps
  <2>3. CASE graph' = graph /\ Answer(c)
    <3>1. client' \in [Clients -> RequestState] /\ RequestsOK'
      BY <2>3, AnswerShape DEF ApiShape, ApiTypeOK
    <3>. QED  BY <2>1, <2>3, <3>1 DEF ApiShape, ApiTypeOK, StoreTypeOK
  <2>4. CASE /\ graph' = Approved(graph, i, client[c].found)
             /\ client' = [client EXCEPT ![c].op = "deciding"]
    <3>1. i.src \in EntityIds /\ i.ev \in Evidence
      BY <2>2 DEF FactId
    <3>2. UpsertEntities(graph, {i.src}, i.ev) \in Graph
      BY <3>1, UpsertEntitiesType DEF ApiShape, StoreTypeOK
    <3>3. UpsertEdges(graph, {i}, "accepted") \in Graph
      BY <2>2, UpsertEdgesType DEF ApiShape, StoreTypeOK
    <3>4. graph' \in Graph
      BY <2>4, <3>2, <3>3 DEF Approved, ApiShape, StoreTypeOK
    <3>. DEFINE r == [client[c] EXCEPT !.op = "deciding"]
    <3>5. r \in RequestState /\ Named(r)
      BY <1>0, <2>2 DEF RequestState, Ops, Named, EvidenceOps, FactOps
    <3>6. client' = [client EXCEPT ![c] = r]
      BY <2>4
    <3>7. client' \in [Clients -> RequestState] /\ RequestsOK'
      <4>. HIDE DEF r
      <4>. QED  BY <3>5, <3>6, RequestUpdate DEF ApiShape, ApiTypeOK
    <3>. QED  BY <2>1, <3>4, <3>7 DEF ApiShape, ApiTypeOK, StoreTypeOK
  <2>. QED  BY <1>3, <2>3, <2>4 DEF ApproveInGraph
<1>4. CASE CommitApprove(c)
  <2>. DEFINE i == client[c].id
  <2>1. client' \in [Clients -> RequestState] /\ RequestsOK'
    BY <1>4, AnswerShape DEF CommitApprove, ApiShape, ApiTypeOK
  <2>2. UNCHANGED <<row, gen, graph, thread, queue, retries>>
    BY <1>4 DEF CommitApprove, pipelineVars
  <2>3. client[c].evs \in SUBSET Evidence
    BY <1>0 DEF RequestState
  <2>4. Merged(c) \in [EntityIds -> RegRow]
    BY <2>3 DEF Merged, ApiShape, StoreTypeOK, RegRow
  <2>5. \/ i \in DOMAIN facts /\ Decide(i, "written", "approved") /\ reg' = Merged(c)
        \/ UNCHANGED <<facts, reg>>
    BY <1>4 DEF CommitApprove
  <2>6. DOMAIN facts' \subseteq FactId /\ facts' \in [DOMAIN facts' -> FactRow]
    BY <2>5, DecideType DEF ApiShape, StoreTypeOK
  <2>7. reg' \in [EntityIds -> RegRow]
    BY <2>4, <2>5 DEF ApiShape, StoreTypeOK
  <2>. QED  BY <2>1, <2>2, <2>6, <2>7 DEF ApiShape, ApiTypeOK, StoreTypeOK
<1>5. CASE CommitReject(c)
  <2>1. client' \in [Clients -> RequestState] /\ RequestsOK'
    BY <1>5, AnswerShape DEF CommitReject, ApiShape, ApiTypeOK
  <2>2. UNCHANGED <<row, gen, reg, graph, thread, queue, retries>>
    BY <1>5 DEF CommitReject, pipelineVars
  <2>3. DOMAIN facts' \subseteq FactId /\ facts' \in [DOMAIN facts' -> FactRow]
    BY <1>5, DecideType DEF CommitReject, ApiShape, StoreTypeOK
  <2>. QED  BY <2>1, <2>2, <2>3 DEF ApiShape, ApiTypeOK, StoreTypeOK
<1>. QED  BY <1>1, <1>2, <1>3, <1>4, <1>5

LEMMA RestartShape ==
    ASSUME StoreTypeOK, ApiTypeOK, Restart
    PROVE  StoreTypeOK' /\ RunsOK' /\ queue' \in Seq(Evidence) /\ ApiTypeOK' /\ RequestsOK'
<1>1. \A e \in Evidence : Swept(e) \in Row
  BY DEF Swept, StoreTypeOK, Row, Statuses, TERMINAL_STATUSES
<1>2. row' \in [Evidence -> Row]
  BY <1>1 DEF Restart
<1>3. RunsOK'
  BY IdleType DEF Restart, RunsOK, Ev, At, Idle
<1>4. queue' \in Seq(Evidence)
  BY EmptySeq DEF Restart
<1>5. client' \in [Clients -> RequestState] /\ RequestsOK'
  BY NoRequestType DEF Restart, RequestsOK, Named
<1>. QED  BY <1>2, <1>3, <1>4, <1>5 DEF Restart, StoreTypeOK, ApiTypeOK

-----------------------------------------------------------------------------
(* The theorem                                                             *)

\* TypeOK with what threads and requests work on.
Shape == TypeOK /\ RunsOK /\ RequestsOK

LEMMA InitShape == Init => Shape
<1>. SUFFICES ASSUME Init PROVE Shape
  OBVIOUS
<1>1. StoreTypeOK
  BY DEF Init, StoreInit, StoreTypeOK, Row, Statuses, RegRow, Graph
<1>2. RunsOK
  BY IdleType DEF Init, PipelineInit, RunsOK, Ev, At, Idle
<1>3. queue \in Seq(Evidence)
  BY EmptySeq DEF Init, PipelineInit
<1>4. ApiTypeOK /\ RequestsOK
  BY NoRequestType DEF Init, ApiInit, ApiTypeOK, RequestsOK
<1>. QED  BY <1>1, <1>2, <1>3, <1>4 DEF Shape, TypeOK, PipelineTypeOK, RunsOK

LEMMA NextShape == Shape /\ [Next]_vars => Shape'
<1>. SUFFICES ASSUME Shape, [Next]_vars PROVE Shape'
  OBVIOUS
<1>0. ApiShape /\ RunsOK
  BY DEF Shape, ApiShape, TypeOK, PipelineTypeOK
<1>1. ASSUME NEW t \in Threads, PoolStep(t) PROVE Shape'
  <2>1. StoreTypeOK' /\ RunsOK' /\ queue' \in Seq(Evidence)
    BY <1>0, <1>1, RunStepShape, StartRunShape DEF PoolStep, ApiShape
  <2>2. ApiTypeOK' /\ RequestsOK'
    BY <1>0, <1>1 DEF PoolStep, apiVars, ApiShape, ApiTypeOK, RequestsOK
  <2>. QED  BY <2>1, <2>2 DEF Shape, TypeOK, PipelineTypeOK, RunsOK
<1>2. ASSUME NEW c \in Clients, Request(c) \/ HandlerStep(c) PROVE Shape'
  <2>1. ApiShape' /\ thread' = thread
    BY <1>0, <1>2, IngestShape, RetryCancelShape, DeleteShape, ReviewShape DEF Request, HandlerStep
  <2>. QED  BY <1>0, <2>1 DEF ApiShape, Shape, TypeOK, PipelineTypeOK, RunsOK, Ev, At
<1>3. CASE Restart
  BY <1>0, <1>3, RestartShape DEF ApiShape, Shape, TypeOK, PipelineTypeOK, RunsOK
<1>4. CASE UNCHANGED vars
  BY <1>0, <1>4 DEF vars, storeVars, pipelineVars, apiVars, ApiShape, Shape, TypeOK,
     PipelineTypeOK, StoreTypeOK, ApiTypeOK, RunsOK, RequestsOK, Ev, At
<1>. QED  BY <1>1, <1>2, <1>3, <1>4 DEF Next

\* Threads and requests keep working on what they were started for, and every
\* variable keeps its type.
THEOREM ShapeInvariant == Spec => []Shape
BY InitShape, NextShape, PTL DEF Spec

\* No step of the pool, a handler or a restart leaves the store, the graph, a
\* thread, the queue or a request in a state it cannot have.
THEOREM TypeCorrect == Spec => []TypeOK
<1>1. Shape => TypeOK
  BY DEF Shape
<1>. QED  BY <1>1, ShapeInvariant, PTL

-----------------------------------------------------------------------------
(* The runs of an evidence                                                 *)

\* Thread t will end the evidence e, or leave it to a later thread to do so.
Carries(t, e) ==
    /\ Ev(t) = e
    /\ ~(thread[t].pc \in {"inferring", "enriching"} /\ thread[t].seen = "enriched")

\* The inductive strengthening of NoneStranded.
Carried ==
    \A e \in Evidence :
        row[e].st \in ACTIVE_STATUSES => Queued(e) \/ \E t \in Threads : Carries(t, e)

LEMMA CarriedImpliesNoneStranded == Carried => NoneStranded
BY DEF Carried, NoneStranded, InFlight, Carries

-----------------------------------------------------------------------------
(* What a step of a run does to its evidence                               *)

\* Other rows and threads are left alone; and the thread carries its evidence
\* on, or the row has ended, or the thread did not carry it anyway.
Handled(t) ==
    /\ queue' = queue
    /\ \A e \in Evidence : e # Ev(t) => row'[e] = row[e]
    /\ \A u \in Threads : u # t => thread'[u] = thread[u]
    /\ \/ Carries(t, Ev(t))' /\ Ev(t)' = Ev(t)
       \/ row'[Ev(t)].st \notin ACTIVE_STATUSES
       \/ ~Carries(t, Ev(t)) /\ row' = row

\* Writing the end of a run, whether or not the row is still there.
LEMMA MarkedEnds ==
    ASSUME StoreTypeOK, NEW e \in Evidence, NEW st \in TERMINAL_STATUSES, row' = Marked(e, st)
    PROVE  /\ \A f \in Evidence : f # e => row'[f] = row[f]
           /\ row'[e].st \notin ACTIVE_STATUSES
BY DEF Marked, Exists, StoreTypeOK, Row, TERMINAL_STATUSES, ACTIVE_STATUSES

LEMMA SavedElsewhere ==
    ASSUME StoreTypeOK, NEW t, NEW st, row' = Saved(t, st)
    PROVE  \A f \in Evidence : f # Ev(t) => row'[f] = row[f]
BY DEF Saved, StoreTypeOK

LEMMA GotoCarries ==
    ASSUME RunsOK, NEW t \in Threads, NEW pc, pc \notin {"inferring", "enriching"}, Goto(t, pc)
    PROVE  /\ Carries(t, Ev(t))' /\ Ev(t)' = Ev(t)
           /\ \A u \in Threads : u # t => thread'[u] = thread[u]
BY DEF RunsOK, RunState, Goto, Carries, Ev

LEMMA LoadCarries ==
    ASSUME RunsOK, NEW t \in Threads, NEW stage, NEW pc, NEW ids, Load(t, stage, pc, ids),
           pc \notin {"inferring", "enriching"} \/ row[Ev(t)].st # "enriched"
    PROVE  /\ Carries(t, Ev(t))' /\ Ev(t)' = Ev(t)
           /\ \A u \in Threads : u # t => thread'[u] = thread[u]
BY DEF RunsOK, RunState, Load, Carries, Ev

LEMMA FinishElsewhere ==
    ASSUME RunsOK, NEW t \in Threads, Finish(t)
    PROVE  \A u \in Threads : u # t => thread'[u] = thread[u]
BY DEF RunsOK, Finish

LEMMA FailWithHandled ==
    ASSUME StoreTypeOK, RunsOK, NEW t \in Threads, ~At(t, "idle"), NEW g, FailWith(t, g)
    PROVE  Handled(t)
<1>1. Ev(t) \in Evidence
  BY WorksOnEvidence
<1>2. /\ \A f \in Evidence : f # Ev(t) => row'[f] = row[f]
      /\ row'[Ev(t)].st \notin ACTIVE_STATUSES
  BY <1>1, MarkedEnds DEF FailWith, TERMINAL_STATUSES
<1>3. \A u \in Threads : u # t => thread'[u] = thread[u]
  BY FinishElsewhere DEF FailWith
<1>. QED  BY <1>2, <1>3 DEF FailWith, Handled

LEMMA EarlyHandled ==
    ASSUME StoreTypeOK, RunsOK, NEW t \in Threads,
           \/ Stop(t) \/ LoadText(t) \/ FinishText(t) \/ TextFails(t)
           \/ ClearFacts(t) \/ MatchMentions(t) \/ Resolve(t) \/ ResolveFails(t)
    PROVE  Handled(t)
<1>1. CASE Stop(t)
  <2>1. Ev(t) \in Evidence
    BY <1>1, WorksOnEvidence DEF Stop, At, Boundaries
  <2>2. /\ \A f \in Evidence : f # Ev(t) => row'[f] = row[f]
        /\ row'[Ev(t)].st \notin ACTIVE_STATUSES
    BY <1>1, <2>1, MarkedEnds DEF Stop, TERMINAL_STATUSES
  <2>3. \A u \in Threads : u # t => thread'[u] = thread[u]
    BY <1>1, FinishElsewhere DEF Stop
  <2>. QED  BY <1>1, <2>2, <2>3 DEF Stop, Handled
<1>2. CASE LoadText(t)
  <2>1. /\ Carries(t, Ev(t))' /\ Ev(t)' = Ev(t)
        /\ \A u \in Threads : u # t => thread'[u] = thread[u]
    BY <1>2, LoadCarries DEF LoadText
  <2>. QED  BY <1>2, <2>1 DEF LoadText, storeVars, Handled
<1>3. CASE FinishText(t)
  <2>1. /\ Carries(t, Ev(t))' /\ Ev(t)' = Ev(t)
        /\ \A u \in Threads : u # t => thread'[u] = thread[u]
    BY <1>3, GotoCarries DEF FinishText
  <2>2. \A f \in Evidence : f # Ev(t) => row'[f] = row[f]
    BY <1>3, SavedElsewhere DEF FinishText
  <2>. QED  BY <1>3, <2>1, <2>2 DEF FinishText, Handled
<1>4. CASE TextFails(t)
  BY <1>4, FailWithHandled DEF TextFails, At
<1>5. CASE ClearFacts(t)
  <2>1. /\ Carries(t, Ev(t))' /\ Ev(t)' = Ev(t)
        /\ \A u \in Threads : u # t => thread'[u] = thread[u]
    BY <1>5, LoadCarries DEF ClearFacts
  <2>. QED  BY <1>5, <2>1 DEF ClearFacts, Handled
<1>6. CASE MatchMentions(t)
  <2>1. PICK res : thread' = [thread EXCEPT ![t].pc = "resolving", ![t].res = res]
    BY <1>6 DEF MatchMentions
  <2>2. /\ Carries(t, Ev(t))' /\ Ev(t)' = Ev(t)
        /\ \A u \in Threads : u # t => thread'[u] = thread[u]
    BY <2>1 DEF RunsOK, RunState, Carries, Ev
  <2>. QED  BY <1>6, <2>2 DEF MatchMentions, storeVars, Handled
<1>7. CASE Resolve(t)
  <2>1. /\ Carries(t, Ev(t))' /\ Ev(t)' = Ev(t)
        /\ \A u \in Threads : u # t => thread'[u] = thread[u]
    BY <1>7, GotoCarries DEF Resolve
  <2>2. \A f \in Evidence : f # Ev(t) => row'[f] = row[f]
    BY <1>7, SavedElsewhere DEF Resolve
  <2>. QED  BY <1>7, <2>1, <2>2 DEF Resolve, Handled
<1>8. CASE ResolveFails(t)
  BY <1>8, FailWithHandled DEF ResolveFails, At
<1>. QED  BY <1>1, <1>2, <1>3, <1>4, <1>5, <1>6, <1>7, <1>8

LEMMA WriteHandled ==
    ASSUME StoreTypeOK, RunsOK, NEW t \in Threads,
           \/ LoadWrite(t) \/ ReadAccepted(t) \/ ConnectFails(t)
           \/ Project(t) \/ ProjectFails(t)
    PROVE  Handled(t)
<1>1. CASE LoadWrite(t)
  <2>1. /\ Carries(t, Ev(t))' /\ Ev(t)' = Ev(t)
        /\ \A u \in Threads : u # t => thread'[u] = thread[u]
    BY <1>1, LoadCarries DEF LoadWrite
  <2>. QED  BY <1>1, <2>1 DEF LoadWrite, storeVars, Handled
<1>2. CASE ReadAccepted(t)
  <2>1. PICK ids : thread' = [thread EXCEPT ![t].pc = "projecting", ![t].ids = ids]
    BY <1>2 DEF ReadAccepted
  <2>2. /\ Carries(t, Ev(t))' /\ Ev(t)' = Ev(t)
        /\ \A u \in Threads : u # t => thread'[u] = thread[u]
    BY <2>1 DEF RunsOK, RunState, Carries, Ev
  <2>. QED  BY <1>2, <2>2 DEF ReadAccepted, Handled
<1>3. CASE ConnectFails(t)
  BY <1>3, FailWithHandled DEF ConnectFails, At
<1>4. CASE Project(t)
  <2>1. CASE FailWith(t, Projected(graph, Ev(t), Writable(thread[t].ids)))
    BY <1>4, <2>1, FailWithHandled DEF Project, At
  <2>2. CASE row' = Saved(t, "written") /\ Goto(t, "enrich") /\ queue' = queue
    BY <2>2, GotoCarries, SavedElsewhere DEF Handled
  <2>. QED  BY <1>4, <2>1, <2>2 DEF Project
<1>5. CASE ProjectFails(t)
  BY <1>5, FailWithHandled DEF ProjectFails, At
<1>. QED  BY <1>1, <1>2, <1>3, <1>4, <1>5

LEMMA EnrichHandled ==
    ASSUME StoreTypeOK, RunsOK, NEW t \in Threads,
           SkipEnrich(t) \/ LoadEnrich(t) \/ Infer(t) \/ Enrich(t) \/ EnrichFails(t)
    PROVE  Handled(t)
<1>0. Ev(t) \in Evidence
  BY WorksOnEvidence DEF SkipEnrich, LoadEnrich, Load, Infer, Enrich, EnrichFails, At
<1>1. CASE SkipEnrich(t) \/ EnrichFails(t)
  <2>1. row' = Marked(Ev(t), "enriched") /\ Finish(t) /\ queue' = queue
    BY <1>1 DEF SkipEnrich, EnrichFails
  <2>2. /\ \A f \in Evidence : f # Ev(t) => row'[f] = row[f]
        /\ row'[Ev(t)].st \notin ACTIVE_STATUSES
    BY <1>0, <2>1, MarkedEnds DEF TERMINAL_STATUSES
  <2>. QED  BY <2>1, <2>2, FinishElsewhere DEF Handled
<1>2. CASE LoadEnrich(t)
  <2>1. row' = row /\ queue' = queue
    BY <1>2 DEF LoadEnrich, storeVars
  <2>2. \A u \in Threads : u # t => thread'[u] = thread[u]
    BY <1>2 DEF LoadEnrich, Load, RunsOK
  <2>3. CASE row[Ev(t)].st = "enriched"
    BY <2>1, <2>2, <2>3 DEF Handled, ACTIVE_STATUSES
  <2>4. CASE row[Ev(t)].st # "enriched"
    BY <1>2, <2>1, <2>4, LoadCarries DEF LoadEnrich, Handled
  <2>. QED  BY <2>3, <2>4
<1>3. CASE Infer(t)
  <2>1. row' = row /\ queue' = queue /\ At(t, "inferring") /\ Goto(t, "enriching")
    BY <1>3 DEF Infer
  <2>2. \A u \in Threads : u # t => thread'[u] = thread[u]
    BY <2>1 DEF Goto, RunsOK
  <2>3. Carries(t, Ev(t)) => Carries(t, Ev(t))' /\ Ev(t)' = Ev(t)
    BY <2>1 DEF Goto, RunsOK, RunState, Carries, Ev, At
  <2>. QED  BY <2>1, <2>2, <2>3 DEF Handled
<1>4. CASE Enrich(t)
  <2>1. /\ At(t, "enriching")
        /\ row' = IF Exists(Ev(t)) THEN Saved(t, "enriched") ELSE row
        /\ Finish(t) /\ queue' = queue
    BY <1>4 DEF Enrich
  <2>2. \A u \in Threads : u # t => thread'[u] = thread[u]
    BY <2>1, FinishElsewhere
  <2>3. \A f \in Evidence : f # Ev(t) => row'[f] = row[f]
    BY <2>1, SavedElsewhere
  <2>4. CASE thread[t].seen = "enriched"
    <3>1. row' = row /\ ~Carries(t, Ev(t))
      BY <2>1, <2>4 DEF Saved, Carries, At
    <3>. QED  BY <2>1, <2>2, <3>1 DEF Handled
  <2>5. CASE thread[t].seen # "enriched"
    <3>1. row'[Ev(t)].st \notin ACTIVE_STATUSES
      BY <1>0, <2>1, <2>5 DEF Saved, Exists, StoreTypeOK, Row, ACTIVE_STATUSES, TERMINAL_STATUSES
    <3>. QED  BY <2>1, <2>2, <2>3, <3>1 DEF Handled
  <2>. QED  BY <2>4, <2>5
<1>. QED  BY <1>1, <1>2, <1>3, <1>4

-----------------------------------------------------------------------------
(* Induction                                                               *)

\* An evidence that is in progress after a step of a run has a thread that
\* carries it, unless it was in progress, and had none, before.
LEMMA HandledCarries ==
    ASSUME NEW t \in Threads, Handled(t), NEW e \in Evidence, row'[e].st \in ACTIVE_STATUSES
    PROVE  \/ \E u \in Threads : Carries(u, e)'
           \/ row[e].st \in ACTIVE_STATUSES /\ ~\E u \in Threads : Carries(u, e)
<1>1. ASSUME NEW u \in Threads, u # t, Carries(u, e) PROVE Carries(u, e)'
  BY <1>1 DEF Handled, Carries, Ev
<1>2. CASE e # Ev(t)
  BY <1>1, <1>2 DEF Handled, Carries
<1>3. CASE e = Ev(t)
  BY <1>1, <1>3 DEF Handled, Carries
<1>. QED  BY <1>2, <1>3

LEMMA RunStepHandled ==
    ASSUME StoreTypeOK, RunsOK, NEW t \in Threads, RunStep(t)
    PROVE  Handled(t)
BY EarlyHandled, WriteHandled, EnrichHandled DEF RunStep

LEMMA RunStepCarried ==
    ASSUME Carried, StoreTypeOK, RunsOK, NEW t \in Threads, RunStep(t)
    PROVE  Carried'
BY RunStepHandled, HandledCarries DEF Carried, Handled, Queued

LEMMA StartRunCarried ==
    ASSUME Carried, RunsOK, queue \in Seq(Evidence), NEW t \in Threads, StartRun(t)
    PROVE  Carried'
<1>1. queue # <<>> /\ queue' = Tail(queue) /\ row' = row
  BY DEF StartRun, storeVars
<1>2. thread' = [thread EXCEPT ![t] = [Idle EXCEPT !.pc = "parse", !.ev = Head(queue)]]
  BY DEF StartRun
<1>3. ASSUME NEW e \in Evidence, e = Head(queue) PROVE Carries(t, e)'
  <2>. DEFINE r == [Idle EXCEPT !.pc = "parse", !.ev = Head(queue)]
  <2>1. r.pc = "parse" /\ r.ev = Head(queue)
    BY DEF Idle
  <2>2. thread'[t] = r
    BY <1>2 DEF RunsOK
  <2>. HIDE DEF r
  <2>. QED  BY <1>3, <2>1, <2>2 DEF Carries, Ev
<1>4. ASSUME NEW e \in Evidence, NEW u \in Threads, Carries(u, e) PROVE Carries(u, e)'
  <2>1. u # t
    BY <1>4, NoEvidenceAssumption DEF RunsOK, Carries, StartRun
  <2>. QED  BY <1>2, <1>4, <2>1 DEF Carries, Ev, RunsOK
<1>5. ASSUME NEW e \in Evidence, Queued(e) PROVE Queued(e)' \/ Carries(t, e)'
  <2>1. PICK n \in 1..Len(queue) : queue[n] = e
    BY <1>5 DEF Queued
  <2>2. CASE n = 1
    <3>1. Head(queue) = e
      BY <1>1, <2>1, <2>2
    <3>. QED  BY <1>3, <3>1
  <2>3. CASE n # 1
    <3>1. n - 1 \in 1..Len(queue') /\ queue'[n - 1] = queue[n]
      <4>1. Len(queue) \in Nat
        BY LenProperties
      <4>2. /\ Len(Tail(queue)) = Len(queue) - 1
            /\ \A i \in 1..Len(Tail(queue)) : Tail(queue)[i] = queue[i + 1]
        BY <1>1, HeadTailProperties
      <4>3. n - 1 \in 1..Len(Tail(queue)) /\ (n - 1) + 1 = n
        BY <2>3, <4>1, <4>2
      <4>. QED  BY <1>1, <4>2, <4>3
    <3>. QED  BY <2>1, <3>1 DEF Queued
  <2>. QED  BY <2>2, <2>3
<1>. QED  BY <1>1, <1>4, <1>5 DEF Carried

\* A dispatched evidence is queued, and nothing leaves the queue.
LEMMA DispatchQueues ==
    ASSUME queue \in Seq(Evidence), NEW e \in Evidence, Dispatch(e)
    PROVE  Queued(e)' /\ \A f : Queued(f) => Queued(f)'
<1>1. /\ Len(queue') = Len(queue) + 1
      /\ \A n \in 1..Len(queue) : queue'[n] = queue[n]
      /\ queue'[Len(queue) + 1] = e
  BY AppendProperties DEF Dispatch
<1>2. Len(queue) \in Nat
  BY LenProperties
<1>3. Queued(e)'
  BY <1>1, <1>2 DEF Queued
<1>4. ASSUME NEW f, Queued(f) PROVE Queued(f)'
  <2>1. PICK n \in 1..Len(queue) : queue[n] = f
    BY <1>4 DEF Queued
  <2>2. n \in 1..Len(queue') /\ queue'[n] = f
    BY <1>1, <1>2, <2>1
  <2>. QED  BY <2>2 DEF Queued
<1>. QED  BY <1>3, <1>4

\* A request makes a row active only when it dispatches it.
Dispatched ==
    /\ \A e \in Evidence : row'[e].st \in ACTIVE_STATUSES =>
           Queued(e)' \/ row[e].st \in ACTIVE_STATUSES
    /\ \A e \in Evidence : Queued(e) => Queued(e)'

LEMMA RequestDispatches ==
    ASSUME ApiShape, NEW c \in Clients, Request(c) \/ HandlerStep(c)
    PROVE  /\ thread' = thread
           /\ Dispatched
<1>1. thread' = thread
  BY IngestShape, RetryCancelShape, DeleteShape, ReviewShape DEF Request, HandlerStep
<1>2. ASSUME queue' = queue,
             \A e \in Evidence : row'[e].st \in ACTIVE_STATUSES => row[e].st \in ACTIVE_STATUSES
      PROVE  Dispatched
  BY <1>2 DEF Dispatched, Queued
<1>3. ASSUME NEW e \in Evidence, Dispatch(e),
             \A f \in Evidence : f # e => row'[f] = row[f]
      PROVE  Dispatched
  <2>1. Queued(e)' /\ \A f : Queued(f) => Queued(f)'
    BY <1>3, DispatchQueues DEF ApiShape
  <2>. QED  BY <1>3, <2>1 DEF Dispatched
<1>4. client[c].op \in EvidenceOps => client[c].ev \in Evidence
  BY DEF ApiShape, RequestsOK, Named
<1>5. CASE CommitIngest(c)
  <2>1. client[c].ev \in Evidence
    BY <1>4, <1>5 DEF CommitIngest, Asks, EvidenceOps
  <2>. QED  BY <1>3, <1>5, <2>1 DEF CommitIngest, ApiShape, StoreTypeOK
<1>6. CASE CommitRetry(c)
  <2>1. client[c].ev \in Evidence
    BY <1>4, <1>6 DEF CommitRetry, Asks, EvidenceOps
  <2>2. CASE Exists(client[c].ev)
    BY <1>3, <1>6, <2>1, <2>2 DEF CommitRetry, ApiShape, StoreTypeOK
  <2>3. CASE ~Exists(client[c].ev)
    BY <1>2, <1>6, <2>3 DEF CommitRetry
  <2>. QED  BY <2>2, <2>3
<1>7. ASSUME NEW e \in Evidence, Cancel(c, e) \/ BeginDelete(c, e)
      PROVE  Dispatched
  <2>0. row' = row \/ row' = [row EXCEPT ![e].cancel = TRUE]
    BY <1>7 DEF Cancel, BeginDelete
  <2>1. ASSUME NEW f \in Evidence PROVE row'[f].st = row[f].st
    <3>1. row \in [Evidence -> Row]
      BY DEF ApiShape, StoreTypeOK
    <3>2. row'[f] = row[f] \/ row'[f] = [row[f] EXCEPT !.cancel = TRUE]
      BY <2>0, <3>1
    <3>3. [row[f] EXCEPT !.cancel = TRUE].st = row[f].st
      BY <3>1 DEF Row
    <3>. QED  BY <3>2, <3>3
  <2>2. queue' = queue
    BY <1>7 DEF Cancel, BeginDelete, pipelineVars
  <2>3. \A f \in Evidence : row'[f].st \in ACTIVE_STATUSES => row[f].st \in ACTIVE_STATUSES
    BY <2>1
  <2>. QED  BY <1>2, <2>2, <2>3
<1>8. CASE CommitDelete(c)
  <2>1. \A f \in Evidence : row'[f].st \in ACTIVE_STATUSES => row[f].st \in ACTIVE_STATUSES
    BY <1>8 DEF CommitDelete, ApiShape, StoreTypeOK, Row, ACTIVE_STATUSES
  <2>. QED  BY <1>2, <1>8, <2>1 DEF CommitDelete, pipelineVars
<1>9. CASE UNCHANGED <<row, queue>>
  BY <1>1, <1>2, <1>9
<1>10. ASSUME NEW e, BeginIngest(c, e) \/ BeginRetry(c, e) PROVE UNCHANGED <<row, queue>>
  BY <1>10 DEF BeginIngest, BeginRetry, storeVars, pipelineVars
<1>11. ASSUME NEW i, BeginApprove(c, i) \/ BeginReject(c, i) PROVE UNCHANGED <<row, queue>>
  BY <1>11 DEF BeginApprove, BeginReject, storeVars, pipelineVars
<1>12. ASSUME \/ CollectTouched(c) \/ CleanGraph(c) \/ ApproveInGraph(c)
              \/ CommitApprove(c) \/ CommitReject(c)
       PROVE  UNCHANGED <<row, queue>>
  BY <1>12 DEF CollectTouched, CleanGraph, ApproveInGraph, CommitApprove, CommitReject,
               storeVars, pipelineVars
<1>. QED  BY <1>1, <1>5, <1>6, <1>7, <1>8, <1>9, <1>10, <1>11, <1>12 DEF Request, HandlerStep

LEMMA RequestCarried ==
    ASSUME Carried, ApiShape, NEW c \in Clients, Request(c) \/ HandlerStep(c)
    PROVE  Carried'
BY RequestDispatches DEF Dispatched, Carried, Carries, Ev

\* The sweep leaves no row active.
LEMMA RestartCarried ==
    ASSUME StoreTypeOK, Restart
    PROVE  Carried'
<1>1. \A e \in Evidence : row'[e].st \notin ACTIVE_STATUSES
  BY DEF Restart, Swept, StoreTypeOK, Row, ACTIVE_STATUSES
<1>. QED  BY <1>1 DEF Carried

LEMMA InitCarried == Init => Carried
BY DEF Init, StoreInit, Carried, ACTIVE_STATUSES

LEMMA NextCarried == Shape /\ Carried /\ [Next]_vars => Carried'
<1>. SUFFICES ASSUME Shape, Carried, [Next]_vars PROVE Carried'
  OBVIOUS
<1>0. ApiShape /\ RunsOK
  BY DEF Shape, ApiShape, TypeOK, PipelineTypeOK
<1>1. ASSUME NEW t \in Threads, PoolStep(t) PROVE Carried'
  BY <1>0, <1>1, RunStepCarried, StartRunCarried DEF PoolStep, ApiShape
<1>2. ASSUME NEW c \in Clients, Request(c) \/ HandlerStep(c) PROVE Carried'
  BY <1>0, <1>2, RequestCarried
<1>3. CASE Restart
  BY <1>0, <1>3, RestartCarried DEF ApiShape
<1>4. CASE UNCHANGED vars
  BY <1>4 DEF vars, storeVars, pipelineVars, Carried, Carries, Queued, Ev
<1>. QED  BY <1>1, <1>2, <1>3, <1>4 DEF Next

\* However many workers, requests, retries, deletes, graph failures and
\* restarts there are, and in whatever order they take their steps, no evidence
\* is left with an active status and without a run that is queued or under way.
THEOREM NoneStrandedInvariant == Spec => []NoneStranded
<1>1. Spec => []Carried
  BY InitCarried, NextCarried, ShapeInvariant, PTL DEF Spec
<1>. QED  BY <1>1, CarriedImpliesNoneStranded, PTL

-----------------------------------------------------------------------------
(* One run of an evidence                                                  *)

\* The status that a stage starts from.
Before(pc) ==
    CASE pc \in {"parse", "parsing"}                   -> "uploaded"
      [] pc \in {"extract", "extracting"}              -> "parsed"
      [] pc \in {"resolve", "matching", "resolving"}   -> "extracted"
      [] pc \in {"write", "connecting", "projecting"}  -> "resolved"
      [] pc \in {"enrich", "inferring", "enriching"}   -> "written"

\* The row of a run is as its stage needs it and as it has loaded it, unless
\* it was deleted.
OnCourse(t) ==
    ~At(t, "idle") =>
        /\ row[Ev(t)].st \in {Before(thread[t].pc), "deleted"}
        /\ thread[t].pc \in InStage => thread[t].seen = Before(thread[t].pc)

WaitsUploaded(e) == Queued(e) => row[e].st \in {"uploaded", "deleted"}

RunsOnce ==
    /\ \A t, u \in Threads : Ev(t) = Ev(u) /\ Ev(t) \in Evidence => t = u
    /\ \A e \in Evidence : Queued(e) => \A t \in Threads : Ev(t) # e
    /\ \A m, n \in 1..Len(queue) : queue[m] = queue[n] => m = n

\* What a request has read of the status still holds, but for a delete.
StillSo(c) ==
    LET st == row[client[c].ev].st
    IN  /\ Asks(c, "ingesting") => st = "none"
        /\ Asks(c, "retrying") => st \in {"failed", "cancelled", "deleted"}
        /\ client[c].op \in {"deleting", "scrubbing"} => st # "none"

IngestsAlone ==
    \A c, d \in Clients :
        Asks(c, "ingesting") /\ Asks(d, "ingesting") /\ client[c].ev = client[d].ev => c = d

RunsInv ==
    /\ \A t \in Threads : OnCourse(t)
    /\ \A e \in Evidence : WaitsUploaded(e)
    /\ RunsOnce
    /\ \A c \in Clients : StillSo(c)
    /\ IngestsAlone

-----------------------------------------------------------------------------
(* What a step of a run that is on course does to its row                  *)

Advances == {<<"uploaded", "parsed">>, <<"parsed", "extracted">>, <<"extracted", "resolved">>,
             <<"resolved", "written">>, <<"written", "enriched">>}

\* From one status to the next, to an end, or not at all.
Progresses(e) ==
    \/ row'[e].st = row[e].st
    \/ <<row[e].st, row'[e].st>> \in Advances
    \/ row[e].st \in ACTIVE_STATUSES /\ row'[e].st \in {"failed", "cancelled"}

Proceeds(t) ==
    /\ queue' = queue
    /\ \A f \in Evidence : f # Ev(t) => row'[f] = row[f]
    /\ row'[Ev(t)].cancel = row[Ev(t)].cancel
    /\ \A u \in Threads : u # t => thread'[u] = thread[u]
    /\ Progresses(Ev(t))
    /\ \/ At(t, "idle")' /\ Ev(t)' = NoEvidence
       \/ OnCourse(t)' /\ Ev(t)' = Ev(t)

LEMMA BeforeIsActive ==
    ASSUME NEW pc \in Boundaries \cup InStage
    PROVE  Before(pc) \in ACTIVE_STATUSES
BY DEF Before, Boundaries, InStage, ACTIVE_STATUSES

LEMMA FinishIdles ==
    ASSUME RunsOK, NEW t \in Threads, Finish(t)
    PROVE  /\ At(t, "idle")' /\ Ev(t)' = NoEvidence
           /\ \A u \in Threads : u # t => thread'[u] = thread[u]
BY DEF RunsOK, Finish, At, Ev, Idle

\* A run that ends writes its end over an active status or finds no row.
LEMMA EndProceeds ==
    ASSUME StoreTypeOK, RunsOK, NEW t \in Threads, ~At(t, "idle"), OnCourse(t),
           NEW st \in TERMINAL_STATUSES, st = "enriched" => Before(thread[t].pc) = "written",
           row' = Marked(Ev(t), st), Finish(t), queue' = queue
    PROVE  Proceeds(t)
<1>1. Ev(t) \in Evidence
  BY WorksOnEvidence
<1>2. row[Ev(t)].st \in {Before(thread[t].pc), "deleted"}
  BY DEF OnCourse
<1>3. Before(thread[t].pc) \in ACTIVE_STATUSES
  BY BeforeIsActive DEF RunsOK, RunState, At
<1>4. /\ \A f \in Evidence : f # Ev(t) => row'[f] = row[f]
      /\ row'[Ev(t)].cancel = row[Ev(t)].cancel
  BY <1>1 DEF Marked, StoreTypeOK, Row
<1>5. CASE row[Ev(t)].st = "deleted"
  <2>1. row' = row
    BY <1>5 DEF Marked, Exists, ACTIVE_STATUSES, TERMINAL_STATUSES
  <2>. QED  BY <1>4, <2>1, FinishIdles DEF Proceeds, Progresses
<1>6. CASE row[Ev(t)].st = Before(thread[t].pc)
  <2>1. row'[Ev(t)].st = st
    BY <1>1, <1>3, <1>6 DEF Marked, Exists, StoreTypeOK, Row
  <2>2. Progresses(Ev(t))
    BY <1>3, <1>6, <2>1 DEF Progresses, Advances, TERMINAL_STATUSES
  <2>. QED  BY <1>4, <2>2, FinishIdles DEF Proceeds
<1>. QED  BY <1>2, <1>5, <1>6

\* A run that loads its row for a stage finds it as the stage needs it.
LEMMA LoadProceeds ==
    ASSUME StoreTypeOK, RunsOK, NEW t \in Threads, OnCourse(t),
           NEW stage \in Boundaries, NEW pc \in InStage, Before(pc) = Before(stage),
           NEW ids, Load(t, stage, pc, ids), row' = row, queue' = queue
    PROVE  Proceeds(t)
<1>1. row[Ev(t)].st = Before(stage)
  BY DEF Load, At, OnCourse, MustStop, Exists, Boundaries, ACTIVE_STATUSES, TERMINAL_STATUSES
<1>2. /\ thread'[t].pc = pc /\ thread'[t].seen = row[Ev(t)].st /\ Ev(t)' = Ev(t)
      /\ \A u \in Threads : u # t => thread'[u] = thread[u]
  BY DEF Load, RunsOK, RunState, Ev
<1>3. OnCourse(t)'
  BY <1>1, <1>2 DEF OnCourse
<1>. QED  BY <1>2, <1>3 DEF Proceeds, Progresses

\* A run goes on inside its stage.
LEMMA StayProceeds ==
    ASSUME RunsOK, NEW t \in Threads, OnCourse(t), thread[t].pc \in InStage,
           NEW pc \in InStage, Before(pc) = Before(thread[t].pc),
           thread'[t].pc = pc, thread'[t].seen = thread[t].seen, thread'[t].ev = Ev(t),
           \A u \in Threads : u # t => thread'[u] = thread[u],
           row' = row, queue' = queue
    PROVE  Proceeds(t)
<1>1. OnCourse(t)'
  BY DEF OnCourse, At, Ev, InStage
<1>. QED  BY <1>1 DEF Proceeds, Progresses, Ev

\* The commit at the end of a stage.
LEMMA CommitProceeds ==
    ASSUME StoreTypeOK, RunsOK, NEW t \in Threads, OnCourse(t), thread[t].pc \in InStage,
           NEW pc \in Boundaries, <<Before(thread[t].pc), Before(pc)>> \in Advances,
           Exists(Ev(t)), row' = Saved(t, Before(pc)), Goto(t, pc), queue' = queue
    PROVE  Proceeds(t)
<1>1. Ev(t) \in Evidence
  BY WorksOnEvidence DEF InStage, At
<1>2. row[Ev(t)].st = Before(thread[t].pc) /\ thread[t].seen = Before(thread[t].pc)
  BY DEF OnCourse, At, InStage, Exists, ACTIVE_STATUSES, TERMINAL_STATUSES
<1>3. Before(thread[t].pc) # Before(pc)
  BY DEF Advances
<1>4. /\ row'[Ev(t)].st = Before(pc) /\ row'[Ev(t)].cancel = row[Ev(t)].cancel
      /\ \A f \in Evidence : f # Ev(t) => row'[f] = row[f]
  BY <1>1, <1>2, <1>3 DEF Saved, StoreTypeOK, Row
<1>5. /\ thread'[t].pc = pc /\ Ev(t)' = Ev(t)
      /\ \A u \in Threads : u # t => thread'[u] = thread[u]
  BY DEF Goto, RunsOK, RunState, Ev
<1>6. OnCourse(t)'
  BY <1>4, <1>5 DEF OnCourse, Boundaries, InStage
<1>7. Progresses(Ev(t))
  BY <1>2, <1>4 DEF Progresses
<1>. QED  BY <1>4, <1>5, <1>6, <1>7 DEF Proceeds

LEMMA EarlyProceeds ==
    ASSUME StoreTypeOK, RunsOK, NEW t \in Threads, OnCourse(t),
           \/ Stop(t) \/ LoadText(t) \/ FinishText(t) \/ TextFails(t)
           \/ ClearFacts(t) \/ MatchMentions(t) \/ Resolve(t) \/ ResolveFails(t)
    PROVE  Proceeds(t)
<1>1. CASE Stop(t)
  BY <1>1, EndProceeds DEF Stop, At, Boundaries, TERMINAL_STATUSES
<1>2. CASE LoadText(t)
  BY <1>2, LoadProceeds DEF LoadText, storeVars, Boundaries, InStage, Before
<1>3. CASE FinishText(t)
  <2>1. CASE At(t, "parsing") /\ row' = Saved(t, "parsed") /\ Goto(t, "extract")
    BY <1>3, <2>1, CommitProceeds DEF FinishText, At, Boundaries, InStage, Before, Advances
  <2>2. CASE At(t, "extracting") /\ row' = Saved(t, "extracted") /\ Goto(t, "resolve")
    BY <1>3, <2>2, CommitProceeds DEF FinishText, At, Boundaries, InStage, Before, Advances
  <2>. QED  BY <1>3, <2>1, <2>2 DEF FinishText
<1>4. CASE TextFails(t) \/ ResolveFails(t)
  BY <1>4, EndProceeds DEF TextFails, ResolveFails, FailWith, At, TERMINAL_STATUSES
<1>5. CASE ClearFacts(t)
  BY <1>5, LoadProceeds DEF ClearFacts, Boundaries, InStage, Before
<1>6. CASE MatchMentions(t)
  <2>1. PICK res : thread' = [thread EXCEPT ![t].pc = "resolving", ![t].res = res]
    BY <1>6 DEF MatchMentions
  <2>2. /\ thread'[t].pc = "resolving" /\ thread'[t].seen = thread[t].seen
        /\ thread'[t].ev = Ev(t)
        /\ \A u \in Threads : u # t => thread'[u] = thread[u]
    BY <2>1 DEF RunsOK, RunState, Ev
  <2>. QED  BY <1>6, <2>2, StayProceeds DEF MatchMentions, At, InStage, Before, storeVars
<1>7. CASE Resolve(t)
  BY <1>7, CommitProceeds DEF Resolve, At, Boundaries, InStage, Before, Advances
<1>. QED  BY <1>1, <1>2, <1>3, <1>4, <1>5, <1>6, <1>7

LEMMA LateProceeds ==
    ASSUME StoreTypeOK, RunsOK, NEW t \in Threads, OnCourse(t),
           \/ LoadWrite(t) \/ ReadAccepted(t) \/ ConnectFails(t) \/ Project(t) \/ ProjectFails(t)
           \/ SkipEnrich(t) \/ LoadEnrich(t) \/ Infer(t) \/ Enrich(t) \/ EnrichFails(t)
    PROVE  Proceeds(t)
<1>1. CASE LoadWrite(t) \/ LoadEnrich(t)
  BY <1>1, LoadProceeds DEF LoadWrite, LoadEnrich, storeVars, Boundaries, InStage, Before
<1>2. CASE ReadAccepted(t)
  <2>1. PICK ids : thread' = [thread EXCEPT ![t].pc = "projecting", ![t].ids = ids]
    BY <1>2 DEF ReadAccepted
  <2>2. /\ thread'[t].pc = "projecting" /\ thread'[t].seen = thread[t].seen
        /\ thread'[t].ev = Ev(t)
        /\ \A u \in Threads : u # t => thread'[u] = thread[u]
    BY <2>1 DEF RunsOK, RunState, Ev
  <2>. QED  BY <1>2, <2>2, StayProceeds DEF ReadAccepted, At, InStage, Before
<1>3. CASE ConnectFails(t) \/ ProjectFails(t)
  BY <1>3, EndProceeds DEF ConnectFails, ProjectFails, FailWith, At, TERMINAL_STATUSES
<1>4. CASE Project(t)
  <2>1. CASE \E g : FailWith(t, g)
    BY <1>4, <2>1, EndProceeds DEF Project, FailWith, At, TERMINAL_STATUSES
  <2>2. CASE Exists(Ev(t)) /\ row' = Saved(t, "written") /\ Goto(t, "enrich") /\ queue' = queue
    BY <1>4, <2>2, CommitProceeds DEF Project, At, Boundaries, InStage, Before, Advances
  <2>. QED  BY <1>4, <2>1, <2>2 DEF Project
<1>5. CASE SkipEnrich(t) \/ EnrichFails(t)
  BY <1>5, EndProceeds DEF SkipEnrich, EnrichFails, At, TERMINAL_STATUSES, Before
<1>6. CASE Infer(t)
  <2>1. /\ thread'[t].pc = "enriching" /\ thread'[t].seen = thread[t].seen
        /\ thread'[t].ev = Ev(t)
        /\ \A u \in Threads : u # t => thread'[u] = thread[u]
    BY <1>6 DEF Infer, Goto, RunsOK, RunState, Ev
  <2>. QED  BY <1>6, <2>1, StayProceeds DEF Infer, At, InStage, Before
<1>7. CASE Enrich(t)
  <2>1. /\ At(t, "enriching") /\ Finish(t) /\ queue' = queue
        /\ row' = IF Exists(Ev(t)) THEN Saved(t, "enriched") ELSE row
    BY <1>7 DEF Enrich
  <2>2. thread[t].seen = "written"
    BY <2>1 DEF OnCourse, At, InStage, Before
  <2>3. row' = Marked(Ev(t), "enriched")
    BY <2>1, <2>2 DEF Saved, Marked
  <2>. QED  BY <2>1, <2>3, EndProceeds DEF At, TERMINAL_STATUSES, Before
<1>. QED  BY <1>1, <1>2, <1>3, <1>4, <1>5, <1>6, <1>7

LEMMA RunStepProceeds ==
    ASSUME StoreTypeOK, RunsOK, NEW t \in Threads, OnCourse(t), RunStep(t)
    PROVE  Proceeds(t)
BY EarlyProceeds, LateProceeds DEF RunStep

-----------------------------------------------------------------------------
(* The invariant, step by step                                             *)

LEMMA RunStepKeepsRuns ==
    ASSUME Shape, RunsInv, NEW t \in Threads, RunStep(t), client' = client
    PROVE  RunsInv'
<1>0. StoreTypeOK /\ RunsOK
  BY DEF Shape, TypeOK
<1>1. Proceeds(t) /\ ~At(t, "idle")
  BY <1>0, RunStepProceeds
     DEF RunsInv, RunStep, Stop, LoadText, FinishText, TextFails, ClearFacts, MatchMentions,
         Resolve, ResolveFails, LoadWrite, ReadAccepted, ConnectFails, Project, ProjectFails,
         SkipEnrich, LoadEnrich, Infer, Enrich, EnrichFails, Load, At, Boundaries
<1>2. Ev(t) \in Evidence
  BY <1>0, <1>1, WorksOnEvidence
<1>3. row[Ev(t)].st \in ACTIVE_STATUSES \cup {"deleted"}
  BY <1>0, <1>1, BeforeIsActive DEF RunsInv, OnCourse, RunsOK, RunState, At
<1>4. ASSUME NEW u \in Threads PROVE OnCourse(u)'
  <2>1. CASE u = t
    BY <1>1, <2>1 DEF Proceeds, OnCourse
  <2>2. CASE u # t /\ ~At(u, "idle")
    <3>1. Ev(u) \in Evidence /\ Ev(u) # Ev(t)
      BY <1>0, <1>2, <2>2, WorksOnEvidence DEF RunsInv, RunsOnce
    <3>. QED  BY <1>1, <2>2, <3>1 DEF Proceeds, RunsInv, OnCourse, Ev, At
  <2>3. CASE u # t /\ At(u, "idle")
    BY <1>1, <2>3 DEF Proceeds, OnCourse, At
  <2>. QED  BY <2>1, <2>2, <2>3
<1>5. ASSUME NEW e \in Evidence PROVE WaitsUploaded(e)'
  BY <1>1, <1>5 DEF RunsInv, RunsOnce, WaitsUploaded, Queued, Proceeds
<1>6. RunsOnce'
  <2>1. \A u \in Threads : Ev(u)' = Ev(u) \/ Ev(u)' = NoEvidence
    BY <1>1 DEF Proceeds, Ev
  <2>. QED  BY <1>1, <2>1, NoEvidenceAssumption DEF RunsInv, RunsOnce, Queued, Proceeds
<1>7. ASSUME NEW c \in Clients PROVE StillSo(c)'
  <2>1. CASE client[c].op \in {"ingesting", "retrying", "deleting", "scrubbing"}
    <3>1. client[c].ev \in Evidence
      BY <2>1 DEF Shape, RequestsOK, Named, EvidenceOps
    <3>2. CASE client[c].ev # Ev(t)
      BY <1>1, <3>1, <3>2 DEF RunsInv, StillSo, Asks, Proceeds
    <3>3. CASE client[c].ev = Ev(t)
      BY <1>1, <1>3, <3>3
         DEF RunsInv, StillSo, Asks, Proceeds, Progresses, Advances, ACTIVE_STATUSES
    <3>. QED  BY <3>2, <3>3
  <2>. QED  BY <2>1 DEF StillSo, Asks
<1>8. IngestsAlone'
  BY DEF RunsInv, IngestsAlone, Asks
<1>. QED  BY <1>4, <1>5, <1>6, <1>7, <1>8 DEF RunsInv

LEMMA StartRunKeepsRuns ==
    ASSUME Shape, RunsInv, NEW t \in Threads, StartRun(t), client' = client
    PROVE  RunsInv'
<1>0. RunsOK /\ queue \in Seq(Evidence)
  BY DEF Shape, TypeOK, PipelineTypeOK
<1>. DEFINE h == Head(queue)
<1>1. /\ At(t, "idle") /\ queue # <<>> /\ queue' = Tail(queue) /\ row' = row
      /\ thread' = [thread EXCEPT ![t] = [Idle EXCEPT !.pc = "parse", !.ev = h]]
  BY DEF StartRun, storeVars
<1>2. /\ Len(queue) \in Nat /\ Len(queue) # 0 /\ h = queue[1] /\ h \in Evidence
      /\ Len(queue') = Len(queue) - 1
      /\ \A n \in 1..Len(queue') : queue'[n] = queue[n + 1]
  BY <1>0, <1>1, LenProperties, HeadTailProperties, EmptySeq
<1>3. Queued(h)
  BY <1>2 DEF Queued
<1>4. \A e : Queued(e)' => Queued(e) /\ e # h
  <2>. SUFFICES ASSUME NEW n \in 1..Len(queue') PROVE Queued(queue'[n]) /\ queue'[n] # h
    BY DEF Queued
  <2>1. n + 1 \in 1..Len(queue) /\ 1 \in 1..Len(queue) /\ n + 1 # 1 /\ queue'[n] = queue[n + 1]
    BY <1>2
  <2>2. queue[n + 1] # queue[1]
    BY <2>1 DEF RunsInv, RunsOnce
  <2>. QED  BY <1>2, <2>1, <2>2 DEF Queued
<1>5. /\ thread'[t].pc = "parse" /\ thread'[t].ev = h
      /\ \A u \in Threads : u # t => thread'[u] = thread[u]
  BY <1>0, <1>1 DEF RunsOK, Idle
<1>. HIDE DEF h
<1>6. ASSUME NEW u \in Threads PROVE OnCourse(u)'
  <2>1. CASE u = t
    BY <1>1, <1>2, <1>3, <1>5, <2>1 DEF RunsInv, WaitsUploaded, OnCourse, At, Ev, Before, InStage
  <2>2. CASE u # t
    BY <1>1, <1>5, <2>2 DEF RunsInv, OnCourse, At, Ev
  <2>. QED  BY <2>1, <2>2
<1>7. \A e \in Evidence : WaitsUploaded(e)'
  BY <1>1, <1>4 DEF RunsInv, WaitsUploaded
<1>8. RunsOnce'
  <2>1. ASSUME NEW u \in Threads, NEW v \in Threads, Ev(u)' = Ev(v)', Ev(u)' \in Evidence
        PROVE  u = v
    BY <1>2, <1>3, <1>5, <2>1 DEF RunsInv, RunsOnce, Ev
  <2>2. ASSUME NEW e \in Evidence, Queued(e)', NEW u \in Threads PROVE Ev(u)' # e
    BY <1>4, <1>5, <2>2 DEF RunsInv, RunsOnce, Ev
  <2>3. ASSUME NEW m \in 1..Len(queue'), NEW n \in 1..Len(queue'), queue'[m] = queue'[n]
        PROVE  m = n
    <3>1. m + 1 \in 1..Len(queue) /\ n + 1 \in 1..Len(queue) /\ queue[m + 1] = queue[n + 1]
      BY <1>2, <2>3
    <3>2. m + 1 = n + 1
      BY <3>1 DEF RunsInv, RunsOnce
    <3>. QED  BY <3>2
  <2>. QED  BY <2>1, <2>2, <2>3 DEF RunsOnce
<1>9. (\A c \in Clients : StillSo(c))' /\ IngestsAlone'
  BY <1>1 DEF RunsInv, StillSo, IngestsAlone, Asks
<1>. QED  BY <1>6, <1>7, <1>8, <1>9 DEF RunsInv

\* A request that changes no status only has to be right in what it read.
LEMMA ReadKeepsRuns ==
    ASSUME Shape, RunsInv, NEW c \in Clients, thread' = thread, queue' = queue,
           \A e \in Evidence : row'[e].st = row[e].st,
           \A d \in Clients : d # c => client'[d] = client[d],
           StillSo(c)',
           Asks(c, "ingesting")' => \A d \in Clients : client[d].ev # client'[c].ev
    PROVE  RunsInv'
<1>0. RunsOK
  BY DEF Shape
<1>1. \A t \in Threads : OnCourse(t)'
  BY <1>0, WorksOnEvidence DEF RunsInv, OnCourse, At, Ev
<1>2. \A e \in Evidence : WaitsUploaded(e)'
  BY DEF RunsInv, WaitsUploaded, Queued
<1>3. RunsOnce'
  BY DEF RunsInv, RunsOnce, Queued, Ev
<1>4. ASSUME NEW d \in Clients, d # c PROVE StillSo(d)'
  <2>1. CASE client[d].op \in {"ingesting", "retrying", "deleting", "scrubbing"}
    <3>1. client[d].ev \in Evidence
      BY <2>1 DEF Shape, RequestsOK, Named, EvidenceOps
    <3>. QED  BY <1>4, <3>1 DEF RunsInv, StillSo, Asks
  <2>. QED  BY <1>4, <2>1 DEF StillSo, Asks
<1>5. IngestsAlone'
  BY DEF RunsInv, IngestsAlone, Asks
<1>. QED  BY <1>1, <1>2, <1>3, <1>4, <1>5 DEF RunsInv

\* A request that dispatches an evidence finds nothing at work on it.
LEMMA DispatchKeepsRuns ==
    ASSUME Shape, RunsInv, NEW c \in Clients, NEW e \in Evidence,
           row[e].st \in {"none", "failed", "cancelled"},
           row'[e].st = "uploaded", \A f \in Evidence : f # e => row'[f] = row[f],
           Dispatch(e), thread' = thread, Answer(c),
           \A d \in Clients : d # c /\ client[d].ev = e =>
               ~Asks(d, "ingesting") /\ ~Asks(d, "retrying")
    PROVE  RunsInv'
<1>0. RunsOK /\ queue \in Seq(Evidence) /\ client \in [Clients -> RequestState]
  BY DEF Shape, TypeOK, PipelineTypeOK, ApiTypeOK
<1>1. ~Queued(e) /\ \A t \in Threads : Ev(t) # e
  <2>1. ~Queued(e)
    BY DEF RunsInv, WaitsUploaded
  <2>2. ASSUME NEW t \in Threads, Ev(t) = e PROVE FALSE
    <3>1. ~At(t, "idle")
      BY <1>0, <2>2, NoEvidenceAssumption DEF RunsOK
    <3>2. Before(thread[t].pc) \in ACTIVE_STATUSES
      BY <1>0, <3>1, BeforeIsActive DEF RunsOK, RunState, At
    <3>. QED  BY <2>2, <3>1, <3>2 DEF RunsInv, OnCourse, ACTIVE_STATUSES
  <2>. QED  BY <2>1, <2>2
<1>2. /\ Len(queue) \in Nat /\ Len(queue') = Len(queue) + 1
      /\ \A n \in 1..Len(queue) : queue'[n] = queue[n]
      /\ queue'[Len(queue) + 1] = e
  BY <1>0, AppendProperties, LenProperties DEF Dispatch
<1>3. \A f : Queued(f)' => Queued(f) \/ f = e
  <2>. SUFFICES ASSUME NEW n \in 1..Len(queue') PROVE Queued(queue'[n]) \/ queue'[n] = e
    BY DEF Queued
  <2>1. n \in 1..Len(queue) \/ n = Len(queue) + 1
    BY <1>2
  <2>. QED  BY <1>2, <2>1 DEF Queued
<1>4. /\ client'[c] = NoRequest
      /\ \A d \in Clients : d # c => client'[d] = client[d]
  BY <1>0 DEF Answer
<1>5. \A t \in Threads : OnCourse(t)'
  BY <1>0, <1>1, WorksOnEvidence DEF RunsInv, OnCourse, At, Ev
<1>6. \A f \in Evidence : WaitsUploaded(f)'
  BY <1>3 DEF RunsInv, WaitsUploaded
<1>7. RunsOnce'
  <2>1. \A m, n \in 1..Len(queue') : queue'[m] = queue'[n] => m = n
    <3>. SUFFICES ASSUME NEW m \in 1..Len(queue'), NEW n \in 1..Len(queue'),
                         queue'[m] = queue'[n]
                  PROVE  m = n
      OBVIOUS
    <3>1. /\ m \in 1..Len(queue) \/ m = Len(queue) + 1
          /\ n \in 1..Len(queue) \/ n = Len(queue) + 1
      BY <1>2
    <3>2. \A k \in 1..Len(queue) : queue'[k] # e
      BY <1>1, <1>2 DEF Queued
    <3>3. CASE m \in 1..Len(queue) /\ n \in 1..Len(queue)
      BY <1>2, <3>3 DEF RunsInv, RunsOnce
    <3>. QED  BY <1>2, <3>1, <3>2, <3>3
  <2>2. \A f \in Evidence : Queued(f)' => \A t \in Threads : Ev(t)' # f
    BY <1>1, <1>3 DEF RunsInv, RunsOnce, Ev
  <2>. QED  BY <2>1, <2>2 DEF RunsInv, RunsOnce, Ev
<1>8. ASSUME NEW d \in Clients PROVE StillSo(d)'
  <2>1. CASE d = c
    BY <1>4, <2>1 DEF StillSo, Asks, NoRequest
  <2>2. CASE d # c /\ client[d].op \in {"ingesting", "retrying", "deleting", "scrubbing"}
    <3>1. client[d].ev \in Evidence
      BY <2>2 DEF Shape, RequestsOK, Named, EvidenceOps
    <3>. QED  BY <1>4, <2>2, <3>1 DEF RunsInv, StillSo, Asks
  <2>. QED  BY <1>4, <2>1, <2>2 DEF StillSo, Asks
<1>9. IngestsAlone'
  BY <1>4 DEF RunsInv, IngestsAlone, Asks, NoRequest
<1>. QED  BY <1>5, <1>6, <1>7, <1>8, <1>9 DEF RunsInv

\* A row that is deleted under its run, its dispatch or another request.
LEMMA DeleteKeepsRuns ==
    ASSUME Shape, RunsInv, NEW c \in Clients, CommitDelete(c)
    PROVE  RunsInv'
<1>. DEFINE e == client[c].ev
<1>0. /\ StoreTypeOK /\ RunsOK /\ client \in [Clients -> RequestState]
      /\ e \in Evidence /\ row[e].st # "none"
  BY DEF Shape, TypeOK, ApiTypeOK, RequestsOK, Named, CommitDelete, Asks, EvidenceOps, RunsInv,
         StillSo
<1>1. /\ row'[e].st = "deleted" /\ \A f \in Evidence : f # e => row'[f] = row[f]
      /\ thread' = thread /\ queue' = queue
      /\ client'[c].op = "cleaning" /\ \A d \in Clients : d # c => client'[d] = client[d]
  BY <1>0 DEF CommitDelete, StoreTypeOK, RequestState, pipelineVars
<1>. HIDE DEF e
<1>2. \A t \in Threads : OnCourse(t)'
  BY <1>0, <1>1, WorksOnEvidence DEF RunsInv, OnCourse, At, Ev
<1>3. \A f \in Evidence : WaitsUploaded(f)'
  BY <1>1 DEF RunsInv, WaitsUploaded, Queued
<1>4. RunsOnce'
  BY <1>1 DEF RunsInv, RunsOnce, Queued, Ev
<1>5. ASSUME NEW d \in Clients PROVE StillSo(d)'
  <2>1. CASE d = c
    BY <1>1, <2>1 DEF StillSo, Asks
  <2>2. CASE d # c /\ client[d].op \in {"ingesting", "retrying", "deleting", "scrubbing"}
    <3>1. client[d].ev \in Evidence
      BY <2>2 DEF Shape, RequestsOK, Named, EvidenceOps
    <3>. QED  BY <1>0, <1>1, <2>2, <3>1 DEF RunsInv, StillSo, Asks
  <2>. QED  BY <1>1, <2>1, <2>2 DEF StillSo, Asks
<1>6. IngestsAlone'
  BY <1>1 DEF RunsInv, IngestsAlone, Asks
<1>. QED  BY <1>2, <1>3, <1>4, <1>5, <1>6 DEF RunsInv

LEMMA RequestKeepsRuns ==
    ASSUME Shape, RunsInv, RetriesAlone, NEW c \in Clients, Request(c) \/ HandlerStep(c)
    PROVE  RunsInv'
<1>0. /\ StoreTypeOK /\ RunsOK /\ client \in [Clients -> RequestState]
      /\ client[c].op \in EvidenceOps => client[c].ev \in Evidence
  BY DEF Shape, TypeOK, ApiTypeOK, RequestsOK, Named
<1>1. thread' = thread
  <2>1. ApiShape
    BY DEF Shape, ApiShape, TypeOK, PipelineTypeOK
  <2>. QED  BY <2>1, IngestShape, RetryCancelShape, DeleteShape, ReviewShape DEF Request, HandlerStep
<1>2. \A d \in Clients : d # c => client'[d] = client[d]
  BY <1>0 DEF Request, HandlerStep, BeginIngest, CommitIngest, BeginRetry, CommitRetry, Cancel,
              BeginDelete, CollectTouched, CommitDelete, CleanGraph, BeginApprove,
              ApproveInGraph, CommitApprove, BeginReject, CommitReject, Answer, apiVars
<1>3. ASSUME row' = row, queue' = queue,
             client'[c].op \in {"idle", "approving", "deciding", "rejecting"}
      PROVE  RunsInv'
  BY <1>1, <1>2, <1>3, ReadKeepsRuns DEF StillSo, Asks
<1>4. ASSUME NEW e \in Evidence, BeginIngest(c, e) PROVE RunsInv'
  <2>1. /\ client'[c].op = "ingesting" /\ client'[c].ev = e /\ row[e].st = "none"
        /\ row' = row /\ queue' = queue /\ \A d \in Clients : client[d].ev # e
    BY <1>0, <1>4 DEF BeginIngest, RequestState, storeVars, pipelineVars
  <2>. QED  BY <1>1, <1>2, <2>1, ReadKeepsRuns DEF StillSo, Asks
<1>5. CASE CommitIngest(c)
  <2>1. /\ client[c].ev \in Evidence /\ row[client[c].ev].st = "none"
        /\ \A d \in Clients : d # c /\ client[d].ev = client[c].ev =>
               ~Asks(d, "ingesting") /\ ~Asks(d, "retrying")
    BY <1>0, <1>5 DEF CommitIngest, Asks, EvidenceOps, RunsInv, StillSo, IngestsAlone
  <2>2. /\ row'[client[c].ev].st = "uploaded"
        /\ \A f \in Evidence : f # client[c].ev => row'[f] = row[f]
    BY <1>0, <1>5, <2>1 DEF CommitIngest, StoreTypeOK, Row
  <2>. QED  BY <1>1, <1>5, <2>1, <2>2, DispatchKeepsRuns DEF CommitIngest
<1>6. ASSUME NEW e \in Evidence, BeginRetry(c, e) PROVE RunsInv'
  <2>1. /\ client'[c].op = "retrying" /\ client'[c].ev = e
        /\ row[e].st \in {"failed", "cancelled"} /\ row' = row /\ queue' = queue
    BY <1>0, <1>6 DEF BeginRetry, Retryable, RequestState, storeVars, pipelineVars
  <2>. QED  BY <1>1, <1>2, <2>1, ReadKeepsRuns DEF StillSo, Asks
<1>7. CASE CommitRetry(c) /\ ~Exists(client[c].ev)
  BY <1>0, <1>3, <1>7 DEF CommitRetry, Answer, NoRequest
<1>8. CASE CommitRetry(c) /\ Exists(client[c].ev)
  <2>1. /\ client[c].ev \in Evidence /\ row[client[c].ev].st \in {"failed", "cancelled"}
        /\ \A d \in Clients : d # c /\ client[d].ev = client[c].ev =>
               ~Asks(d, "ingesting") /\ ~Asks(d, "retrying")
    BY <1>0, <1>8 DEF CommitRetry, Asks, EvidenceOps, RunsInv, StillSo, RetriesAlone, Exists,
                      ACTIVE_STATUSES, TERMINAL_STATUSES
  <2>2. /\ row'[client[c].ev].st = "uploaded"
        /\ \A f \in Evidence : f # client[c].ev => row'[f] = row[f]
    BY <1>0, <1>8, <2>1 DEF CommitRetry, StoreTypeOK, Row
  <2>. QED  BY <1>1, <1>8, <2>1, <2>2, DispatchKeepsRuns DEF CommitRetry
<1>9. ASSUME NEW e \in Evidence, Cancel(c, e) PROVE RunsInv'
  <2>1. /\ client' = client /\ queue' = queue /\ Asks(c, "idle")
        /\ \A f \in Evidence : row'[f].st = row[f].st
    BY <1>0, <1>9 DEF Cancel, StoreTypeOK, Row, pipelineVars, apiVars
  <2>. QED  BY <1>1, <2>1, ReadKeepsRuns DEF StillSo, Asks
<1>10. ASSUME NEW e \in Evidence, BeginDelete(c, e) PROVE RunsInv'
  <2>1. /\ client'[c].op = "deleting" /\ client'[c].ev = e /\ queue' = queue
        /\ row[e].st # "none"
    BY <1>0, <1>10 DEF BeginDelete, RequestState, pipelineVars, Exists,
                       ACTIVE_STATUSES, TERMINAL_STATUSES
  <2>2. row' = row \/ row' = [row EXCEPT ![e].cancel = TRUE]
    BY <1>10 DEF BeginDelete
  <2>3. \A f \in Evidence : row'[f].st = row[f].st
    BY <1>0, <2>2 DEF StoreTypeOK, Row
  <2>. QED  BY <1>1, <1>2, <2>1, <2>3, ReadKeepsRuns DEF StillSo, Asks
<1>11. CASE CollectTouched(c)
  <2>1. /\ client'[c].op = "scrubbing" /\ client'[c].ev = client[c].ev
        /\ Asks(c, "deleting") /\ row' = row /\ queue' = queue
    BY <1>0, <1>11 DEF CollectTouched, RequestState, storeVars, pipelineVars
  <2>2. StillSo(c)'
    BY <2>1 DEF RunsInv, StillSo, Asks
  <2>. QED  BY <1>1, <1>2, <2>1, <2>2, ReadKeepsRuns DEF Asks
<1>12. CASE CommitDelete(c)
  BY <1>12, DeleteKeepsRuns
<1>13. CASE CleanGraph(c) \/ CommitApprove(c) \/ CommitReject(c)
  BY <1>0, <1>3, <1>13
     DEF CleanGraph, CommitApprove, CommitReject, Answer, NoRequest, pipelineVars
<1>14. CASE ApproveInGraph(c)
  BY <1>0, <1>3, <1>14 DEF ApproveInGraph, Answer, NoRequest, RequestState, pipelineVars
<1>15. ASSUME NEW i, BeginApprove(c, i) \/ BeginReject(c, i) PROVE RunsInv'
  BY <1>0, <1>3, <1>15 DEF BeginApprove, BeginReject, RequestState, storeVars, pipelineVars
<1>. QED  BY <1>4, <1>5, <1>6, <1>7, <1>8, <1>9, <1>10, <1>11, <1>12, <1>13, <1>14, <1>15
          DEF Request, HandlerStep

LEMMA RestartKeepsRuns ==
    ASSUME Restart
    PROVE  RunsInv'
<1>1. \A t \in Threads : At(t, "idle")' /\ Ev(t)' = NoEvidence
  BY DEF Restart, At, Ev, Idle
<1>2. Len(queue') = 0
  BY EmptySeq DEF Restart
<1>3. \A c \in Clients : client'[c].op = "idle"
  BY DEF Restart, NoRequest
<1>. QED  BY <1>1, <1>2, <1>3, NoEvidenceAssumption
          DEF RunsInv, OnCourse, WaitsUploaded, Queued, RunsOnce, StillSo, IngestsAlone, Asks

LEMMA InitRuns == Init => RunsInv
<1>. SUFFICES ASSUME Init PROVE RunsInv
  OBVIOUS
<1>1. \A t \in Threads : At(t, "idle") /\ Ev(t) = NoEvidence
  BY DEF Init, PipelineInit, At, Ev, Idle
<1>2. Len(queue) = 0
  BY EmptySeq DEF Init, PipelineInit
<1>3. \A c \in Clients : client[c].op = "idle"
  BY DEF Init, ApiInit, NoRequest
<1>. QED  BY <1>1, <1>2, <1>3, NoEvidenceAssumption
          DEF RunsInv, OnCourse, WaitsUploaded, Queued, RunsOnce, StillSo, IngestsAlone, Asks

LEMMA NextRuns == Shape /\ RunsInv /\ RetriesAlone /\ [Next]_vars => RunsInv'
<1>. SUFFICES ASSUME Shape, RunsInv, RetriesAlone, [Next]_vars PROVE RunsInv'
  OBVIOUS
<1>1. ASSUME NEW t \in Threads, PoolStep(t) PROVE RunsInv'
  BY <1>1, RunStepKeepsRuns, StartRunKeepsRuns DEF PoolStep, apiVars
<1>2. ASSUME NEW c \in Clients, Request(c) \/ HandlerStep(c) PROVE RunsInv'
  BY <1>2, RequestKeepsRuns
<1>3. CASE UNCHANGED vars
  BY <1>3 DEF vars, storeVars, pipelineVars, apiVars, RunsInv, OnCourse, WaitsUploaded, Queued,
              RunsOnce, StillSo, IngestsAlone, Asks, At, Ev
<1>. QED  BY <1>1, <1>2, <1>3, RestartKeepsRuns DEF Next

\* Runs, rows and requests fit together as long as retries do not overlap.
THEOREM RunsInvariant == Spec /\ []RetriesAlone => []RunsInv
BY InitRuns, NextRuns, ShapeInvariant, PTL DEF Spec

\* Nothing is at work on an evidence that has ended.
LEMMA EndedIsFinished == Shape /\ RunsInv => TerminalIsFinished
<1>. SUFFICES ASSUME Shape, RunsInv, NEW e \in Evidence, row[e].st \in TERMINAL_STATUSES
              PROVE  ~InFlight(e)
  BY DEF TerminalIsFinished
<1>1. ~Queued(e)
  BY DEF RunsInv, WaitsUploaded, TERMINAL_STATUSES
<1>2. ASSUME NEW t \in Threads, Ev(t) = e PROVE FALSE
  <2>1. ~At(t, "idle") /\ Before(thread[t].pc) \in ACTIVE_STATUSES
    BY <1>2, NoEvidenceAssumption, BeforeIsActive DEF Shape, RunsOK, RunState, At
  <2>. QED  BY <1>2, <2>1 DEF RunsInv, OnCourse, ACTIVE_STATUSES, TERMINAL_STATUSES
<1>. QED  BY <1>1, <1>2 DEF InFlight

\* OneRunUntilOver for every instance in which no two retries of an evidence
\* overlap: one run of it, queued or under way, from its dispatch to its end,
\* whatever else requests, deletes, failures and restarts do to it.
THEOREM OneRun == Spec /\ []RetriesAlone => []OneRunUntilOver
<1>1. Shape /\ RunsInv => OneRunUntilOver
  <2>. SUFFICES ASSUME Shape, RunsInv, NEW e \in Evidence
                PROVE  /\ Cardinality({t \in Threads : Ev(t) = e})
                              + Cardinality({n \in 1..Len(queue) : queue[n] = e}) <= 1
                       /\ row[e].st \in TERMINAL_STATUSES => ~InFlight(e)
    BY DEF OneRunUntilOver, OneRunAtATime, TerminalIsFinished
  <2>. DEFINE runs == {t \in Threads : Ev(t) = e}
              waits == {n \in 1..Len(queue) : queue[n] = e}
  <2>1. \A t, u \in runs : t = u
    BY DEF RunsInv, RunsOnce
  <2>2. \A m, n \in waits : m = n
    BY DEF RunsInv, RunsOnce
  <2>3. waits = {} \/ runs = {}
    BY DEF RunsInv, RunsOnce, Queued
  <2>. HIDE DEF runs, waits
  <2>4. /\ Cardinality(runs) \in {0, 1} /\ (runs = {} => Cardinality(runs) = 0)
        /\ Cardinality(waits) \in {0, 1} /\ (waits = {} => Cardinality(waits) = 0)
    BY <2>1, <2>2, OneElement
  <2>5. Cardinality(runs) + Cardinality(waits) <= 1
    BY <2>3, <2>4
  <2>6. row[e].st \in TERMINAL_STATUSES => ~InFlight(e)
    BY EndedIsFinished DEF TerminalIsFinished
  <2>. QED  BY <2>5, <2>6 DEF runs, waits
<1>. QED  BY <1>1, RunsInvariant, ShapeInvariant, PTL

-----------------------------------------------------------------------------
(* Stops                                                                   *)

\* A run that was asked to stop before the last stage is not enriched.
LEMMA StopsAtEnrich ==
    ASSUME NEW t \in Threads, At(t, "enrich"), MustStop(Ev(t)), RunStep(t)
    PROVE  Stop(t)
BY DEF RunStep, LoadText, FinishText, TextFails, ClearFacts, MatchMentions, Resolve,
       ResolveFails, LoadWrite, ReadAccepted, ConnectFails, Project, ProjectFails, SkipEnrich,
       LoadEnrich, Infer, Enrich, EnrichFails, Load, At

\* The status and the stop flag of a row after a step, and who changed them.
LEMMA NextStands ==
    ASSUME Shape, RunsInv, RetriesAlone, Next, NEW e \in Evidence,
           row[e].st \in ACTIVE_STATUSES, row[e].cancel
    PROVE  /\ row'[e].st \in ACTIVE_STATUSES => row'[e].cancel
           /\ row'[e].st = "enriched" =>
                  \E t \in Threads : Ev(t) = e /\ thread[t].pc \in {"inferring", "enriching"}
<1>0. StoreTypeOK /\ RunsOK
  BY DEF Shape, TypeOK
<1>1. CASE row'[e] = row[e]
  BY <1>1 DEF ACTIVE_STATUSES
<1>2. ASSUME NEW t \in Threads, RunStep(t)
      PROVE  /\ row'[e].st \in ACTIVE_STATUSES => row'[e].cancel
             /\ row'[e].st = "enriched" =>
                    Ev(t) = e /\ thread[t].pc \in {"inferring", "enriching"}
  <2>1. Proceeds(t)
    BY <1>0, <1>2, RunStepProceeds DEF RunsInv
  <2>2. CASE e # Ev(t)
    BY <1>1, <2>1, <2>2 DEF Proceeds, ACTIVE_STATUSES
  <2>3. CASE e = Ev(t)
    <3>1. ASSUME row'[e].st = "enriched" PROVE thread[t].pc \in {"inferring", "enriching"}
      <4>1. row[e].st = "written"
        BY <2>1, <2>3, <3>1 DEF Proceeds, Progresses, Advances, ACTIVE_STATUSES
      <4>2. ~At(t, "idle") /\ Before(thread[t].pc) = "written"
        BY <1>0, <2>3, <4>1, NoEvidenceAssumption DEF RunsInv, OnCourse, RunsOK
      <4>3. thread[t].pc \in {"enrich", "inferring", "enriching"}
        BY <1>0, <4>2 DEF RunsOK, RunState, Before, Boundaries, InStage, At
      <4>4. ASSUME At(t, "enrich") PROVE FALSE
        <5>1. MustStop(Ev(t))
          BY <2>3 DEF MustStop
        <5>2. Stop(t)
          BY <1>2, <4>4, <5>1, StopsAtEnrich
        <5>3. row'[e].st # "enriched"
          BY <1>0, <1>1, <2>3, <4>1, <5>2 DEF Stop, Marked, StoreTypeOK, Row
        <5>. QED  BY <3>1, <5>3
      <4>. QED  BY <4>3, <4>4 DEF At
    <3>. QED  BY <2>1, <2>3, <3>1 DEF Proceeds
  <2>. QED  BY <2>2, <2>3
<1>3. ASSUME NEW t \in Threads, StartRun(t) PROVE row'[e] = row[e]
  BY <1>3 DEF StartRun, storeVars
<1>4. ASSUME NEW c \in Clients, CommitIngest(c) \/ CommitRetry(c) PROVE row'[e] = row[e]
  <2>1. row' = row \/ row[client[c].ev].st \in {"none", "failed", "cancelled", "deleted"}
    BY <1>4 DEF CommitIngest, CommitRetry, Asks, RunsInv, StillSo
  <2>2. row[client[c].ev].st \in {"none", "failed", "cancelled", "deleted"} => client[c].ev # e
    BY DEF ACTIVE_STATUSES
  <2>3. row' = row \/ \A f \in Evidence : f # client[c].ev => row'[f] = row[f]
    BY <1>0, <1>4 DEF CommitIngest, CommitRetry, StoreTypeOK
  <2>. QED  BY <2>1, <2>2, <2>3
<1>5. ASSUME NEW c \in Clients, NEW f \in Evidence, Cancel(c, f) \/ BeginDelete(c, f)
      PROVE  row'[e].st = row[e].st /\ row'[e].cancel
  <2>1. row' = row \/ row' = [row EXCEPT ![f].cancel = TRUE]
    BY <1>5 DEF Cancel, BeginDelete
  <2>. QED  BY <1>0, <2>1 DEF StoreTypeOK, Row
<1>6. ASSUME NEW c \in Clients, CommitDelete(c)
      PROVE  row'[e] = row[e] \/ row'[e].st = "deleted"
  BY <1>0, <1>6 DEF CommitDelete, StoreTypeOK
<1>7. ASSUME NEW c \in Clients, Request(c) \/ HandlerStep(c)
      PROVE  /\ row'[e].st \in ACTIVE_STATUSES => row'[e].cancel
             /\ row'[e].st # "enriched"
  <2>1. CASE row' = row
    BY <2>1 DEF ACTIVE_STATUSES
  <2>. QED  BY <1>4, <1>5, <1>6, <1>7, <2>1
            DEF Request, HandlerStep, BeginIngest, BeginRetry, CollectTouched, CleanGraph,
                BeginApprove, ApproveInGraph, CommitApprove, BeginReject, CommitReject,
                storeVars, ACTIVE_STATUSES
<1>8. CASE Restart
  <2>1. row'[e].st = "failed"
    BY <1>0, <1>8 DEF Restart, Swept, StoreTypeOK, Row
  <2>. QED  BY <2>1 DEF ACTIVE_STATUSES
<1>. QED  BY <1>1, <1>2, <1>3, <1>7, <1>8 DEF Next, PoolStep

\* StopStands for every instance in which no two retries of an evidence
\* overlap: no stage, request or failure withdraws a stop while the run goes
\* on, and only a run in its last stage still ends as enriched.
THEOREM StopsAreObeyed == Spec /\ []RetriesAlone => StopStands
<1>. DEFINE Stands == \A e \in Evidence :
          row[e].st \in ACTIVE_STATUSES /\ row[e].cancel =>
              /\ row'[e].st \in ACTIVE_STATUSES => row'[e].cancel
              /\ row'[e].st = "enriched" =>
                     \E t \in Threads : Ev(t) = e /\ thread[t].pc \in {"inferring", "enriching"}
<1>1. Shape /\ RunsInv /\ RetriesAlone /\ [Next]_vars => [Stands]_vars
  BY NextStands
<1>. QED  BY <1>1, RunsInvariant, ShapeInvariant, PTL DEF Spec, StopStands

-----------------------------------------------------------------------------
(* The lifecycle                                                           *)

\* One row moves to another status.
LEMMA RowBecomes ==
    ASSUME StoreTypeOK, StoreTypeOK', NEW e \in Evidence,
           \A f \in Evidence : f # e => row'[f].st = row[f].st
    PROVE  Lifecycle!Becomes(e, row'[e].st)
BY DEF Lifecycle!Becomes

LEMMA StatusesStay ==
    ASSUME \A f \in Evidence : row'[f].st = row[f].st
    PROVE  [f \in Evidence |-> row[f].st]' = [f \in Evidence |-> row[f].st]
OBVIOUS

LEMMA ProgressIsAllowed ==
    ASSUME StoreTypeOK, StoreTypeOK', NEW e \in Evidence, Progresses(e),
           \A f \in Evidence : f # e => row'[f].st = row[f].st
    PROVE  [Lifecycle!Next]_[f \in Evidence |-> row[f].st]
<1>1. Lifecycle!Becomes(e, row'[e].st)
  BY RowBecomes
<1>2. CASE row'[e].st = row[e].st
  BY <1>2, StatusesStay
<1>3. CASE <<row[e].st, row'[e].st>> \in Advances
  <2>1. \E n \in 1..5 : row[e].st = Lifecycle!Stage[n] /\ row'[e].st = Lifecycle!Stage[n + 1]
    BY <1>3 DEF Advances, Lifecycle!Stage
  <2>2. Lifecycle!Advance(e)
    BY <1>1, <2>1 DEF Lifecycle!Advance, Lifecycle!Becomes
  <2>. QED  BY <2>2 DEF Lifecycle!Progress, Lifecycle!Next
<1>4. CASE row[e].st \in ACTIVE_STATUSES /\ row'[e].st \in {"failed", "cancelled"}
  <2>1. row[e].st \in Lifecycle!InProgress
    BY <1>4 DEF ACTIVE_STATUSES, Lifecycle!InProgress, Lifecycle!Stage
  <2>2. Lifecycle!Failed(e) \/ Lifecycle!Stopped(e)
    BY <1>1, <1>4, <2>1 DEF Lifecycle!Failed, Lifecycle!Stopped, Lifecycle!Becomes
  <2>. QED  BY <2>2 DEF Lifecycle!Progress, Lifecycle!Next
<1>. QED  BY <1>2, <1>3, <1>4 DEF Progresses

LEMMA RequestIsAllowed ==
    ASSUME Shape, Shape', RunsInv, NEW c \in Clients,
           NEW e, e = client[c].ev, Request(c) \/ HandlerStep(c)
    PROVE  [Lifecycle!Next]_[f \in Evidence |-> row[f].st]
<1>0. /\ StoreTypeOK /\ StoreTypeOK'
      /\ client[c].op \in EvidenceOps => e \in Evidence
  BY DEF Shape, TypeOK, RequestsOK, Named
<1>1. CASE \A f \in Evidence : row'[f].st = row[f].st
  BY <1>1, StatusesStay
<1>2. ASSUME NEW f \in Evidence, Cancel(c, f) \/ BeginDelete(c, f)
      PROVE  \A g \in Evidence : row'[g].st = row[g].st
  <2>1. row' = row \/ row' = [row EXCEPT ![f].cancel = TRUE]
    BY <1>2 DEF Cancel, BeginDelete
  <2>. QED  BY <1>0, <2>1 DEF StoreTypeOK, Row
<1>3. CASE CommitIngest(c)
  <2>1. e \in Evidence /\ row[e].st = "none"
    BY <1>0, <1>3 DEF CommitIngest, Asks, EvidenceOps, RunsInv, StillSo
  <2>2. row'[e].st = "uploaded" /\ \A f \in Evidence : f # e => row'[f].st = row[f].st
    BY <1>0, <1>3, <2>1 DEF CommitIngest, StoreTypeOK, Row
  <2>3. Lifecycle!Upload(e)
    BY <1>0, <2>1, <2>2, RowBecomes DEF Lifecycle!Upload, Lifecycle!Becomes
  <2>. QED  BY <2>1, <2>3 DEF Lifecycle!Next
<1>4. CASE CommitRetry(c) /\ Exists(e)
  <2>1. e \in Evidence /\ row[e].st \in {"failed", "cancelled"}
    BY <1>0, <1>4 DEF CommitRetry, Asks, EvidenceOps, RunsInv, StillSo, Exists,
                      ACTIVE_STATUSES, TERMINAL_STATUSES
  <2>2. row'[e].st = "uploaded" /\ \A f \in Evidence : f # e => row'[f].st = row[f].st
    BY <1>0, <1>4, <2>1 DEF CommitRetry, StoreTypeOK, Row
  <2>3. Lifecycle!Retried(e)
    BY <1>0, <2>1, <2>2, RowBecomes DEF Lifecycle!Retried, Lifecycle!Becomes
  <2>. QED  BY <2>1, <2>3 DEF Lifecycle!Next
<1>5. CASE CommitDelete(c)
  <2>1. e \in Evidence /\ row[e].st # "none"
    BY <1>0, <1>5 DEF CommitDelete, Asks, EvidenceOps, RunsInv, StillSo
  <2>2. row'[e].st = "deleted" /\ \A f \in Evidence : f # e => row'[f].st = row[f].st
    BY <1>0, <1>5, <2>1 DEF CommitDelete, StoreTypeOK, Row
  <2>3. CASE row[e].st = "deleted"
    BY <1>1, <2>2, <2>3
  <2>4. CASE row[e].st # "deleted"
    <3>1. row[e].st \in ACTIVE_STATUSES \cup TERMINAL_STATUSES
      BY <1>0, <2>1, <2>4 DEF StoreTypeOK, Row, Statuses
    <3>2. row[e].st \in Lifecycle!InProgress \cup Lifecycle!Over
      BY <3>1 DEF ACTIVE_STATUSES, TERMINAL_STATUSES, Lifecycle!InProgress, Lifecycle!Over,
                  Lifecycle!Stage
    <3>3. Lifecycle!Deleted(e)
      BY <1>0, <2>1, <2>2, <3>2, RowBecomes DEF Lifecycle!Deleted, Lifecycle!Becomes
    <3>. QED  BY <2>1, <3>3 DEF Lifecycle!Next
  <2>. QED  BY <2>3, <2>4
<1>6. CASE row' = row
  BY <1>1, <1>6
<1>. QED  BY <1>1, <1>2, <1>3, <1>4, <1>5, <1>6
          DEF Request, HandlerStep, BeginIngest, BeginRetry, CommitRetry, CollectTouched,
              CleanGraph, BeginApprove, ApproveInGraph, CommitApprove, BeginReject,
              CommitReject, storeVars

LEMMA NextIsAllowed ==
    Shape /\ Shape' /\ RunsInv /\ [Next]_vars
        => [Lifecycle!Next]_[e \in Evidence |-> row[e].st]
<1>. SUFFICES ASSUME Shape, Shape', RunsInv, [Next]_vars
              PROVE  [Lifecycle!Next]_[e \in Evidence |-> row[e].st]
  OBVIOUS
<1>0. StoreTypeOK /\ StoreTypeOK' /\ RunsOK
  BY DEF Shape, TypeOK
<1>1. ASSUME NEW t \in Threads, RunStep(t)
      PROVE  [Lifecycle!Next]_[e \in Evidence |-> row[e].st]
  <2>1. Proceeds(t)
    BY <1>0, <1>1, RunStepProceeds DEF RunsInv
  <2>2. CASE Ev(t) \in Evidence
    BY <1>0, <2>1, <2>2, ProgressIsAllowed DEF Proceeds
  <2>3. CASE Ev(t) \notin Evidence
    BY <2>1, <2>3, StatusesStay DEF Proceeds
  <2>. QED  BY <2>2, <2>3
<1>2. CASE row' = row
  BY <1>2, StatusesStay
<1>3. CASE Restart
  <2>1. \A e \in Evidence :
           row'[e].st = IF row[e].st \in Lifecycle!InProgress THEN "failed" ELSE row[e].st
    BY <1>0, <1>3 DEF Restart, Swept, StoreTypeOK, Row, ACTIVE_STATUSES,
                      Lifecycle!InProgress, Lifecycle!Stage
  <2>2. Lifecycle!Interrupted
    BY <2>1 DEF Lifecycle!Interrupted
  <2>. QED  BY <2>2 DEF Lifecycle!Next
<1>. QED  BY <1>1, <1>2, <1>3, RequestIsAllowed DEF Next, PoolStep, StartRun, storeVars, vars

\* What the status column does is what the lifecycle allows, for every instance
\* in which no two retries of an evidence overlap: stages in order, ends that
\* only a retry or a delete leaves.  That an end is reached is left to TLC.
THEOREM StatusIsLifecycle == Spec /\ []RetriesAlone => Lifecycle!Steps
<1>1. Init => Lifecycle!Init
  BY DEF Init, StoreInit, Lifecycle!Init
<1>2. Spec /\ []RetriesAlone => [][Lifecycle!Next]_[e \in Evidence |-> row[e].st]
  BY NextIsAllowed, RunsInvariant, ShapeInvariant, PTL DEF Spec
<1>3. Spec => Init
  BY DEF Spec
<1>. QED  BY <1>1, <1>2, <1>3, PTL DEF Lifecycle!Steps

-----------------------------------------------------------------------------
(* INGEST_MODE=celery: types                                               *)

BrokerOK ==
    /\ msgs \in [Task -> Nat]
    /\ held \in [Threads -> Task \cup {NoTask}]
    /\ redelivered \in Nat
    /\ lost \in Seq(Evidence)
    /\ apiRestarts \in Nat

\* A worker whose process is busy has the message of its task.
HeldByWorker == \A t \in Threads : Ev(t) \in Evidence => held[t].ev = Ev(t)

CeleryShape == Shape /\ BrokerOK /\ HeldByWorker

\* A process goes on with its evidence or is done.
LEMMA RunStepKeepsEv ==
    ASSUME RunsOK, NEW t \in Threads, RunStep(t), NEW u \in Threads
    PROVE  Ev(u)' = Ev(u) \/ Ev(u)' = NoEvidence
<1>1. CASE Finish(t)
  BY <1>1 DEF Finish, RunsOK, Ev, Idle
<1>2. CASE \E pc : Goto(t, pc)
  BY <1>2 DEF Goto, RunsOK, RunState, Ev
<1>3. CASE \E stage, pc, ids : Load(t, stage, pc, ids)
  BY <1>3 DEF Load, RunsOK, RunState, Ev
<1>4. CASE MatchMentions(t)
  <2>1. PICK res : thread' = [thread EXCEPT ![t].pc = "resolving", ![t].res = res]
    BY <1>4 DEF MatchMentions
  <2>. QED  BY <2>1 DEF RunsOK, RunState, Ev
<1>5. CASE ReadAccepted(t)
  <2>1. PICK ids : thread' = [thread EXCEPT ![t].pc = "projecting", ![t].ids = ids]
    BY <1>5 DEF ReadAccepted
  <2>. QED  BY <2>1 DEF RunsOK, RunState, Ev
<1>6. CASE Stop(t) \/ TextFails(t) \/ ResolveFails(t) \/ ConnectFails(t) \/ ProjectFails(t)
           \/ SkipEnrich(t) \/ Enrich(t) \/ EnrichFails(t)
  BY <1>1, <1>6 DEF Stop, TextFails, ResolveFails, ConnectFails, ProjectFails, SkipEnrich,
                    Enrich, EnrichFails, FailWith
<1>7. CASE LoadText(t) \/ ClearFacts(t) \/ LoadWrite(t) \/ LoadEnrich(t)
  BY <1>3, <1>7 DEF LoadText, ClearFacts, LoadWrite, LoadEnrich
<1>8. CASE FinishText(t) \/ Resolve(t) \/ Infer(t)
  BY <1>2, <1>8 DEF FinishText, Resolve, Infer
<1>9. CASE Project(t)
  BY <1>1, <1>2, <1>9 DEF Project, FailWith
<1>. QED  BY <1>4, <1>5, <1>6, <1>7, <1>8, <1>9 DEF RunStep

\* What a process is given to do is a task.
LEMMA BeginShape ==
    ASSUME RunsOK, held \in [Threads -> Task \cup {NoTask}], HeldByWorker,
           NEW t \in Threads, NEW m \in Task, Begin(t, m)
    PROVE  RunsOK' /\ held' \in [Threads -> Task \cup {NoTask}] /\ HeldByWorker'
<1>. DEFINE r == [Idle EXCEPT !.pc = m.stage, !.ev = m.ev]
<1>1. m.ev \in Evidence /\ m.stage \in Boundaries
  BY DEF Task
<1>2. r.pc = m.stage /\ r.ev = m.ev /\ r \in RunState
  BY <1>1, IdleType DEF Idle, RunState
<1>3. thread' = [thread EXCEPT ![t] = r] /\ held' = [held EXCEPT ![t] = m]
  BY DEF Begin
<1>. HIDE DEF r
<1>4. RunsOK'
  BY <1>1, <1>2, <1>3, NoEvidenceAssumption DEF RunsOK, Ev, At, Boundaries
<1>5. HeldByWorker'
  BY <1>2, <1>3 DEF HeldByWorker, RunsOK, Ev
<1>. QED  BY <1>3, <1>4, <1>5

LEMMA SendType ==
    ASSUME msgs \in [Task -> Nat], NEW m \in Task, Send(m)
    PROVE  msgs' \in [Task -> Nat] /\ msgs'[m] > 0 /\ \A n \in Task : msgs'[n] >= msgs[n]
BY DEF Send

\* A process that ends, and a message that is given back.
LEMMA IdleShape ==
    ASSUME RunsOK, BrokerOK, HeldByWorker, NEW t \in Threads, Finish(t),
           held' = held \/ held' = [held EXCEPT ![t] = NoTask]
    PROVE  RunsOK' /\ held' \in [Threads -> Task \cup {NoTask}] /\ HeldByWorker'
<1>1. RunsOK'
  BY FinishRuns
<1>2. Ev(t)' = NoEvidence /\ \A u \in Threads : u # t => thread'[u] = thread[u]
  BY FinishIdles
<1>3. held' \in [Threads -> Task \cup {NoTask}] /\ \A u \in Threads : u # t => held'[u] = held[u]
  BY DEF BrokerOK
<1>4. HeldByWorker'
  BY <1>2, <1>3, NoEvidenceAssumption DEF HeldByWorker, Ev
<1>. QED  BY <1>1, <1>3, <1>4

LEMMA WorkerShape ==
    ASSUME CeleryShape, NEW t \in Threads, WorkerStep(t) \/ Redeliver(t) \/ LoseProcess(t)
    PROVE  CeleryShape'
<1>0. /\ StoreTypeOK /\ RunsOK /\ queue \in Seq(Evidence) /\ ApiTypeOK /\ RequestsOK
      /\ BrokerOK /\ HeldByWorker
  BY DEF CeleryShape, Shape, TypeOK, PipelineTypeOK
<1>1. UNCHANGED apiVars
  BY DEF WorkerStep, TakeSubmitted, TakeSent, TaskStep, SendNext, Acknowledge, Redeliver,
         LoseProcess, vars
<1>2. ApiTypeOK' /\ RequestsOK'
  BY <1>0, <1>1 DEF apiVars, ApiTypeOK, RequestsOK
<1>3. ASSUME StoreTypeOK', RunsOK', queue' \in Seq(Evidence), BrokerOK', HeldByWorker'
      PROVE  CeleryShape'
  BY <1>2, <1>3 DEF CeleryShape, Shape, TypeOK, PipelineTypeOK, RunsOK
<1>4. CASE TakeSubmitted(t)
  <2>1. Head(queue) \in Evidence /\ queue' \in Seq(Evidence)
    BY <1>0, <1>4, HeadTailProperties DEF TakeSubmitted
  <2>2. [ev |-> Head(queue), stage |-> "parse"] \in Task
    BY <2>1 DEF Task, Boundaries
  <2>3. RunsOK' /\ held' \in [Threads -> Task \cup {NoTask}] /\ HeldByWorker'
    BY <1>0, <1>4, <2>2, BeginShape DEF TakeSubmitted, BrokerOK
  <2>. QED  BY <1>0, <1>3, <1>4, <2>1, <2>3 DEF TakeSubmitted, BrokerOK, storeVars, StoreTypeOK
<1>5. ASSUME NEW m \in Task, TakeSent(t, m) PROVE CeleryShape'
  <2>1. RunsOK' /\ held' \in [Threads -> Task \cup {NoTask}] /\ HeldByWorker'
    BY <1>0, <1>5, BeginShape DEF TakeSent, BrokerOK
  <2>2. msgs' \in [Task -> Nat]
    BY <1>0, <1>5 DEF TakeSent, BrokerOK
  <2>. QED  BY <1>0, <1>3, <1>5, <2>1, <2>2 DEF TakeSent, BrokerOK, storeVars, StoreTypeOK
<1>6. CASE TaskStep(t)
  <2>1. StoreTypeOK' /\ RunsOK' /\ queue' = queue
    BY <1>0, <1>6, RunStepShape DEF TaskStep
  <2>2. HeldByWorker'
    BY <1>0, <1>6, RunStepKeepsEv, NoEvidenceAssumption DEF TaskStep, HeldByWorker, brokerVars
  <2>. QED  BY <1>0, <1>3, <1>6, <2>1, <2>2 DEF TaskStep, BrokerOK, brokerVars
<1>7. CASE SendNext(t)
  <2>1. [ev |-> Ev(t), stage |-> thread[t].pc] \in Task
    BY <1>0, <1>7, WorksOnEvidence DEF SendNext, Task, Boundaries, At
  <2>2. msgs' \in [Task -> Nat]
    BY <1>0, <1>7, <2>1, SendType DEF SendNext, BrokerOK
  <2>3. RunsOK' /\ held' \in [Threads -> Task \cup {NoTask}] /\ HeldByWorker'
    BY <1>0, <1>7, IdleShape DEF SendNext
  <2>. QED  BY <1>0, <1>3, <1>7, <2>2, <2>3 DEF SendNext, BrokerOK, storeVars, StoreTypeOK
<1>8. CASE Acknowledge(t)
  <2>1. held' \in [Threads -> Task \cup {NoTask}] /\ \A u \in Threads : u # t => held'[u] = held[u]
    BY <1>0, <1>8 DEF Acknowledge, BrokerOK
  <2>2. HeldByWorker'
    BY <1>0, <1>8, <2>1, NoEvidenceAssumption
       DEF Acknowledge, HeldByWorker, vars, pipelineVars, Ev, RunsOK
  <2>3. RunsOK'
    BY <1>0, <1>8 DEF Acknowledge, vars, pipelineVars, RunsOK, Ev, At
  <2>. QED  BY <1>0, <1>3, <1>8, <2>1, <2>2, <2>3
            DEF Acknowledge, BrokerOK, vars, storeVars, pipelineVars, StoreTypeOK
<1>9. CASE Redeliver(t)
  <2>1. held[t] \in Task
    BY <1>0, <1>9 DEF Redeliver, Free, BrokerOK
  <2>2. msgs' \in [Task -> Nat]
    BY <1>0, <1>9, <2>1, SendType DEF Redeliver, BrokerOK
  <2>3. RunsOK' /\ held' \in [Threads -> Task \cup {NoTask}] /\ HeldByWorker'
    <3>1. CASE UNCHANGED <<held, thread>>
      BY <1>0, <3>1 DEF BrokerOK, RunsOK, HeldByWorker, Ev, At
    <3>. QED  BY <1>0, <1>9, <3>1, IdleShape DEF Redeliver
  <2>4. redelivered' \in Nat
    BY <1>0, <1>9 DEF Redeliver, BrokerOK
  <2>. QED  BY <1>0, <1>3, <1>9, <2>2, <2>3, <2>4 DEF Redeliver, BrokerOK, storeVars, StoreTypeOK
<1>10. CASE LoseProcess(t)
  <2>1. held[t].ev \in Evidence
    BY <1>0, <1>10 DEF LoseProcess, Free, BrokerOK, Task
  <2>2. lost' \in Seq(Evidence)
    BY <1>0, <1>10, <2>1, AppendProperties DEF LoseProcess, BrokerOK
  <2>3. RunsOK' /\ held' \in [Threads -> Task \cup {NoTask}] /\ HeldByWorker'
    BY <1>0, <1>10, IdleShape DEF LoseProcess
  <2>. QED  BY <1>0, <1>3, <1>10, <2>2, <2>3 DEF LoseProcess, BrokerOK, storeVars, StoreTypeOK
<1>. QED  BY <1>4, <1>5, <1>6, <1>7, <1>8, <1>9, <1>10 DEF WorkerStep

LEMMA ApiStepShape ==
    ASSUME CeleryShape, NEW c \in Clients,
           Request(c) \/ HandlerStep(c) \/ CommitUnsent(c) \/ MarkUnsent(c),
           UNCHANGED brokerVars
    PROVE  CeleryShape'
<1>0. ApiShape /\ RunsOK
  BY DEF CeleryShape, Shape, ApiShape, TypeOK, PipelineTypeOK
<1>1. ASSUME ApiShape', thread' = thread PROVE CeleryShape'
  BY <1>0, <1>1 DEF ApiShape, CeleryShape, Shape, TypeOK, PipelineTypeOK, RunsOK, Ev, At,
                    BrokerOK, HeldByWorker, brokerVars
<1>2. CASE Request(c) \/ HandlerStep(c)
  BY <1>0, <1>1, <1>2, IngestShape, RetryCancelShape, DeleteShape, ReviewShape
     DEF Request, HandlerStep
<1>3. CASE CommitUnsent(c)
  <2>1. client[c].ev \in Evidence /\ client[c] \in RequestState
    BY <1>0, <1>3 DEF CommitUnsent, Asks, ApiShape, ApiTypeOK, RequestsOK, Named, EvidenceOps
  <2>2. [client[c] EXCEPT !.op = "unsent"] \in RequestState
        /\ Named([client[c] EXCEPT !.op = "unsent"])
    BY <2>1 DEF RequestState, Ops, Named, FactOps
  <2>3. client' \in [Clients -> RequestState] /\ RequestsOK'
    BY <1>0, <1>3, <2>2, RequestUpdate DEF CommitUnsent, ApiShape, ApiTypeOK
  <2>4. row' \in [Evidence -> Row]
    BY <1>0, <1>3, <2>1 DEF CommitUnsent, ApiShape, StoreTypeOK, Row, Statuses,
                            ACTIVE_STATUSES, RequestState
  <2>. QED  BY <1>0, <1>1, <1>3, <2>3, <2>4
            DEF CommitUnsent, ApiShape, StoreTypeOK, ApiTypeOK, pipelineVars
<1>4. CASE MarkUnsent(c)
  <2>1. client[c].ev \in Evidence
    BY <1>0, <1>4 DEF MarkUnsent, Asks, ApiShape, RequestsOK, Named, EvidenceOps
  <2>2. row' \in [Evidence -> Row]
    BY <1>0, <1>4, <2>1
       DEF MarkUnsent, Marked, ApiShape, StoreTypeOK, Row, Statuses, TERMINAL_STATUSES
  <2>3. client' \in [Clients -> RequestState] /\ RequestsOK'
    BY <1>0, <1>4, AnswerShape DEF MarkUnsent, ApiShape, ApiTypeOK
  <2>. QED  BY <1>0, <1>1, <1>4, <2>2, <2>3
            DEF MarkUnsent, ApiShape, StoreTypeOK, ApiTypeOK, pipelineVars
<1>. QED  BY <1>2, <1>3, <1>4

LEMMA RestartApiShape ==
    ASSUME CeleryShape, RestartApi
    PROVE  CeleryShape'
<1>1. StoreTypeOK'
  <2>1. row' \in [Evidence -> Row]
    BY DEF RestartApi, Swept, CeleryShape, Shape, TypeOK, StoreTypeOK, Row, Statuses,
           TERMINAL_STATUSES
  <2>. QED  BY <2>1 DEF RestartApi, CeleryShape, Shape, TypeOK, StoreTypeOK
<1>2. ApiTypeOK' /\ RequestsOK'
  BY NoRequestType DEF RestartApi, CeleryShape, Shape, TypeOK, ApiTypeOK, RequestsOK
<1>. QED  BY <1>1, <1>2
          DEF RestartApi, CeleryShape, Shape, TypeOK, PipelineTypeOK, pipelineVars, RunsOK, Ev,
              At, BrokerOK, HeldByWorker

LEMMA NextCeleryShape == CeleryShape /\ [CeleryNext]_celeryVars => CeleryShape'
<1>. SUFFICES ASSUME CeleryShape, [CeleryNext]_celeryVars PROVE CeleryShape'
  OBVIOUS
<1>1. CASE UNCHANGED celeryVars
  BY <1>1 DEF celeryVars, vars, storeVars, pipelineVars, apiVars, brokerVars, CeleryShape,
     Shape, TypeOK, PipelineTypeOK, StoreTypeOK, ApiTypeOK, RunsOK, RequestsOK, Ev, At,
     BrokerOK, HeldByWorker
<1>2. ASSUME NEW c \in Clients, ApiStep(c) \/ CommitUnsent(c) PROVE CeleryShape'
  BY <1>2, ApiStepShape DEF ApiStep, CommitUnsent, MarkUnsent
<1>. QED  BY <1>1, <1>2, WorkerShape, ApiStepShape, RestartApiShape DEF CeleryNext

\* Types of the celery system, and that a busy process has the message of its
\* task, for any number of workers, requests and faults.
THEOREM CeleryShapeInvariant == CelerySpec => []CeleryShape
<1>1. CeleryInit => CeleryShape
  <2>. SUFFICES ASSUME CeleryInit PROVE CeleryShape
    OBVIOUS
  <2>1. Shape
    BY InitShape DEF CeleryInit
  <2>2. BrokerOK
    BY EmptySeq DEF CeleryInit, BrokerOK
  <2>3. HeldByWorker
    BY NoEvidenceAssumption DEF CeleryInit, Init, PipelineInit, Idle, HeldByWorker, Ev
  <2>. QED  BY <2>1, <2>2, <2>3 DEF CeleryShape
<1>. QED  BY <1>1, NextCeleryShape, PTL DEF CelerySpec

-----------------------------------------------------------------------------
(* INGEST_MODE=celery: nothing is stranded but by a lost message           *)

Messaged(e) == \E m \in Task : m.ev = e /\ msgs[m] > 0
Unsent(e) == \E c \in Clients : Asks(c, "unsent") /\ client[c].ev = e

\* StrandedOnlyByLoss with Carries in the place of a held message: a message
\* may be held of a task that is over, or that will leave the row alone.
Covered ==
    \A e \in Evidence :
        row[e].st \in ACTIVE_STATUSES =>
            \/ Queued(e) \/ Messaged(e) \/ Unsent(e) \/ Lost(e)
            \/ \E t \in Threads : Carries(t, e)

\* A process that is given a task carries its evidence.
LEMMA BeginCarries ==
    ASSUME RunsOK, HeldByWorker, NEW t \in Threads, Free(t), NEW m \in Task, Begin(t, m)
    PROVE  /\ Carries(t, m.ev)'
           /\ \A u \in Threads, e \in Evidence : Carries(u, e) => Carries(u, e)'
<1>. DEFINE r == [Idle EXCEPT !.pc = m.stage, !.ev = m.ev]
<1>1. r.pc = m.stage /\ r.ev = m.ev /\ m.stage \in Boundaries
  BY DEF Idle, Task
<1>2. thread' = [thread EXCEPT ![t] = r]
  BY DEF Begin
<1>. HIDE DEF r
<1>3. Carries(t, m.ev)'
  BY <1>1, <1>2 DEF Carries, RunsOK, Ev, Boundaries
<1>4. Ev(t) \notin Evidence
  BY NoEvidenceAssumption DEF Free, HeldByWorker, NoTask
<1>. QED  BY <1>2, <1>3, <1>4 DEF Carries, RunsOK, Ev

LEMMA TailQueued ==
    ASSUME queue \in Seq(Evidence), queue # <<>>, queue' = Tail(queue), NEW e, Queued(e)
    PROVE  Queued(e)' \/ e = Head(queue)
<1>1. PICK n \in 1..Len(queue) : queue[n] = e
  BY DEF Queued
<1>2. CASE n = 1
  BY <1>1, <1>2
<1>3. CASE n # 1
  <2>1. Len(queue) \in Nat
    BY LenProperties
  <2>2. /\ Len(Tail(queue)) = Len(queue) - 1
        /\ \A i \in 1..Len(Tail(queue)) : Tail(queue)[i] = queue[i + 1]
    BY HeadTailProperties
  <2>3. n - 1 \in 1..Len(Tail(queue)) /\ (n - 1) + 1 = n
    BY <1>3, <2>1, <2>2
  <2>4. n - 1 \in 1..Len(queue') /\ queue'[n - 1] = e
    BY <1>1, <2>2, <2>3
  <2>. QED  BY <2>4 DEF Queued
<1>. QED  BY <1>2, <1>3

LEMMA FinishCarries ==
    ASSUME RunsOK, NEW t \in Threads, Finish(t), NEW u \in Threads, NEW e, Carries(u, e)
    PROVE  u = t \/ Carries(u, e)'
BY DEF RunsOK, Finish, Carries, Ev

LEMMA SentMessaged ==
    ASSUME BrokerOK, NEW m \in Task, Send(m), NEW e
    PROVE  Messaged(m.ev)' /\ (Messaged(e) => Messaged(e)')
<1>1. msgs[m] \in Nat /\ msgs'[m] = msgs[m] + 1
  BY DEF BrokerOK, Send
<1>2. Messaged(m.ev)'
  <2>1. msgs'[m] > 0
    BY <1>1
  <2>. QED  BY <2>1 DEF Messaged
<1>3. ASSUME NEW n \in Task, msgs[n] > 0 PROVE msgs'[n] > 0
  <2>1. CASE n = m
    BY <1>1, <2>1
  <2>2. CASE n # m
    BY <1>3, <2>2 DEF BrokerOK, Send
  <2>. QED  BY <2>1, <2>2
<1>. QED  BY <1>2, <1>3 DEF Messaged

LEMMA TakenMessaged ==
    ASSUME BrokerOK, NEW t \in Threads, NEW m \in Task, TakeSent(t, m), NEW e, Messaged(e)
    PROVE  m.ev = e \/ Messaged(e)'
<1>1. PICK n \in Task : n.ev = e /\ msgs[n] > 0
  BY DEF Messaged
<1>2. n # m => msgs'[n] = msgs[n]
  BY DEF TakeSent, BrokerOK
<1>3. n # m => n.ev = e /\ msgs'[n] > 0
  BY <1>1, <1>2
<1>. QED  BY <1>1, <1>3 DEF Messaged

LEMMA LosingIsLost ==
    ASSUME BrokerOK, NEW t \in Threads, LoseProcess(t), NEW e
    PROVE  (e = held[t].ev => Lost(e)') /\ (Lost(e) => Lost(e)')
<1>1. held[t].ev \in Evidence
  BY DEF LoseProcess, Free, BrokerOK, Task
<1>2. /\ Len(lost) \in Nat /\ Len(lost') = Len(lost) + 1
      /\ \A n \in 1..Len(lost) : lost'[n] = lost[n]
      /\ lost'[Len(lost) + 1] = held[t].ev
  BY <1>1, AppendProperties, LenProperties DEF LoseProcess, BrokerOK
<1>3. Len(lost) + 1 \in 1..Len(lost') /\ 1..Len(lost) \subseteq 1..Len(lost')
  BY <1>2
<1>. QED  BY <1>2, <1>3 DEF Lost

LEMMA WorkerCovered ==
    ASSUME CeleryShape, Covered, NEW t \in Threads,
           WorkerStep(t) \/ Redeliver(t) \/ LoseProcess(t)
    PROVE  Covered'
<1>0. /\ StoreTypeOK /\ RunsOK /\ queue \in Seq(Evidence) /\ BrokerOK /\ HeldByWorker
  BY DEF CeleryShape, Shape, TypeOK, PipelineTypeOK
<1>1. client' = client
  BY DEF WorkerStep, TakeSubmitted, TakeSent, TaskStep, SendNext, Acknowledge, Redeliver,
         LoseProcess, vars, apiVars
<1>. SUFFICES ASSUME NEW e \in Evidence, row'[e].st \in ACTIVE_STATUSES
              PROVE  \/ Queued(e)' \/ Messaged(e)' \/ Unsent(e)' \/ Lost(e)'
                     \/ \E u \in Threads : Carries(u, e)'
  BY DEF Covered
<1>2. Unsent(e) => Unsent(e)'
  BY <1>1 DEF Unsent, Asks
<1>3. CASE TakeSubmitted(t)
  <2>1. [ev |-> Head(queue), stage |-> "parse"] \in Task
    BY <1>0, <1>3, HeadTailProperties DEF TakeSubmitted, Task, Boundaries
  <2>2. PICK m \in Task : m = [ev |-> Head(queue), stage |-> "parse"]
    BY <2>1
  <2>3. /\ Carries(t, m.ev)'
        /\ \A u \in Threads : Carries(u, e) => Carries(u, e)'
    BY <1>0, <1>3, <2>2, BeginCarries DEF TakeSubmitted
  <2>4. Queued(e) => Queued(e)' \/ e = m.ev
    BY <1>0, <1>3, <2>2, TailQueued DEF TakeSubmitted
  <2>5. (Messaged(e) => Messaged(e)') /\ (Lost(e) => Lost(e)') /\ row' = row
    BY <1>3 DEF TakeSubmitted, storeVars, Messaged, Lost
  <2>6. e = m.ev => Carries(t, e)'
    BY <2>3
  <2>. QED  BY <1>2, <2>3, <2>4, <2>5, <2>6 DEF Covered
<1>4. ASSUME NEW m \in Task, TakeSent(t, m)
      PROVE  \/ Queued(e)' \/ Messaged(e)' \/ Unsent(e)' \/ Lost(e)'
             \/ \E u \in Threads : Carries(u, e)'
  <2>1. /\ Carries(t, m.ev)'
        /\ \A u \in Threads : Carries(u, e) => Carries(u, e)'
    BY <1>0, <1>4, BeginCarries DEF TakeSent
  <2>2. Messaged(e) => Messaged(e)' \/ m.ev = e
    BY <1>0, <1>4, TakenMessaged
  <2>3. (Queued(e) => Queued(e)') /\ (Lost(e) => Lost(e)') /\ row' = row
    BY <1>4 DEF TakeSent, storeVars, Queued, Lost
  <2>. QED  BY <1>2, <2>1, <2>2, <2>3 DEF Covered
<1>5. CASE TaskStep(t)
  <2>1. Handled(t) /\ UNCHANGED brokerVars
    BY <1>0, <1>5, RunStepHandled DEF TaskStep
  <2>2. \/ \E u \in Threads : Carries(u, e)'
        \/ row[e].st \in ACTIVE_STATUSES /\ ~\E u \in Threads : Carries(u, e)
    BY <2>1, HandledCarries
  <2>3. Queued(e) => Queued(e)'
    BY <2>1 DEF Handled, Queued
  <2>. QED  BY <1>2, <2>1, <2>2, <2>3 DEF Covered, Messaged, Lost, brokerVars
<1>6. CASE SendNext(t)
  <2>1. [ev |-> Ev(t), stage |-> thread[t].pc] \in Task
    BY <1>0, <1>6, WorksOnEvidence DEF SendNext, Task, Boundaries, At
  <2>2. PICK m \in Task : m = [ev |-> Ev(t), stage |-> thread[t].pc]
    BY <2>1
  <2>2a. Messaged(m.ev)' /\ (Messaged(e) => Messaged(e)')
    BY <1>0, <1>6, <2>2, SentMessaged DEF SendNext
  <2>3. ASSUME NEW u \in Threads, Carries(u, e) PROVE e = Ev(t) \/ Carries(u, e)'
    BY <1>0, <1>6, <2>3, FinishCarries DEF SendNext, Carries
  <2>4. (Queued(e) => Queued(e)') /\ (Lost(e) => Lost(e)') /\ row' = row
    BY <1>6 DEF SendNext, storeVars, Queued, Lost
  <2>5. e = Ev(t) => Messaged(e)'
    BY <2>2, <2>2a
  <2>. QED  BY <1>2, <2>2a, <2>3, <2>4, <2>5 DEF Covered
<1>7. CASE Acknowledge(t)
  BY <1>2, <1>7 DEF Acknowledge, Covered, vars, storeVars, pipelineVars, Queued, Messaged,
                    Lost, Carries, Ev
<1>8. CASE Redeliver(t)
  <2>1. held[t] \in Task /\ Send(held[t])
    BY <1>0, <1>8 DEF Redeliver, Free, BrokerOK
  <2>1a. PICK m \in Task : m = held[t]
    BY <2>1
  <2>2. Messaged(m.ev)' /\ (Messaged(e) => Messaged(e)')
    BY <1>0, <2>1, <2>1a, SentMessaged
  <2>3. ASSUME NEW u \in Threads, Carries(u, e) PROVE e = Ev(t) \/ Carries(u, e)'
    <3>1. CASE Finish(t)
      BY <1>0, <2>3, <3>1, FinishCarries DEF Carries
    <3>2. CASE UNCHANGED thread
      BY <2>3, <3>2 DEF Carries, Ev
    <3>. QED  BY <1>8, <3>1, <3>2 DEF Redeliver
  <2>4. e = Ev(t) => e = held[t].ev
    BY <1>0 DEF HeldByWorker
  <2>5. (Queued(e) => Queued(e)') /\ (Lost(e) => Lost(e)') /\ row' = row
    BY <1>8 DEF Redeliver, storeVars, Queued, Lost
  <2>6. e = Ev(t) => Messaged(e)'
    BY <2>2, <2>4, <2>1a
  <2>. QED  BY <1>2, <2>2, <2>3, <2>5, <2>6 DEF Covered
<1>9. CASE LoseProcess(t)
  <2>1. (e = held[t].ev => Lost(e)') /\ (Lost(e) => Lost(e)')
    BY <1>0, <1>9, LosingIsLost
  <2>2. ASSUME NEW u \in Threads, Carries(u, e) PROVE e = Ev(t) \/ Carries(u, e)'
    BY <1>0, <1>9, <2>2, FinishCarries DEF LoseProcess, Carries
  <2>3. e = Ev(t) => e = held[t].ev
    BY <1>0 DEF HeldByWorker
  <2>4. (Queued(e) => Queued(e)') /\ (Messaged(e) => Messaged(e)') /\ row' = row
    BY <1>9 DEF LoseProcess, storeVars, Queued, Messaged
  <2>5. e = Ev(t) => Lost(e)'
    BY <2>1, <2>3
  <2>. QED  BY <1>2, <2>1, <2>2, <2>4, <2>5 DEF Covered
<1>. QED  BY <1>3, <1>4, <1>5, <1>6, <1>7, <1>8, <1>9 DEF WorkerStep

\* A request leaves the unsent rows of other requests to them.
LEMMA RequestCovered ==
    ASSUME CeleryShape, Covered, NEW c \in Clients, Request(c) \/ HandlerStep(c),
           UNCHANGED brokerVars
    PROVE  Covered'
<1>1. ApiShape
  BY DEF CeleryShape, Shape, ApiShape, TypeOK, PipelineTypeOK
<1>2. thread' = thread /\ Dispatched
  BY <1>1, RequestDispatches
<1>3. ~Asks(c, "unsent") /\ \A d \in Clients : d # c => client'[d] = client[d]
  <2>. USE DEF Asks, Answer, ApiShape, ApiTypeOK
  <2>1. CASE Request(c)
    BY <1>1, <2>1 DEF Request, BeginIngest, BeginRetry, Cancel, BeginDelete, BeginApprove,
                      BeginReject, apiVars
  <2>2. CASE CommitIngest(c) \/ CommitRetry(c)
    BY <1>1, <2>2 DEF CommitIngest, CommitRetry
  <2>3. CASE CollectTouched(c) \/ CommitDelete(c) \/ CleanGraph(c)
    BY <1>1, <2>3 DEF CollectTouched, CommitDelete, CleanGraph
  <2>4. CASE ApproveInGraph(c) \/ CommitApprove(c) \/ CommitReject(c)
    BY <1>1, <2>4 DEF ApproveInGraph, CommitApprove, CommitReject
  <2>. QED  BY <2>1, <2>2, <2>3, <2>4 DEF HandlerStep
<1>. SUFFICES ASSUME NEW e \in Evidence, row'[e].st \in ACTIVE_STATUSES
              PROVE  \/ Queued(e)' \/ Messaged(e)' \/ Unsent(e)' \/ Lost(e)'
                     \/ \E u \in Threads : Carries(u, e)'
  BY DEF Covered
<1>4. Unsent(e) => Unsent(e)'
  BY <1>3 DEF Unsent, Asks
<1>5. (Messaged(e) => Messaged(e)') /\ (Lost(e) => Lost(e)')
  BY DEF Messaged, Lost, brokerVars
<1>6. \A u \in Threads : Carries(u, e) => Carries(u, e)'
  BY <1>2 DEF Carries, Ev
<1>. QED  BY <1>2, <1>4, <1>5, <1>6 DEF Dispatched, Covered

\* The broker is out of reach: the row is the request's until it is marked.
LEMMA UnsentCovered ==
    ASSUME CeleryShape, Covered, NEW c \in Clients, CommitUnsent(c) \/ MarkUnsent(c),
           UNCHANGED brokerVars
    PROVE  Covered'
<1>1. StoreTypeOK /\ ApiTypeOK /\ RequestsOK
  BY DEF CeleryShape, Shape, TypeOK
<1>2. client[c].ev \in Evidence
  BY <1>1 DEF CommitUnsent, MarkUnsent, Asks, RequestsOK, Named, EvidenceOps
<1>3. /\ \A d \in Clients : d # c => client'[d] = client[d]
      /\ \A e \in Evidence : e # client[c].ev => row'[e] = row[e]
  BY <1>1, <1>2 DEF CommitUnsent, MarkUnsent, Answer, Marked, ApiTypeOK, StoreTypeOK
<1>. SUFFICES ASSUME NEW e \in Evidence, row'[e].st \in ACTIVE_STATUSES
              PROVE  \/ Queued(e)' \/ Messaged(e)' \/ Unsent(e)' \/ Lost(e)'
                     \/ \E u \in Threads : Carries(u, e)'
  BY DEF Covered
<1>4. /\ Queued(e) => Queued(e)'
      /\ Messaged(e) => Messaged(e)'
      /\ Lost(e) => Lost(e)'
      /\ \A u \in Threads : Carries(u, e) => Carries(u, e)'
  BY DEF CommitUnsent, MarkUnsent, pipelineVars, brokerVars, Queued, Messaged, Lost, Carries, Ev
<1>5. CASE e # client[c].ev
  <2>1. Unsent(e) => Unsent(e)'
    BY <1>3, <1>5 DEF Unsent, Asks
  <2>. QED  BY <1>3, <1>4, <1>5, <2>1 DEF Covered
<1>6. CASE e = client[c].ev /\ CommitUnsent(c)
  <2>1. client'[c].op = "unsent" /\ client'[c].ev = e
    BY <1>1, <1>6 DEF CommitUnsent, ApiTypeOK, RequestState
  <2>. QED  BY <2>1 DEF Unsent, Asks
<1>7. CASE e = client[c].ev /\ MarkUnsent(c)
  <2>1. row'[e].st \notin ACTIVE_STATUSES
    BY <1>1, <1>2, <1>7
       DEF MarkUnsent, Marked, Exists, StoreTypeOK, Row, ACTIVE_STATUSES, TERMINAL_STATUSES
  <2>. QED  BY <2>1
<1>. QED  BY <1>5, <1>6, <1>7

LEMMA RestartApiCovered ==
    ASSUME StoreTypeOK, RestartApi
    PROVE  Covered'
<1>1. \A e \in Evidence : row'[e].st \notin ACTIVE_STATUSES
  BY DEF RestartApi, Swept, StoreTypeOK, Row, ACTIVE_STATUSES
<1>. QED  BY <1>1 DEF Covered

LEMMA NextCovered == CeleryShape /\ Covered /\ [CeleryNext]_celeryVars => Covered'
<1>. SUFFICES ASSUME CeleryShape, Covered, [CeleryNext]_celeryVars PROVE Covered'
  OBVIOUS
<1>1. CASE UNCHANGED celeryVars
  BY <1>1 DEF celeryVars, vars, storeVars, pipelineVars, apiVars, brokerVars, Covered, Queued,
              Messaged, Unsent, Asks, Lost, Carries, Ev
<1>2. CASE RestartApi
  BY <1>2, RestartApiCovered DEF CeleryShape, Shape, TypeOK
<1>3. ASSUME NEW c \in Clients, ApiStep(c) \/ CommitUnsent(c) PROVE Covered'
  BY <1>3, RequestCovered, UnsentCovered DEF ApiStep, CommitUnsent, MarkUnsent
<1>. QED  BY <1>1, <1>2, <1>3, WorkerCovered, RequestCovered DEF CeleryNext

\* A busy process has the message of its task, so what it carries is held.
LEMMA CoveredImpliesInChain == CeleryShape /\ Covered => StrandedOnlyByLoss
BY DEF CeleryShape, Covered, Carries, HeldByWorker, StrandedOnlyByLoss, InChain, Messaged,
       Unsent

\* Late acknowledgement keeps what a dead worker was at: whatever the broker,
\* the workers and the API go through, a row that is shown as in progress has
\* a message that waits or is worked on, a request that is about to fail it,
\* or has lost a message with the process of one of its tasks.
THEOREM StrandedByLossAlone == CelerySpec => []StrandedOnlyByLoss
<1>1. CeleryInit => Covered
  BY DEF CeleryInit, Init, StoreInit, Covered, ACTIVE_STATUSES
<1>2. CelerySpec => []Covered
  BY <1>1, NextCovered, CeleryShapeInvariant, PTL DEF CelerySpec
<1>. QED  BY <1>2, CoveredImpliesInChain, CeleryShapeInvariant, PTL
=============================================================================
