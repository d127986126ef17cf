------------------------ MODULE EvidenceFacts_proofs ------------------------
(***************************************************************************)
(* What is promised of facts and review items, of the registry and of the  *)
(* graph, for any number of evidences, pool threads and facts.             *)
(*                                                                         *)
(* A stage and a review decision both use facts that they read some time   *)
(* ago.  The proofs rest on what such a fact can have become meanwhile:    *)
(* it is gone, and never comes back under its uuid; or a fact a stage      *)
(* projects still has no review item, and a fact a reviewer decides on     *)
(* still has one.                                                          *)
(*                                                                         *)
(* What is said of the registry and the graph is false of the code when    *)
(* requests overlap, when two runs hold one registry row, and when a       *)
(* delete commits beside a run.  Those theorems are about one request at a *)
(* time, and about the behaviours in which MergesApart and                 *)
(* DeletesFindNoRun hold.                                                  *)
(***************************************************************************)
EXTENDS EvidenceRuns_proofs

-----------------------------------------------------------------------------
(* The invariant                                                           *)

\* A fact row and its review item agree.
Sane(f) ==
    /\ f.item = "open" <=> f.st = "in_review"
    /\ f.st \in {"pending", "accepted"} => f.item = "none"

\* A fact that a stage is about to project, if it is still there.
Projectable(i) ==
    /\ i.gen <= gen[i.ev]
    /\ i \in DOMAIN facts => facts[i].item = "none" /\ facts[i].st \in {"accepted", "written"}

\* A fact that a request is about to decide, if it is still there.
Reviewed(i) ==
    /\ i.gen <= gen[i.ev]
    /\ i \in DOMAIN facts => facts[i].item # "none"

FactsInv ==
    /\ \A i \in DOMAIN facts : Sane(facts[i]) /\ i.gen <= gen[i.ev]
    /\ \A t \in Threads : At(t, "projecting") => \A i \in thread[t].ids : Projectable(i)
    /\ \A c \in Clients : client[c].op \in FactOps => Reviewed(client[c].id)

\* What a step that decides on the facts D may do.  New facts have a new uuid
\* and agree with their item; an old one is gated, written, or decided on.
Evolves(D) ==
    /\ \A e \in Evidence : gen[e] <= gen'[e]
    /\ \A i \in DOMAIN facts' \ DOMAIN facts :
          /\ gen[i.ev] < i.gen /\ i.gen <= gen'[i.ev]
          /\ Sane(facts'[i])
          /\ i.kind = "inferred" => facts'[i].st # "accepted"
    /\ \A i \in DOMAIN facts' \cap DOMAIN facts :
          \/ facts'[i] = facts[i]
          \/ facts[i].st = "pending" /\ Sane(facts'[i])
          \/ /\ facts[i].item = "none" /\ facts[i].st \in {"accepted", "written"}
             /\ facts'[i] = [st |-> "written", item |-> "none"]
          \/ /\ i \in D /\ facts[i].item # "none"
             /\ facts'[i] \in {[st |-> "written", item |-> "approved"],
                               [st |-> "rejected", item |-> "rejected"]}

\* No fact becomes an accepted inference.
AcceptsNoInference ==
    \A i \in DOMAIN facts' :
        i.kind = "inferred" /\ facts'[i].st = "accepted" =>
            i \in DOMAIN facts /\ facts[i].st = "accepted"

\* Such a step keeps what stages and requests hold.
LEMMA EvolvesKeeps ==
    ASSUME StoreTypeOK, StoreTypeOK', \A i \in DOMAIN facts : Sane(facts[i]) /\ i.gen <= gen[i.ev],
           NEW D, Evolves(D)
    PROVE  /\ \A i \in DOMAIN facts' : Sane(facts'[i]) /\ i.gen <= gen'[i.ev]
           /\ \A i \in FactId : Projectable(i) => Projectable(i)'
           /\ \A i \in FactId : Reviewed(i) => Reviewed(i)'
           /\ \A i \in DOMAIN facts' : i.gen <= gen[i.ev] => i \in DOMAIN facts
<1>0. \A i \in FactId : i.ev \in Evidence /\ i.gen \in Nat /\ gen[i.ev] \in Nat /\ gen'[i.ev] \in Nat
  BY DEF FactId, StoreTypeOK
<1>1. ASSUME NEW i \in DOMAIN facts' PROVE Sane(facts'[i]) /\ i.gen <= gen'[i.ev]
  <2>1. i \in FactId
    BY DEF StoreTypeOK
  <2>2. CASE i \notin DOMAIN facts
    BY <2>2 DEF Evolves
  <2>3. CASE i \in DOMAIN facts
    <3>1. i.gen <= gen'[i.ev]
      BY <1>0, <2>1, <2>3 DEF Evolves
    <3>2. Sane(facts'[i])
      BY <2>3 DEF Evolves, Sane
    <3>. QED  BY <3>1, <3>2
  <2>. QED  BY <2>2, <2>3
<1>2. ASSUME NEW i \in FactId, i.gen <= gen[i.ev]
      PROVE  i.gen <= gen'[i.ev] /\ (i \in DOMAIN facts' => i \in DOMAIN facts)
  <2>1. i.gen <= gen'[i.ev]
    BY <1>0, <1>2 DEF Evolves
  <2>2. ASSUME i \in DOMAIN facts' \ DOMAIN facts PROVE FALSE
    BY <1>0, <1>2, <2>2 DEF Evolves
  <2>. QED  BY <2>1, <2>2
<1>3. ASSUME NEW i \in FactId, Projectable(i) PROVE Projectable(i)'
  <2>1. i.gen <= gen[i.ev]
    BY <1>3 DEF Projectable
  <2>2. ASSUME i \in DOMAIN facts'
        PROVE  facts'[i].item = "none" /\ facts'[i].st \in {"accepted", "written"}
    BY <1>2, <1>3, <2>1, <2>2 DEF Projectable, Evolves
  <2>. QED  BY <1>2, <2>1, <2>2 DEF Projectable
<1>4. ASSUME NEW i \in FactId, Reviewed(i) PROVE Reviewed(i)'
  <2>1. i.gen <= gen[i.ev]
    BY <1>4 DEF Reviewed
  <2>2. ASSUME i \in DOMAIN facts' PROVE facts'[i].item # "none"
    <3>1. i \in DOMAIN facts /\ facts[i].item # "none" /\ Sane(facts[i])
      BY <1>2, <1>4, <2>1, <2>2 DEF Reviewed
    <3>. QED  BY <2>2, <3>1 DEF Evolves, Sane
  <2>. QED  BY <1>2, <2>1, <2>2 DEF Reviewed
<1>5. DOMAIN facts' \subseteq FactId
  BY DEF StoreTypeOK
<1>. QED  BY <1>1, <1>2, <1>3, <1>4, <1>5

-----------------------------------------------------------------------------
(* The steps of the pool                                                   *)

LEMMA GatedSane ==
    ASSUME NEW band \in {"accepted", "in_review", "rejected"}
    PROVE  Sane(Gated(band))
BY DEF Sane, Gated

LEMMA UnchangedEvolves ==
    ASSUME StoreTypeOK, UNCHANGED <<facts, gen>>
    PROVE  Evolves({}) /\ AcceptsNoInference
BY DEF StoreTypeOK, Evolves, AcceptsNoInference

LEMMA EvolvesMore ==
    ASSUME NEW D, Evolves({})
    PROVE  Evolves(D)
BY DEF Evolves

LEMMA WithoutEvolves ==
    ASSUME StoreTypeOK, NEW e, facts' = WithoutFactsOf(e), gen' = gen
    PROVE  Evolves({}) /\ AcceptsNoInference
BY DEF StoreTypeOK, WithoutFactsOf, Evolves, AcceptsNoInference

\* What resolve inserts has the uuids of one new commit, and is no inference.
LEMMA ResolvedFactsAreNew ==
    ASSUME NEW e, NEW res, NEW band \in [{m.id : m \in res} -> Bands], NEW relBand \in Bands,
           NEW rels
    PROVE  LET new == ResolvedFacts(e, res, band, rels, relBand)
           IN  \A i \in DOMAIN new : /\ i.ev = e /\ i.gen = gen[e] + 1 /\ i.kind # "inferred"
                                     /\ Sane(new[i])
<1>. DEFINE id(kind, x, y) == [ev |-> e, gen |-> gen[e] + 1, kind |-> kind, src |-> x, tgt |-> y]
            entity == {id("entity", m.id, m.id) : m \in res}
            merge == {id("merge", m.id, m.cand) : m \in {n \in res : n.cand # n.id}}
            rel == {id("relationship", p[1], p[2]) : p \in rels}
            new == ResolvedFacts(e, res, band, rels, relBand)
<1>0. Bands \subseteq {"accepted", "in_review", "rejected"}
  BY BandsAssumption
<1>1. DOMAIN new = entity \cup merge \cup rel
  BY DEF ResolvedFacts
<1>. SUFFICES ASSUME NEW i \in DOMAIN new
              PROVE  /\ i.ev = e /\ i.gen = gen[e] + 1 /\ i.kind # "inferred"
                     /\ Sane(new[i])
  OBVIOUS
<1>2. CASE i \in entity
  <2>1. i.src \in {m.id : m \in res} /\ i.ev = e /\ i.gen = gen[e] + 1 /\ i.kind # "inferred"
    BY <1>2
  <2>2. band[i.src] \in Bands
    BY <2>1
  <2>3. new[i] = Gated(band[i.src])
    BY <1>2, <1>1 DEF ResolvedFacts
  <2>. QED  BY <1>0, <2>1, <2>2, <2>3, GatedSane
<1>3. CASE i \notin entity /\ i \in merge
  <2>1. i.ev = e /\ i.gen = gen[e] + 1 /\ i.kind # "inferred"
    BY <1>3
  <2>2. new[i] = Gated("in_review")
    BY <1>3, <1>1 DEF ResolvedFacts, id
  <2>. QED  BY <2>1, <2>2, GatedSane
<1>4. CASE i \notin entity /\ i \notin merge /\ i \in rel
  <2>1. i.ev = e /\ i.gen = gen[e] + 1 /\ i.kind # "inferred"
    BY <1>4
  <2>2. new[i] = Gated(relBand)
    BY <1>4, <1>1 DEF ResolvedFacts, id
  <2>. QED  BY <1>0, <2>1, <2>2, GatedSane
<1>. QED  BY <1>1, <1>2, <1>3, <1>4

LEMMA ResolveEvolves ==
    ASSUME StoreTypeOK, RunsOK, FactsInv, NEW t \in Threads, Resolve(t)
    PROVE  Evolves({}) /\ AcceptsNoInference
<1>. DEFINE e == Ev(t)
            ids == {m.id : m \in thread[t].res}
<1>1. e \in Evidence /\ gen[e] \in Nat
  BY WorksOnEvidence DEF Resolve, At, StoreTypeOK
<1>2. PICK band \in [ids -> Bands], relBand \in Bands,
           rels \in {{}} \cup {{p} : p \in {q \in ids \X ids : q[1] # q[2]}} :
         LET new == ResolvedFacts(e, thread[t].res, band, rels, relBand)
         IN  facts' = [i \in DOMAIN facts \cup DOMAIN new |->
                          IF i \in DOMAIN new THEN new[i] ELSE facts[i]]
  BY DEF Resolve
<1>. DEFINE new == ResolvedFacts(e, thread[t].res, band, rels, relBand)
<1>3. facts' = [i \in DOMAIN facts \cup DOMAIN new |->
                   IF i \in DOMAIN new THEN new[i] ELSE facts[i]]
  BY <1>2
<1>4. \A i \in DOMAIN new : /\ i.ev = e /\ i.gen = gen[e] + 1 /\ i.kind # "inferred"
                            /\ Sane(new[i])
  BY ResolvedFactsAreNew
<1>. HIDE DEF new
<1>5. DOMAIN new \cap DOMAIN facts = {}
  BY <1>1, <1>4 DEF FactsInv
<1>6. \A f \in Evidence : gen[f] <= gen'[f]
  BY DEF Resolve, StoreTypeOK
<1>7. gen'[e] = gen[e] + 1
  BY <1>1 DEF Resolve, StoreTypeOK
<1>8. /\ DOMAIN facts' = DOMAIN facts \cup DOMAIN new
      /\ \A i \in DOMAIN new : facts'[i] = new[i]
      /\ \A i \in DOMAIN facts : facts'[i] = facts[i]
  BY <1>3, <1>5
<1>9. Evolves({})
  <2>1. ASSUME NEW i \in DOMAIN new PROVE gen[i.ev] < i.gen /\ i.gen <= gen'[i.ev]
    <3>1. i.ev = e /\ i.gen = gen[e] + 1
      BY <1>4
    <3>. HIDE DEF e
    <3>. QED  BY <3>1, <1>1, <1>7
  <2>. QED  BY <1>4, <1>6, <1>8, <2>1 DEF Evolves
<1>10. AcceptsNoInference
  BY <1>4, <1>8 DEF AcceptsNoInference
<1>. QED  BY <1>9, <1>10

\* The facts that are written back are still those that were read.
LEMMA ProjectEvolves ==
    ASSUME StoreTypeOK, RunsOK, FactsInv, NEW t \in Threads, Project(t)
    PROVE  Evolves({}) /\ AcceptsNoInference
<1>1. CASE UNCHANGED <<facts, gen>>
  BY <1>1, UnchangedEvolves
<1>2. CASE /\ facts' = WithStatus(Writable(thread[t].ids), "written") /\ gen' = gen
           /\ Writable(thread[t].ids) \subseteq DOMAIN facts
  <2>. DEFINE ids == Writable(thread[t].ids)
  <2>1. \A i \in ids : Projectable(i)
    BY DEF FactsInv, Project, Writable
  <2>2. facts' = [i \in DOMAIN facts |->
                     IF i \in ids THEN [facts[i] EXCEPT !.st = "written"] ELSE facts[i]]
    BY <1>2 DEF WithStatus
  <2>3. ids \subseteq DOMAIN facts
    BY <1>2
  <2>. HIDE DEF ids
  <2>4. ASSUME NEW i \in ids
        PROVE  /\ facts[i].item = "none" /\ facts[i].st \in {"accepted", "written"}
               /\ facts'[i] = [st |-> "written", item |-> "none"]
    <3>1. facts[i].item = "none" /\ facts[i].st \in {"accepted", "written"} /\ facts[i] \in FactRow
      BY <2>1, <2>3 DEF Projectable, StoreTypeOK
    <3>2. facts'[i] = [facts[i] EXCEPT !.st = "written"]
      BY <2>2, <2>3
    <3>. QED  BY <3>1, <3>2 DEF FactRow
  <2>5. DOMAIN facts' = DOMAIN facts /\ \A i \in DOMAIN facts \ ids : facts'[i] = facts[i]
    BY <2>2
  <2>. QED  BY <1>2, <2>3, <2>4, <2>5 DEF Evolves, AcceptsNoInference, StoreTypeOK
<1>. QED  BY <1>1, <1>2 DEF Project, FailWith

LEMMA InferEvolves ==
    ASSUME StoreTypeOK, RunsOK, FactsInv, NEW t \in Threads, Infer(t)
    PROVE  Evolves({}) /\ AcceptsNoInference
<1>. DEFINE e == Ev(t)
            id(p) == [ev |-> e, gen |-> gen[e] + 1, kind |-> "inferred", src |-> p[1], tgt |-> p[2]]
<1>1. e \in Evidence /\ gen[e] \in Nat
  BY WorksOnEvidence DEF Infer, At, StoreTypeOK
<1>2. PICK P \in SUBSET Proposable(thread[t].ids) :
         /\ facts' = [i \in DOMAIN facts \cup {id(p) : p \in P} |->
                         IF i \in DOMAIN facts THEN facts[i]
                         ELSE [st |-> "pending", item |-> "none"]]
         /\ gen' = IF P = {} THEN gen ELSE [gen EXCEPT ![e] = @ + 1]
  BY DEF Infer
<1>. DEFINE new == {id(p) : p \in P}
<1>3. \A i \in new : i.ev = e /\ i.gen = gen[e] + 1 /\ i.kind = "inferred"
  OBVIOUS
<1>4. new # {} => gen' = [gen EXCEPT ![e] = @ + 1]
  BY <1>2
<1>5. gen' = gen \/ gen' = [gen EXCEPT ![e] = @ + 1]
  BY <1>2
<1>6. facts' = [i \in DOMAIN facts \cup new |->
                   IF i \in DOMAIN facts THEN facts[i] ELSE [st |-> "pending", item |-> "none"]]
  BY <1>2
<1>. HIDE DEF new, e
<1>7. \A f \in Evidence : gen[f] <= gen'[f]
  BY <1>1, <1>5 DEF StoreTypeOK
<1>8. \A i \in new : gen[i.ev] < i.gen /\ i.gen <= gen'[i.ev]
  BY <1>1, <1>3, <1>4 DEF StoreTypeOK
<1>. QED  BY <1>3, <1>6, <1>7, <1>8 DEF Evolves, AcceptsNoInference, Sane

\* What the gate does to the pending inferences of an evidence, all but one of
\* which are projected when they are accepted.
LEMMA EnrichFacts ==
    ASSUME StoreTypeOK, FactsInv, NEW t \in Threads, Enrich(t)
    PROVE  /\ Evolves({})
           /\ \E last : \A i \in DOMAIN facts' :
                 i.kind = "inferred" /\ facts'[i].st = "accepted" =>
                     i \in DOMAIN facts /\ (facts[i].st = "accepted" \/ (i.ev = Ev(t) /\ i = last))
           /\ ~Exists(Ev(t)) => facts' = facts
           /\ Exists(Ev(t)) => \A i \in DOMAIN facts' :
                 i.kind = "inferred" /\ i.ev = Ev(t) /\ facts'[i].st = "accepted" =>
                     facts[i].st # "accepted"
<1>. DEFINE e == Ev(t)
            pending == FactsIn(e, {"inferred"}, "pending")
            accepted == FactsIn(e, {"inferred"}, "accepted")
<1>1. PICK band \in [pending -> Bands], last \in Unflushed(pending) :
         LET ids == accepted \cup {i \in pending \ last : band[i] = "accepted"}
         IN  facts' = IF ~Exists(e) THEN facts
                      ELSE [i \in DOMAIN facts |->
                               CASE i \in ids -> [st |-> "written", item |-> "none"]
                                 [] i \in pending \ ids -> Gated(band[i])
                                 [] OTHER -> facts[i]]
  BY DEF Enrich
<1>2. PICK x : last \subseteq {x}
  BY DEF Unflushed
<1>3. gen' = gen
  BY DEF Enrich
<1>4. CASE ~Exists(e)
  <2>1. facts' = facts
    BY <1>1, <1>4
  <2>. QED  BY <1>3, <1>4, <2>1, UnchangedEvolves
<1>5. CASE Exists(e)
  <2>. DEFINE ids == accepted \cup {i \in pending \ last : band[i] = "accepted"}
  <2>1. facts' = [i \in DOMAIN facts |->
                     CASE i \in ids -> [st |-> "written", item |-> "none"]
                       [] i \in pending \ ids -> Gated(band[i])
                       [] OTHER -> facts[i]]
    BY <1>1, <1>5
  <2>2. \A i \in pending : /\ i \in DOMAIN facts /\ facts[i].st = "pending"
                           /\ i.ev = e /\ i.kind = "inferred"
    BY DEF FactsIn, FactsOf
  <2>3. \A i \in accepted : i \in DOMAIN facts /\ facts[i].st = "accepted"
    BY DEF FactsIn, FactsOf
  <2>4. \A i \in DOMAIN facts : i.ev = e /\ i.kind = "inferred" /\ facts[i].st = "accepted" =>
                                    i \in accepted
    BY DEF FactsIn, FactsOf
  <2>5. \A i \in pending : Sane(Gated(band[i]))
    BY GatedSane, BandsAssumption
  <2>6. ASSUME NEW i \in pending \ ids, Gated(band[i]).st = "accepted" PROVE i = x
    <3>1. band[i] = "accepted"
      BY <2>6 DEF Gated
    <3>. QED  BY <1>2, <2>6, <3>1
  <2>7. ids \subseteq accepted \cup pending
    OBVIOUS
  <2>8. accepted \subseteq ids
    OBVIOUS
  <2>. HIDE DEF ids, pending, accepted, e
  <2>9. DOMAIN facts' = DOMAIN facts
    BY <2>1
  <2>10. ASSUME NEW i \in DOMAIN facts
         PROVE  \/ i \in accepted /\ facts'[i] = [st |-> "written", item |-> "none"]
                \/ i \in pending /\ facts'[i] = [st |-> "written", item |-> "none"]
                \/ i \in pending \ ids /\ facts'[i] = Gated(band[i])
                \/ i \notin ids /\ i \notin pending /\ facts'[i] = facts[i]
    BY <2>1, <2>7
  <2>11. Evolves({})
    <3>1. Sane([st |-> "written", item |-> "none"])
      BY DEF Sane
    <3>2. \A i \in DOMAIN facts : facts[i].st = "accepted" => facts[i].item = "none"
      BY DEF FactsInv, Sane
    <3>. QED  BY <1>3, <2>2, <2>3, <2>5, <2>9, <2>10, <3>1, <3>2 DEF Evolves, StoreTypeOK
  <2>12. \A i \in DOMAIN facts' :
            i.kind = "inferred" /\ facts'[i].st = "accepted" =>
                i \in DOMAIN facts /\ (facts[i].st = "accepted" \/ (i.ev = e /\ i = x))
    BY <2>2, <2>6, <2>9, <2>10
  <2>13. \A i \in DOMAIN facts' :
            i.kind = "inferred" /\ i.ev = e /\ facts'[i].st = "accepted" => facts[i].st # "accepted"
    BY <2>2, <2>4, <2>8, <2>9, <2>10
  <2>. QED  BY <1>5, <2>11, <2>12, <2>13 DEF e
<1>. QED  BY <1>4, <1>5

LEMMA RunStepEvolves ==
    ASSUME StoreTypeOK, RunsOK, FactsInv, NEW t \in Threads, RunStep(t)
    PROVE  Evolves({}) /\ (AcceptsNoInference \/ Enrich(t))
<1>1. CASE UNCHANGED <<facts, gen>>
  BY <1>1, UnchangedEvolves
<1>2. CASE ClearFacts(t)
  BY <1>2, WithoutEvolves DEF ClearFacts
<1>3. CASE Resolve(t)
  BY <1>3, ResolveEvolves
<1>4. CASE Project(t)
  BY <1>4, ProjectEvolves
<1>5. CASE Infer(t)
  BY <1>5, InferEvolves
<1>6. CASE Enrich(t)
  BY <1>6, EnrichFacts
<1>. QED  BY <1>1, <1>2, <1>3, <1>4, <1>5, <1>6
          DEF RunStep, Stop, LoadText, FinishText, TextFails, MatchMentions, ResolveFails,
              LoadWrite, ReadAccepted, ConnectFails, ProjectFails, SkipEnrich, LoadEnrich,
              EnrichFails, FailWith, storeVars

\* A thread comes to hold facts to project only when it reads them.
LEMMA RunStepHolds ==
    ASSUME RunsOK, NEW t \in Threads, RunStep(t), NEW u \in Threads, At(u, "projecting")'
    PROVE  \/ At(u, "projecting") /\ thread'[u].ids = thread[u].ids
           \/ u = t /\ ReadAccepted(t)
<1>1. CASE Finish(t)
  BY <1>1 DEF Finish, RunsOK, At, Idle
<1>2. CASE \E pc : pc # "projecting" /\ Goto(t, pc)
  BY <1>2 DEF Goto, RunsOK, RunState, At
<1>3. CASE \E stage, pc, ids : pc # "projecting" /\ Load(t, stage, pc, ids)
  BY <1>3 DEF Load, RunsOK, RunState, At
<1>4. CASE MatchMentions(t)
  <2>1. PICK res : thread' = [thread EXCEPT ![t].pc = "resolving", ![t].res = res]
    BY <1>4 DEF MatchMentions
  <2>. QED  BY <2>1 DEF RunsOK, RunState, At
<1>5. CASE ReadAccepted(t)
  <2>1. u # t => thread'[u] = thread[u]
    BY <1>5 DEF ReadAccepted, RunsOK
  <2>. QED  BY <1>5, <2>1 DEF At
<1>6. CASE Stop(t) \/ TextFails(t) \/ ResolveFails(t) \/ ConnectFails(t) \/ ProjectFails(t)
           \/ SkipEnrich(t) \/ Enrich(t) \/ EnrichFails(t)
  BY <1>1, <1>6 DEF Stop, TextFails, ResolveFails, ConnectFails, ProjectFails, SkipEnrich,
                    Enrich, EnrichFails, FailWith
<1>7. CASE LoadText(t) \/ ClearFacts(t) \/ LoadWrite(t) \/ LoadEnrich(t)
  BY <1>3, <1>7 DEF LoadText, ClearFacts, LoadWrite, LoadEnrich
<1>8. CASE FinishText(t) \/ Resolve(t) \/ Infer(t)
  BY <1>2, <1>8 DEF FinishText, Resolve, Infer
<1>9. CASE Project(t)
  BY <1>1, <1>2, <1>9 DEF Project, FailWith
<1>. QED  BY <1>4, <1>5, <1>6, <1>7, <1>8, <1>9 DEF RunStep

LEMMA PoolStepFacts ==
    ASSUME Shape, Shape', FactsInv, NEW t \in Threads, PoolStep(t)
    PROVE  FactsInv' /\ Evolves({}) /\ (AcceptsNoInference \/ Enrich(t))
<1>0. StoreTypeOK /\ StoreTypeOK' /\ RunsOK /\ RunsOK' /\ client' = client
  BY DEF Shape, TypeOK, PoolStep, apiVars
<1>1. CASE StartRun(t)
  <2>1. Evolves({}) /\ AcceptsNoInference
    BY <1>0, <1>1, UnchangedEvolves DEF StartRun, storeVars
  <2>2. ASSUME NEW u \in Threads, At(u, "projecting")'
        PROVE  At(u, "projecting") /\ thread'[u].ids = thread[u].ids
    BY <1>0, <1>1, <2>2 DEF StartRun, RunsOK, At, Idle
  <2>3. \A u \in Threads : At(u, "projecting")' => \A i \in thread'[u].ids : Projectable(i)'
    BY <1>1, <2>2 DEF FactsInv, Projectable, StartRun, storeVars
  <2>. QED  BY <1>0, <1>1, <2>1, <2>3 DEF FactsInv, Reviewed, StartRun, storeVars
<1>2. CASE RunStep(t)
  <2>1. Evolves({}) /\ (AcceptsNoInference \/ Enrich(t))
    BY <1>0, <1>2, RunStepEvolves
  <2>2. /\ \A i \in DOMAIN facts' : Sane(facts'[i]) /\ i.gen <= gen'[i.ev]
        /\ \A i \in FactId : Projectable(i) => Projectable(i)'
        /\ \A i \in FactId : Reviewed(i) => Reviewed(i)'
    BY <1>0, <2>1, EvolvesKeeps DEF FactsInv
  <2>3. ASSUME NEW u \in Threads, At(u, "projecting")', NEW i \in thread'[u].ids
        PROVE  Projectable(i)'
    <3>1. i \in FactId
      BY <1>0 DEF RunsOK, RunState
    <3>2. CASE At(u, "projecting") /\ thread'[u].ids = thread[u].ids
      BY <2>2, <3>1, <3>2 DEF FactsInv
    <3>3. CASE u = t /\ ReadAccepted(t)
      <4>1. i \in FactsOf(Ev(t)) /\ facts[i].st = "accepted"
        BY <1>0, <3>3 DEF ReadAccepted, RunsOK, RunState
      <4>2. Projectable(i)
        BY <4>1 DEF FactsOf, FactsInv, Sane, Projectable
      <4>. QED  BY <2>2, <3>1, <4>2
    <3>. QED  BY <1>0, <1>2, <2>3, <3>2, <3>3, RunStepHolds
  <2>4. \A c \in Clients : client'[c].op \in FactOps => Reviewed(client[c].id)'
    BY <1>0, <2>2 DEF FactsInv, Shape, RequestsOK, Named
  <2>. QED  BY <2>1, <2>2, <2>3, <2>4 DEF FactsInv
<1>. QED  BY <1>1, <1>2 DEF PoolStep

-----------------------------------------------------------------------------
(* The steps of the requests                                               *)

\* The facts that requests are about to decide on.
Held == {client[c].id : c \in {d \in Clients : client[d].op \in FactOps}}

LEMMA RequestStepEvolves ==
    ASSUME Shape, FactsInv, NEW c \in Clients, Request(c) \/ HandlerStep(c)
    PROVE  Evolves(Held) /\ AcceptsNoInference
<1>0. StoreTypeOK
  BY DEF Shape, TypeOK
<1>1. CASE UNCHANGED <<facts, gen>>
  BY <1>0, <1>1, UnchangedEvolves, EvolvesMore
<1>2. CASE CommitDelete(c)
  BY <1>0, <1>2, WithoutEvolves, EvolvesMore DEF CommitDelete
<1>3. ASSUME NEW i \in DOMAIN facts, i \in Held, Reviewed(i), gen' = gen,
             Decide(i, "written", "approved") \/ Decide(i, "rejected", "rejected")
      PROVE  Evolves(Held) /\ AcceptsNoInference
  <2>1. \A e \in Evidence : gen[e] <= gen'[e]
    BY <1>0, <1>3 DEF StoreTypeOK
  <2>2. /\ DOMAIN facts' = DOMAIN facts
        /\ \A j \in DOMAIN facts : j # i => facts'[j] = facts[j]
        /\ facts'[i] \in {[st |-> "written", item |-> "approved"],
                          [st |-> "rejected", item |-> "rejected"]}
    BY <1>3 DEF Decide
  <2>. QED  BY <1>3, <2>1, <2>2 DEF Evolves, AcceptsNoInference, Reviewed
<1>4. CASE CommitApprove(c)
  <2>1. client[c].id \in Held /\ Reviewed(client[c].id)
    BY <1>4 DEF CommitApprove, Asks, FactOps, FactsInv, Held
  <2>. QED  BY <1>1, <1>3, <1>4, <2>1 DEF CommitApprove
<1>5. CASE CommitReject(c)
  <2>1. client[c].id \in Held /\ Reviewed(client[c].id)
    BY <1>5 DEF CommitReject, Asks, FactOps, FactsInv, Held
  <2>. QED  BY <1>1, <1>3, <1>5, <2>1 DEF CommitReject
<1>. QED  BY <1>1, <1>2, <1>4, <1>5
          DEF Request, HandlerStep, BeginIngest, CommitIngest, BeginRetry, CommitRetry, Cancel,
              BeginDelete, CollectTouched, CleanGraph, BeginApprove, ApproveInGraph, BeginReject,
              storeVars

LEMMA RequestStepHolds ==
    ASSUME Shape, NEW c \in Clients, Request(c) \/ HandlerStep(c),
           NEW d \in Clients, client'[d].op \in FactOps
    PROVE  \/ client[d].op \in FactOps /\ client'[d].id = client[d].id
           \/ Open(client'[d].id)
<1>0. client \in [Clients -> RequestState]
  BY DEF Shape, TypeOK, ApiTypeOK
<1>1. CASE Answer(c)
  BY <1>0, <1>1 DEF Answer, NoRequest, FactOps
<1>2. ASSUME NEW i, BeginApprove(c, i) \/ BeginReject(c, i)
      PROVE  \/ client[d].op \in FactOps /\ client'[d].id = client[d].id
             \/ Open(client'[d].id)
  BY <1>0, <1>2 DEF BeginApprove, BeginReject, RequestState
<1>3. ASSUME client[c].op \in FactOps, client' = [client EXCEPT ![c].op = "deciding"]
      PROVE  client[d].op \in FactOps /\ client'[d].id = client[d].id
  BY <1>0, <1>3 DEF RequestState
<1>4. ASSUME NEW e, BeginIngest(c, e) \/ BeginRetry(c, e) \/ BeginDelete(c, e) \/ Cancel(c, e)
      PROVE  client[d].op \in FactOps /\ client'[d].id = client[d].id
  BY <1>0, <1>4 DEF BeginIngest, BeginRetry, BeginDelete, Cancel, RequestState, FactOps, apiVars
<1>5. ASSUME CollectTouched(c) \/ CommitDelete(c)
      PROVE  client[d].op \in FactOps /\ client'[d].id = client[d].id
  BY <1>0, <1>5 DEF CollectTouched, CommitDelete, RequestState, FactOps
<1>6. CASE ApproveInGraph(c)
  BY <1>1, <1>3, <1>6 DEF ApproveInGraph, Asks, FactOps
<1>. QED  BY <1>1, <1>2, <1>4, <1>5, <1>6
          DEF Request, HandlerStep, CommitIngest, CommitRetry, CleanGraph, CommitApprove,
              CommitReject

LEMMA RequestStepFacts ==
    ASSUME Shape, Shape', FactsInv, NEW c \in Clients, Request(c) \/ HandlerStep(c)
    PROVE  FactsInv' /\ Evolves(Held) /\ AcceptsNoInference
<1>0. StoreTypeOK /\ StoreTypeOK' /\ RunsOK
  BY DEF Shape, TypeOK
<1>1. Evolves(Held) /\ AcceptsNoInference
  BY RequestStepEvolves
<1>2. /\ \A i \in DOMAIN facts' : Sane(facts'[i]) /\ i.gen <= gen'[i.ev]
      /\ \A i \in FactId : Projectable(i) => Projectable(i)'
      /\ \A i \in FactId : Reviewed(i) => Reviewed(i)'
  BY <1>0, <1>1, EvolvesKeeps DEF FactsInv
<1>3. thread' = thread
  <2>1. ApiShape
    BY DEF Shape, ApiShape, TypeOK, PipelineTypeOK
  <2>. QED  BY <2>1, IngestShape, RetryCancelShape, DeleteShape, ReviewShape DEF Request, HandlerStep
<1>4. \A t \in Threads : At(t, "projecting")' => \A i \in thread'[t].ids : Projectable(i)'
  BY <1>0, <1>2, <1>3 DEF FactsInv, At, RunsOK, RunState
<1>5. ASSUME NEW d \in Clients, client'[d].op \in FactOps, NEW i, i = client'[d].id
      PROVE  Reviewed(i)'
  <2>1. i \in FactId
    BY <1>5 DEF Shape, RequestsOK, Named
  <2>2. Reviewed(i)
    <3>1. CASE client[d].op \in FactOps /\ client'[d].id = client[d].id
      BY <1>5, <3>1 DEF FactsInv
    <3>2. CASE Open(i)
      BY <3>2 DEF Open, FactsInv, Reviewed
    <3>. QED  BY <1>5, <3>1, <3>2, RequestStepHolds
  <2>. QED  BY <1>2, <2>1, <2>2
<1>. QED  BY <1>1, <1>2, <1>4, <1>5 DEF FactsInv

LEMMA RestartFacts ==
    ASSUME Shape, FactsInv, Restart
    PROVE  FactsInv' /\ Evolves({}) /\ AcceptsNoInference
<1>1. Evolves({}) /\ AcceptsNoInference
  BY UnchangedEvolves DEF Restart, Shape, TypeOK
<1>2. /\ \A t \in Threads : ~At(t, "projecting")'
      /\ \A c \in Clients : client'[c].op \notin FactOps
  BY DEF Restart, At, Idle, NoRequest, FactOps
<1>. QED  BY <1>1, <1>2 DEF Restart, FactsInv

-----------------------------------------------------------------------------
(* The review queue                                                        *)

LEMMA InitFacts == Init => FactsInv
<1>. SUFFICES ASSUME Init PROVE FactsInv
  OBVIOUS
<1>1. DOMAIN facts = {}
  BY DEF Init, StoreInit
<1>2. \A t \in Threads : ~At(t, "projecting")
  BY DEF Init, PipelineInit, At, Idle
<1>3. \A c \in Clients : client[c].op \notin FactOps
  BY DEF Init, ApiInit, NoRequest, FactOps
<1>. QED  BY <1>1, <1>2, <1>3 DEF FactsInv

LEMMA NextFacts ==
    ASSUME Shape, Shape', FactsInv, [Next]_vars
    PROVE  /\ FactsInv' /\ Evolves(Held)
           /\ AcceptsNoInference \/ \E t \in Threads : Enrich(t)
<1>1. CASE UNCHANGED vars
  <2>1. Evolves(Held) /\ AcceptsNoInference
    BY <1>1, UnchangedEvolves, EvolvesMore DEF vars, storeVars, Shape, TypeOK
  <2>. QED  BY <1>1, <2>1 DEF vars, storeVars, pipelineVars, apiVars, FactsInv, Projectable,
                             Reviewed, At
<1>. QED  BY <1>1, PoolStepFacts, RequestStepFacts, RestartFacts, EvolvesMore DEF Next

\* What is in the database of facts and what threads and requests read of it
\* some time ago fit together, in every state of every instance.
THEOREM FactsInvariant == Spec => []FactsInv
<1>1. Shape /\ Shape' /\ FactsInv /\ [Next]_vars => FactsInv'
  BY NextFacts
<1>. QED  BY <1>1, InitFacts, ShapeInvariant, PTL DEF Spec

\* ReviewMatchesFact for every instance: the review queue shows exactly the
\* facts that wait for a decision, however stages, reviewers, retries, deletes
\* and restarts come between each other's reads and commits.
THEOREM ReviewQueueIsTrue == Spec => []ReviewMatchesFact
<1>1. FactsInv => ReviewMatchesFact
  BY DEF FactsInv, Sane, ReviewMatchesFact
<1>. QED  BY <1>1, FactsInvariant, PTL

-----------------------------------------------------------------------------
(* Accepted inferences                                                     *)

\* One accepted inference of an evidence at most is waiting.
OneWaits ==
    \A i, j \in DOMAIN facts :
        /\ i.kind = "inferred" /\ facts[i].st = "accepted"
        /\ j.kind = "inferred" /\ facts[j].st = "accepted"
        /\ i.ev = j.ev
        => i = j

LEMMA EnrichOneWaits ==
    ASSUME StoreTypeOK, FactsInv, OneWaits, NEW t \in Threads, Enrich(t)
    PROVE  OneWaits'
<1>1. CASE ~Exists(Ev(t))
  <2>1. facts' = facts
    BY <1>1, EnrichFacts
  <2>. QED  BY <2>1 DEF OneWaits
<1>2. CASE Exists(Ev(t))
  <2>1. PICK last : \A i \in DOMAIN facts' :
           i.kind = "inferred" /\ facts'[i].st = "accepted" =>
               i \in DOMAIN facts /\ (facts[i].st = "accepted" \/ (i.ev = Ev(t) /\ i = last))
    BY EnrichFacts
  <2>2. \A i \in DOMAIN facts' :
           i.kind = "inferred" /\ i.ev = Ev(t) /\ facts'[i].st = "accepted" =>
               facts[i].st # "accepted"
    BY <1>2, EnrichFacts
  <2>. QED  BY <2>1, <2>2 DEF OneWaits
<1>. QED  BY <1>1, <1>2

LEMMA NextOneWaits == Shape /\ Shape' /\ FactsInv /\ OneWaits /\ [Next]_vars => OneWaits'
<1>. SUFFICES ASSUME Shape, Shape', FactsInv, OneWaits, [Next]_vars PROVE OneWaits'
  OBVIOUS
<1>1. CASE AcceptsNoInference
  BY <1>1 DEF AcceptsNoInference, OneWaits
<1>2. ASSUME NEW t \in Threads, Enrich(t) PROVE OneWaits'
  BY <1>2, EnrichOneWaits DEF Shape, TypeOK
<1>. QED  BY <1>1, <1>2, NextFacts

\* AtMostOneLeftOut for every instance: however many inferences an evidence's
\* enrichments propose and however they are gated, at most one that was accepted
\* is left out of the graph, although the session does not autoflush.
THEOREM OneInferenceLeftOut == Spec => []AtMostOneLeftOut
<1>1. OneWaits => AtMostOneLeftOut
  <2>. SUFFICES ASSUME OneWaits, NEW e \in Evidence
                PROVE  Cardinality(FactsIn(e, {"inferred"}, "accepted")) <= 1
    BY DEF AtMostOneLeftOut
  <2>. DEFINE waiting == FactsIn(e, {"inferred"}, "accepted")
  <2>1. \A i, j \in waiting : i = j
    BY DEF OneWaits, FactsIn, FactsOf
  <2>. HIDE DEF waiting
  <2>2. Cardinality(waiting) \in {0, 1}
    BY <2>1, OneElement
  <2>. QED  BY <2>2 DEF waiting
<1>2. Init => OneWaits
  BY DEF Init, StoreInit, OneWaits
<1>. QED  BY <1>1, <1>2, NextOneWaits, FactsInvariant, ShapeInvariant, PTL DEF Spec

-----------------------------------------------------------------------------
(* Decisions                                                               *)

\* Two requests decide on one fact against each other: the item is read, the
\* graph is called, and only then the decision is committed.  What is said of
\* decisions holds of requests that do not overlap.
OneRequest == \A c, d \in Clients : c = d

\* What a request is about to decide on is still to be decided.
HeldIsOpen == \A i \in Held : i \in DOMAIN facts => facts[i].item = "open"

LEMMA PoolHeldIsOpen ==
    ASSUME Shape, Shape', FactsInv, HeldIsOpen, NEW t \in Threads, PoolStep(t)
    PROVE  HeldIsOpen'
<1>1. Evolves({})
  BY PoolStepFacts
<1>2. client' = client
  BY DEF PoolStep, apiVars
<1>3. \A i \in DOMAIN facts' : i.gen <= gen[i.ev] => i \in DOMAIN facts
  BY <1>1, EvolvesKeeps DEF Shape, TypeOK, FactsInv
<1>4. ASSUME NEW i \in Held, i \in DOMAIN facts' PROVE facts'[i].item = "open"
  <2>1. i \in DOMAIN facts
    BY <1>3, <1>4 DEF Held, FactsInv, Reviewed
  <2>2. facts[i].item = "open" /\ Sane(facts[i])
    BY <1>4, <2>1 DEF HeldIsOpen, FactsInv
  <2>. QED  BY <1>1, <1>4, <2>1, <2>2 DEF Evolves, Sane
<1>. QED  BY <1>2, <1>4 DEF HeldIsOpen, Held

LEMMA RequestHeldIsOpen ==
    ASSUME OneRequest, Shape, HeldIsOpen, NEW c \in Clients, Request(c) \/ HandlerStep(c)
    PROVE  HeldIsOpen'
<1>0. client \in [Clients -> RequestState]
  BY DEF Shape, TypeOK, ApiTypeOK
<1>1. CASE client'[c].op \notin FactOps
  BY <1>1 DEF HeldIsOpen, Held, OneRequest
<1>2. CASE facts' = facts
  <2>1. ASSUME NEW d \in Clients, client'[d].op \in FactOps, client'[d].id \in DOMAIN facts
        PROVE  facts[client'[d].id].item = "open"
    BY <2>1, RequestStepHolds DEF HeldIsOpen, Held, Open
  <2>. QED  BY <1>2, <2>1 DEF HeldIsOpen, Held
<1>3. CASE CommitApprove(c) \/ CommitReject(c)
  BY <1>0, <1>1, <1>3 DEF CommitApprove, CommitReject, Answer, NoRequest, FactOps
<1>4. CASE CommitDelete(c)
  BY <1>0, <1>1, <1>4 DEF CommitDelete, RequestState, FactOps
<1>. QED  BY <1>2, <1>3, <1>4
          DEF Request, HandlerStep, BeginIngest, CommitIngest, BeginRetry, CommitRetry, Cancel,
              BeginDelete, CollectTouched, CleanGraph, BeginApprove, ApproveInGraph, BeginReject,
              storeVars

LEMMA NextHeldIsOpen ==
    ASSUME OneRequest
    PROVE  Shape /\ Shape' /\ FactsInv /\ HeldIsOpen /\ [Next]_vars => HeldIsOpen'
<1>. SUFFICES ASSUME Shape, Shape', FactsInv, HeldIsOpen, [Next]_vars PROVE HeldIsOpen'
  OBVIOUS
<1>1. CASE Restart
  BY <1>1 DEF Restart, NoRequest, FactOps, HeldIsOpen, Held
<1>2. CASE UNCHANGED vars
  BY <1>2 DEF vars, storeVars, apiVars, HeldIsOpen, Held
<1>. QED  BY <1>1, <1>2, PoolHeldIsOpen, RequestHeldIsOpen DEF Next

\* DecisionsStick for any number of evidences, facts, pool threads, retries,
\* deletes and restarts: once a reviewer, or the gate, has closed a review item,
\* no later step of a stage or a request changes the fact or the item.
THEOREM DecisionsAreKept ==
    ASSUME OneRequest
    PROVE  Spec => DecisionsStick
<1>. DEFINE Kept == \A i \in DOMAIN facts \cap DOMAIN facts' :
                        facts[i].item \in {"approved", "rejected"} => facts'[i] = facts[i]
<1>1. Init => HeldIsOpen
  BY DEF Init, ApiInit, NoRequest, FactOps, HeldIsOpen, Held
<1>2. Shape /\ Shape' /\ FactsInv /\ HeldIsOpen /\ [Next]_vars => [Kept]_vars
  <2>. SUFFICES ASSUME Shape, Shape', FactsInv, HeldIsOpen, [Next]_vars,
                       NEW i \in DOMAIN facts \cap DOMAIN facts',
                       facts[i].item \in {"approved", "rejected"}
                PROVE  facts'[i] = facts[i]
    OBVIOUS
  <2>1. Evolves(Held)
    BY NextFacts
  <2>2. i \notin Held
    BY DEF HeldIsOpen
  <2>3. Sane(facts[i])
    BY DEF FactsInv
  <2>. QED  BY <2>1, <2>2, <2>3 DEF Evolves, Sane
<1>. QED  BY <1>1, <1>2, NextHeldIsOpen, FactsInvariant, ShapeInvariant, PTL
          DEF Spec, DecisionsStick

-----------------------------------------------------------------------------
(* Evidence that is not deleted under its run                              *)

\* A run, or what waits to run, has its row, as long as no delete commits
\* beside it.
WorkIsPresent ==
    /\ \A t \in Threads : ~At(t, "idle") => Exists(Ev(t))
    /\ \A e \in Evidence : Queued(e) => Exists(e)

PresentInv == WorkIsPresent /\ FactsHaveEvidence

\* Why none does unless it is forced: an evidence is deleted when it has ended,
\* and stays so while its request is the only one.
DeletesTheEnded ==
    \A c \in Clients :
        client[c].op \in {"deleting", "scrubbing"} => row[client[c].ev].st \in TERMINAL_STATUSES

\* A run leaves its row in place, and the others alone.
LEMMA RunKeepsRows ==
    ASSUME Shape, RunsInv, WorkIsPresent, NEW t \in Threads, RunStep(t)
    PROVE  /\ ~At(t, "idle") /\ Ev(t) \in Evidence /\ Exists(Ev(t))
           /\ row[Ev(t)].st = Before(thread[t].pc) /\ row[Ev(t)].st \in ACTIVE_STATUSES
           /\ row'[Ev(t)].st \in ACTIVE_STATUSES \cup TERMINAL_STATUSES
           /\ \A e \in Evidence : e # Ev(t) => row'[e] = row[e]
           /\ queue' = queue
           /\ \A u \in Threads : u # t => thread'[u] = thread[u]
           /\ Ev(t)' = Ev(t) \/ At(t, "idle")'
<1>0. StoreTypeOK /\ RunsOK
  BY DEF Shape, TypeOK
<1>1. Proceeds(t) /\ ~At(t, "idle")
  BY <1>0, RunStepProceeds
     DEF RunsInv, RunStep, Stop, LoadText, FinishText, TextFails, ClearFacts, MatchMentions,
         Resolve, ResolveFails, LoadWrite, ReadAccepted, ConnectFails, Project, ProjectFails,
         SkipEnrich, LoadEnrich, Infer, Enrich, EnrichFails, Load, At, Boundaries
<1>2. Ev(t) \in Evidence /\ Exists(Ev(t))
  BY <1>0, <1>1, WorksOnEvidence DEF WorkIsPresent
<1>3. Before(thread[t].pc) \in ACTIVE_STATUSES
  BY <1>0, <1>1, BeforeIsActive DEF RunsOK, RunState, At
<1>4. row[Ev(t)].st = Before(thread[t].pc)
  BY <1>1, <1>2 DEF RunsInv, OnCourse, Exists, ACTIVE_STATUSES, TERMINAL_STATUSES
<1>5. row'[Ev(t)].st \in ACTIVE_STATUSES \cup TERMINAL_STATUSES
  BY <1>1, <1>3, <1>4 DEF Proceeds, Progresses, Advances, ACTIVE_STATUSES, TERMINAL_STATUSES
<1>6. Ev(t)' = Ev(t) \/ At(t, "idle")'
  BY <1>1 DEF Proceeds
<1>. QED  BY <1>1, <1>2, <1>3, <1>4, <1>5, <1>6
          DEF Proceeds, ACTIVE_STATUSES, TERMINAL_STATUSES

\* What a run adds to the facts: those of its resolve stage, and inferences.
LEMMA RunAddsFacts ==
    ASSUME Shape, NEW t \in Threads, RunStep(t),
           NEW i \in DOMAIN facts', i \notin DOMAIN facts
    PROVE  i.ev = Ev(t) /\ (Resolve(t) \/ (Infer(t) /\ i.kind = "inferred"))
<1>1. facts' # facts
  OBVIOUS
<1>2. CASE Resolve(t)
  <2>. DEFINE e == Ev(t)
              ids == {m.id : m \in thread[t].res}
  <2>1. PICK band \in [ids -> Bands], relBand \in Bands,
             rels \in {{}} \cup {{p} : p \in {q \in ids \X ids : q[1] # q[2]}} :
           LET new == ResolvedFacts(e, thread[t].res, band, rels, relBand)
           IN  facts' = [j \in DOMAIN facts \cup DOMAIN new |->
                            IF j \in DOMAIN new THEN new[j] ELSE facts[j]]
    BY <1>2 DEF Resolve
  <2>. DEFINE new == ResolvedFacts(e, thread[t].res, band, rels, relBand)
  <2>2. i \in DOMAIN new
    BY <2>1
  <2>3. \A j \in DOMAIN new : /\ j.ev = e /\ j.gen = gen[e] + 1 /\ j.kind # "inferred"
                              /\ Sane(new[j])
    BY ResolvedFactsAreNew
  <2>. HIDE DEF new
  <2>4. i.ev = e
    BY <2>2, <2>3
  <2>. QED  BY <1>2, <2>4
<1>3. CASE Infer(t)
  <2>. DEFINE e == Ev(t)
              id(p) == [ev |-> e, gen |-> gen[e] + 1, kind |-> "inferred", src |-> p[1], tgt |-> p[2]]
  <2>1. PICK P \in SUBSET Proposable(thread[t].ids) :
           facts' = [j \in DOMAIN facts \cup {id(p) : p \in P} |->
                        IF j \in DOMAIN facts THEN facts[j] ELSE [st |-> "pending", item |-> "none"]]
    BY <1>3 DEF Infer
  <2>2. PICK p \in P : i = id(p)
    BY <2>1
  <2>. QED  BY <1>3, <2>2
<1>4. CASE ClearFacts(t)
  BY <1>4 DEF ClearFacts, WithoutFactsOf
<1>5. CASE Project(t)
  BY <1>5 DEF Project, FailWith, WithStatus
<1>6. CASE Enrich(t)
  <2>1. PICK f : facts' = IF ~Exists(Ev(t)) THEN facts ELSE [j \in DOMAIN facts |-> f[j]]
    <3>. DEFINE pending == FactsIn(Ev(t), {"inferred"}, "pending")
    <3>1. PICK band \in [pending -> Bands], last \in Unflushed(pending) :
             LET ids == FactsIn(Ev(t), {"inferred"}, "accepted")
                            \cup {j \in pending \ last : band[j] = "accepted"}
             IN  facts' = IF ~Exists(Ev(t)) THEN facts
                          ELSE [j \in DOMAIN facts |->
                                   CASE j \in ids -> [st |-> "written", item |-> "none"]
                                     [] j \in pending \ ids -> Gated(band[j])
                                     [] OTHER -> facts[j]]
      BY <1>6 DEF Enrich
    <3>. DEFINE ids == FactsIn(Ev(t), {"inferred"}, "accepted")
                           \cup {j \in pending \ last : band[j] = "accepted"}
    <3>. WITNESS [j \in DOMAIN facts |->
                                   CASE j \in ids -> [st |-> "written", item |-> "none"]
                                     [] j \in pending \ ids -> Gated(band[j])
                                     [] OTHER -> facts[j]]
    <3>. HIDE DEF ids, pending
    <3>. QED  BY <3>1 DEF ids, pending
  <2>. QED  BY <2>1
<1>. QED  BY <1>1, <1>2, <1>3, <1>4, <1>5, <1>6
          DEF RunStep, Stop, LoadText, FinishText, TextFails, MatchMentions, ResolveFails,
              LoadWrite, ReadAccepted, ConnectFails, ProjectFails, SkipEnrich, LoadEnrich,
              EnrichFails, FailWith, storeVars

\* The steps keep PresentInv: runs, the executor, requests and the sweep.
LEMMA RunKeepsPresent ==
    ASSUME Shape, RunsInv, PresentInv, NEW t \in Threads, RunStep(t), client' = client
    PROVE  PresentInv'
<1>0. RunsOK
  BY DEF Shape
<1>1. /\ ~At(t, "idle") /\ Ev(t) \in Evidence /\ Exists(Ev(t))
      /\ row[Ev(t)].st \in ACTIVE_STATUSES
      /\ row'[Ev(t)].st \in ACTIVE_STATUSES \cup TERMINAL_STATUSES
      /\ \A e \in Evidence : e # Ev(t) => row'[e] = row[e]
      /\ queue' = queue
      /\ \A u \in Threads : u # t => thread'[u] = thread[u]
      /\ Ev(t)' = Ev(t) \/ At(t, "idle")'
  BY RunKeepsRows DEF PresentInv
<1>2. \A e \in Evidence : Exists(e) => Exists(e)'
  BY <1>1 DEF Exists
<1>3. WorkIsPresent'
  <2>1. ASSUME NEW u \in Threads, ~At(u, "idle")' PROVE Exists(Ev(u))'
    <3>1. ~At(u, "idle") /\ Ev(u)' = Ev(u)
      BY <1>1, <2>1 DEF At, Ev
    <3>2. Ev(u) \in Evidence /\ Exists(Ev(u))
      BY <1>0, <3>1, WorksOnEvidence DEF PresentInv, WorkIsPresent
    <3>3. row'[Ev(u)].st \in ACTIVE_STATUSES \cup TERMINAL_STATUSES
      BY <1>2, <3>2 DEF Exists
    <3>. QED  BY <3>1, <3>3 DEF Exists
  <2>. QED  BY <1>1, <1>2, <2>1 DEF PresentInv, WorkIsPresent, Queued
<1>5. FactsHaveEvidence'
  <2>. SUFFICES ASSUME NEW i \in DOMAIN facts' PROVE i.ev \in Evidence /\ Exists(i.ev)
    BY <1>2 DEF FactsHaveEvidence
  <2>1. CASE i \in DOMAIN facts
    BY <2>1 DEF Shape, TypeOK, StoreTypeOK, FactId, PresentInv, FactsHaveEvidence
  <2>2. CASE i \notin DOMAIN facts
    BY <1>1, <2>2, RunAddsFacts
  <2>. QED  BY <2>1, <2>2
<1>. QED  BY <1>3, <1>5 DEF PresentInv

LEMMA StartRunKeepsPresent ==
    ASSUME Shape, PresentInv, NEW t \in Threads, StartRun(t), client' = client
    PROVE  PresentInv'
<1>0. RunsOK /\ queue \in Seq(Evidence)
  BY DEF Shape, TypeOK, PipelineTypeOK
<1>1. /\ queue # <<>> /\ queue' = Tail(queue) /\ UNCHANGED storeVars
      /\ \A u \in Threads : u # t => thread'[u] = thread[u]
      /\ thread'[t].ev = Head(queue)
  BY <1>0 DEF StartRun, RunsOK, Idle
<1>2. /\ Head(queue) = queue[1] /\ 1 \in 1..Len(queue)
      /\ \A n \in 1..Len(queue') : queue'[n] = queue[n + 1] /\ n + 1 \in 1..Len(queue)
  BY <1>0, <1>1
<1>3. Queued(Head(queue)) /\ Head(queue) \in Evidence
  BY <1>0, <1>2 DEF Queued
<1>4. \A e \in Evidence : Queued(e)' => Queued(e)
  BY <1>2 DEF Queued
<1>. QED  BY <1>1, <1>3, <1>4 DEF PresentInv, WorkIsPresent, FactsHaveEvidence,
                                  storeVars, Exists, Queued, At, Ev

\* A request that deletes nothing keeps rows, and leaves the facts' uuids.
LEMMA RequestKeepsRows ==
    ASSUME Shape, RunsInv, NEW c \in Clients, Request(c) \/ HandlerStep(c)
    PROVE  /\ thread' = thread
           /\ \A d \in Clients : d # c => client'[d] = client[d]
           /\ DOMAIN facts' \subseteq DOMAIN facts
           /\ ~CommitDelete(c) => /\ DOMAIN facts' = DOMAIN facts
                                  /\ \A e \in Evidence : Exists(e) => Exists(e)'
                                  /\ \A e \in Evidence : row[e].st = "deleted" => row'[e] = row[e]
<1>0. /\ StoreTypeOK /\ RunsOK /\ client \in [Clients -> RequestState]
      /\ client[c].op \in EvidenceOps => client[c].ev \in Evidence
  BY DEF Shape, TypeOK, ApiTypeOK, RequestsOK, Named
<1>1. thread' = thread
  <2>1. ApiShape
    BY DEF Shape, ApiShape, TypeOK, PipelineTypeOK
  <2>. QED  BY <2>1, IngestShape, RetryCancelShape, DeleteShape, ReviewShape DEF Request, HandlerStep
<1>2. \A d \in Clients : d # c => client'[d] = client[d]
  BY <1>0 DEF Request, HandlerStep, BeginIngest, CommitIngest, BeginRetry, CommitRetry, Cancel,
              BeginDelete, CollectTouched, CommitDelete, CleanGraph, BeginApprove,
              ApproveInGraph, CommitApprove, BeginReject, CommitReject, Answer, apiVars
<1>3. DOMAIN facts' \subseteq DOMAIN facts /\ (~CommitDelete(c) => DOMAIN facts' = DOMAIN facts)
  BY DEF Request, HandlerStep, BeginIngest, CommitIngest, BeginRetry, CommitRetry, Cancel,
         BeginDelete, CollectTouched, CommitDelete, CleanGraph, BeginApprove, ApproveInGraph,
         CommitApprove, BeginReject, CommitReject, storeVars, Decide, WithoutFactsOf
<1>4. ASSUME ~CommitDelete(c), NEW e \in Evidence
      PROVE  (Exists(e) => Exists(e)') /\ (row[e].st = "deleted" => row'[e] = row[e])
  <2>1. CASE row' = row
    BY <2>1 DEF Exists
  <2>2. CASE CommitIngest(c)
    <3>1. client[c].ev \in Evidence /\ row[client[c].ev].st = "none"
      BY <1>0, <2>2 DEF CommitIngest, Asks, EvidenceOps, RunsInv, StillSo
    <3>2. CASE e = client[c].ev
      BY <3>1, <3>2 DEF Exists, ACTIVE_STATUSES, TERMINAL_STATUSES
    <3>3. CASE e # client[c].ev
      BY <1>0, <2>2, <3>3 DEF CommitIngest, StoreTypeOK, Exists
    <3>. QED  BY <3>2, <3>3
  <2>3. CASE CommitRetry(c) /\ row' # row
    <3>1. /\ client[c].ev \in Evidence /\ Exists(client[c].ev)
          /\ row'[client[c].ev].st = "uploaded"
          /\ \A f \in Evidence : f # client[c].ev => row'[f] = row[f]
      BY <1>0, <2>3 DEF CommitRetry, Asks, EvidenceOps, StoreTypeOK, Row
    <3>2. row[client[c].ev].st # "deleted"
      BY <3>1 DEF Exists, ACTIVE_STATUSES, TERMINAL_STATUSES
    <3>. QED  BY <3>1, <3>2 DEF Exists, ACTIVE_STATUSES
  <2>4. ASSUME NEW f \in Evidence, row[f].st \in ACTIVE_STATUSES,
               row' = [row EXCEPT ![f].cancel = TRUE]
        PROVE  (Exists(e) => Exists(e)') /\ (row[e].st = "deleted" => row'[e] = row[e])
    <3>1. row'[e].st = row[e].st /\ (e # f => row'[e] = row[e])
      BY <1>0, <2>4 DEF StoreTypeOK, Row
    <3>. QED  BY <2>4, <3>1 DEF Exists, ACTIVE_STATUSES
  <2>5. ASSUME NEW f \in Evidence, Cancel(c, f) PROVE row[f].st \in ACTIVE_STATUSES /\ row' = [row EXCEPT ![f].cancel = TRUE]
    BY <2>5 DEF Cancel
  <2>6. ASSUME NEW f \in Evidence, BeginDelete(c, f), row' # row
        PROVE  row[f].st \in ACTIVE_STATUSES /\ row' = [row EXCEPT ![f].cancel = TRUE]
    BY <2>6 DEF BeginDelete
  <2>. QED  BY <1>4, <2>1, <2>2, <2>3, <2>4, <2>5, <2>6
            DEF Request, HandlerStep, BeginIngest, BeginRetry, CollectTouched, CleanGraph,
                BeginApprove, ApproveInGraph, CommitApprove, BeginReject, CommitReject, storeVars
<1>. QED  BY <1>1, <1>2, <1>3, <1>4

LEMMA RequestKeepsPresent ==
    ASSUME OneRequest, Shape, RunsInv, PresentInv, NEW c \in Clients,
           Request(c) \/ HandlerStep(c), CommitDelete(c) => ~InFlight(client[c].ev)
    PROVE  PresentInv'
<1>0. /\ StoreTypeOK /\ RunsOK /\ client \in [Clients -> RequestState] /\ queue \in Seq(Evidence)
      /\ client[c].op \in EvidenceOps => client[c].ev \in Evidence
      /\ \A d \in Clients : d = c
  BY DEF Shape, TypeOK, ApiTypeOK, PipelineTypeOK, RequestsOK, Named, OneRequest
<1>1. thread' = thread
  BY RequestKeepsRows
<1>2. ASSUME ~CommitDelete(c) PROVE PresentInv'
  <2>1. /\ DOMAIN facts' = DOMAIN facts
        /\ \A e \in Evidence : Exists(e) => Exists(e)'
    BY <1>2, RequestKeepsRows
  <2>2. FactsHaveEvidence'
    BY <2>1 DEF PresentInv, FactsHaveEvidence, Shape, TypeOK, StoreTypeOK, FactId
  <2>3. ASSUME NEW t \in Threads, ~At(t, "idle")' PROVE Exists(Ev(t))'
    <3>1. Ev(t) \in Evidence /\ Exists(Ev(t)) /\ Ev(t)' = Ev(t)
      BY <1>0, <1>1, <2>3, WorksOnEvidence DEF PresentInv, WorkIsPresent, At, Ev
    <3>. QED  BY <2>1, <3>1 DEF Exists
  <2>4. ASSUME NEW e \in Evidence, Queued(e)' PROVE Exists(e)'
    <3>1. CASE queue' = queue
      BY <2>1, <2>4, <3>1 DEF PresentInv, WorkIsPresent, Queued
    <3>2. CASE Dispatch(client[c].ev) /\ row'[client[c].ev].st = "uploaded"
      <4>1. Queued(e) \/ e = client[c].ev
        <5>1. /\ Len(queue) \in Nat /\ Len(queue') = Len(queue) + 1
              /\ \A n \in 1..Len(queue) : queue'[n] = queue[n]
              /\ queue'[Len(queue) + 1] = client[c].ev
          BY <1>0, <3>2, AppendProperties, LenProperties DEF Dispatch
        <5>. QED  BY <2>4, <5>1 DEF Queued
      <4>. QED  BY <2>1, <3>2, <4>1 DEF PresentInv, WorkIsPresent, Exists, ACTIVE_STATUSES
    <3>3. ASSUME CommitIngest(c) \/ CommitRetry(c), queue' # queue
          PROVE  Dispatch(client[c].ev) /\ row'[client[c].ev].st = "uploaded"
      BY <1>0, <3>3 DEF CommitIngest, CommitRetry, Asks, EvidenceOps, StoreTypeOK, Row
    <3>. QED  BY <1>2, <3>1, <3>2, <3>3
              DEF Request, HandlerStep, BeginIngest, BeginRetry, Cancel, BeginDelete,
                  CollectTouched, CleanGraph, BeginApprove, ApproveInGraph, CommitApprove,
                  BeginReject, CommitReject, pipelineVars
  <2>. QED  BY <2>2, <2>3, <2>4 DEF PresentInv, WorkIsPresent
<1>3. CASE CommitDelete(c)
  <2>. DEFINE e == client[c].ev
  <2>1. /\ e \in Evidence /\ queue' = queue
        /\ \A f \in Evidence : f # e => row'[f] = row[f]
        /\ facts' = WithoutFactsOf(e)
    BY <1>0, <1>3 DEF CommitDelete, Asks, EvidenceOps, StoreTypeOK, pipelineVars
  <2>2. ~InFlight(e)
    BY <1>3
  <2>. HIDE DEF e
  <2>3. FactsHaveEvidence'
    BY <1>0, <2>1 DEF PresentInv, FactsHaveEvidence, StoreTypeOK, FactId, WithoutFactsOf, FactsOf,
                      Exists
  <2>4. WorkIsPresent'
    <3>1. ASSUME NEW t \in Threads, ~At(t, "idle")' PROVE Exists(Ev(t))'
      <4>1. Ev(t) \in Evidence /\ Exists(Ev(t)) /\ Ev(t)' = Ev(t) /\ Ev(t) # e
        BY <1>0, <1>1, <2>2, <3>1, WorksOnEvidence DEF PresentInv, WorkIsPresent, At, Ev, InFlight
      <4>. QED  BY <2>1, <4>1 DEF Exists
    <3>2. ASSUME NEW f \in Evidence, Queued(f)' PROVE Exists(f)'
      BY <2>1, <2>2, <3>2 DEF PresentInv, WorkIsPresent, Queued, InFlight, Exists
    <3>. QED  BY <3>1, <3>2 DEF WorkIsPresent
  <2>. QED  BY <2>3, <2>4 DEF PresentInv
<1>. QED  BY <1>2, <1>3

LEMMA RestartKeepsPresent ==
    ASSUME Shape, PresentInv, Restart
    PROVE  PresentInv'
<1>1. \A e \in Evidence : Exists(e) => Exists(e)'
  BY DEF Restart, Swept, Shape, TypeOK, StoreTypeOK, Row, Exists, ACTIVE_STATUSES,
         TERMINAL_STATUSES
<1>2. FactsHaveEvidence'
  BY <1>1 DEF Restart, PresentInv, FactsHaveEvidence, Shape, TypeOK, StoreTypeOK, FactId
<1>3. \A t \in Threads : At(t, "idle")'
  BY DEF Restart, At, Idle
<1>4. Len(queue') = 0
  BY EmptySeq DEF Restart
<1>. QED  BY <1>2, <1>3, <1>4 DEF PresentInv, WorkIsPresent, Queued

LEMMA InitPresent == Init => PresentInv
<1>. SUFFICES ASSUME Init PROVE PresentInv
  OBVIOUS
<1>1. \A t \in Threads : At(t, "idle")
  BY DEF Init, PipelineInit, At, Idle
<1>2. Len(queue) = 0
  BY EmptySeq DEF Init, PipelineInit
<1>3. DOMAIN facts = {}
  BY DEF Init, StoreInit
<1>. QED  BY <1>1, <1>2, <1>3 DEF PresentInv, WorkIsPresent, FactsHaveEvidence, Queued

LEMMA NextPresent ==
    ASSUME OneRequest
    PROVE  Shape /\ RunsInv /\ PresentInv /\ [Next]_vars /\ [DeletesFindNoRun]_vars => PresentInv'
<1>. SUFFICES ASSUME Shape, RunsInv, PresentInv, [Next]_vars, [DeletesFindNoRun]_vars
              PROVE  PresentInv'
  OBVIOUS
<1>1. ASSUME NEW t \in Threads, PoolStep(t) PROVE PresentInv'
  BY <1>1, RunKeepsPresent, StartRunKeepsPresent DEF PoolStep, apiVars
<1>2. CASE UNCHANGED vars
  BY <1>2 DEF vars, storeVars, pipelineVars, apiVars, PresentInv, WorkIsPresent,
              FactsHaveEvidence, Queued, Exists, At, Ev
<1>3. ASSUME NEW c \in Clients, Request(c) \/ HandlerStep(c), DeletesFindNoRun PROVE PresentInv'
  BY <1>3, RequestKeepsPresent DEF DeletesFindNoRun
<1>. QED  BY <1>1, <1>2, <1>3, RestartKeepsPresent DEF Next

\* With one request at a time no two retries overlap.
LEMMA RunsAlone ==
    ASSUME OneRequest
    PROVE  Spec => []RunsInv
<1>1. RetriesAlone
  BY DEF RetriesAlone, OneRequest
<1>. QED  BY <1>1, RunsInvariant, PTL

\* With one request at a time, and as long as no delete commits beside a run,
\* no run is without its row and no fact without its evidence.
THEOREM NothingWithoutEvidence ==
    ASSUME OneRequest
    PROVE  Spec /\ [][DeletesFindNoRun]_vars => []PresentInv
BY RunsAlone, InitPresent, NextPresent, ShapeInvariant, PTL DEF Spec

\* What is about to be deleted has ended, if no delete is forced.
LEMMA RequestKeepsEnded ==
    ASSUME OneRequest, ~ForceDeletes, Shape, DeletesTheEnded, NEW c \in Clients,
           Request(c) \/ HandlerStep(c)
    PROVE  DeletesTheEnded'
<1>0. /\ client \in [Clients -> RequestState]
      /\ \A d \in Clients : d = c
  BY DEF Shape, TypeOK, ApiTypeOK, OneRequest
<1>1. CASE CommitDelete(c)
  BY <1>0, <1>1 DEF CommitDelete, RequestState, DeletesTheEnded
<1>2. ASSUME ~CommitDelete(c) PROVE DeletesTheEnded'
  <2>1. ASSUME client'[c].op \in {"deleting", "scrubbing"}
        PROVE  row'[client'[c].ev].st \in TERMINAL_STATUSES
    <3>1. CASE CollectTouched(c)
      BY <1>0, <3>1 DEF CollectTouched, Asks, RequestState, DeletesTheEnded, storeVars
    <3>2. ASSUME NEW e \in Evidence, BeginDelete(c, e)
          PROVE  row'[client'[c].ev].st \in TERMINAL_STATUSES
      BY <1>0, <3>2 DEF BeginDelete, RequestState
    <3>3. ASSUME NEW e \in Evidence, Cancel(c, e) PROVE FALSE
      BY <2>1, <3>3 DEF Cancel, Asks, apiVars
    <3>4. CASE Answer(c)
      BY <1>0, <2>1, <3>4 DEF Answer, NoRequest
    <3>5. ASSUME NEW e \in Evidence, BeginIngest(c, e) \/ BeginRetry(c, e) PROVE FALSE
      BY <1>0, <2>1, <3>5 DEF BeginIngest, BeginRetry, RequestState
    <3>6. ASSUME NEW i, BeginApprove(c, i) \/ BeginReject(c, i) PROVE FALSE
      BY <1>0, <2>1, <3>6 DEF BeginApprove, BeginReject, RequestState
    <3>7. CASE ApproveInGraph(c)
      BY <1>0, <2>1, <3>4, <3>7 DEF ApproveInGraph, RequestState
    <3>. QED  BY <1>2, <3>1, <3>2, <3>3, <3>4, <3>5, <3>6, <3>7
              DEF Request, HandlerStep, CommitIngest, CommitRetry, CleanGraph, CommitApprove,
                  CommitReject
  <2>. QED  BY <1>0, <2>1 DEF DeletesTheEnded
<1>. QED  BY <1>1, <1>2

LEMMA NextEnded ==
    ASSUME OneRequest, ~ForceDeletes
    PROVE  Shape /\ RunsInv /\ PresentInv /\ DeletesTheEnded /\ [Next]_vars
               => DeletesTheEnded' /\ [DeletesFindNoRun]_vars
<1>. SUFFICES ASSUME Shape, RunsInv, PresentInv, DeletesTheEnded, [Next]_vars
              PROVE  DeletesTheEnded' /\ [DeletesFindNoRun]_vars
  OBVIOUS
<1>0. \A c \in Clients : client[c].op \in {"deleting", "scrubbing"} =>
         client[c].ev \in Evidence /\ row[client[c].ev].st \in TERMINAL_STATUSES
  BY DEF Shape, RequestsOK, Named, EvidenceOps, DeletesTheEnded
<1>1. DeletesFindNoRun
  BY <1>0, EndedIsFinished DEF DeletesFindNoRun, CommitDelete, Asks, TerminalIsFinished
<1>2. ASSUME NEW t \in Threads, RunStep(t), client' = client PROVE DeletesTheEnded'
  <2>1. /\ row[Ev(t)].st \in ACTIVE_STATUSES
        /\ \A e \in Evidence : e # Ev(t) => row'[e] = row[e]
    BY <1>2, RunKeepsRows DEF PresentInv
  <2>2. ACTIVE_STATUSES \cap TERMINAL_STATUSES = {}
    BY DEF ACTIVE_STATUSES, TERMINAL_STATUSES
  <2>. QED  BY <1>0, <1>2, <2>1, <2>2 DEF DeletesTheEnded
<1>3. ASSUME Restart PROVE DeletesTheEnded'
  BY <1>3 DEF Restart, NoRequest, DeletesTheEnded
<1>4. ASSUME UNCHANGED <<row, client>> PROVE DeletesTheEnded'
  BY <1>4 DEF DeletesTheEnded
<1>. QED  BY <1>1, <1>2, <1>3, <1>4, RequestKeepsEnded
          DEF Next, PoolStep, StartRun, vars, storeVars, apiVars

\* DeletesFindNoRun: with one request at a time a delete that is not forced
\* never commits beside a run, so that what is proved of such deletes holds of
\* every behaviour without forced ones.
THEOREM UnforcedDeletesFindNoRun ==
    ASSUME OneRequest, ~ForceDeletes
    PROVE  Spec => [][DeletesFindNoRun]_vars
<1>1. Init => DeletesTheEnded
  BY DEF Init, ApiInit, NoRequest, DeletesTheEnded
<1>. QED  BY <1>1, RunsAlone, InitPresent, NextPresent, NextEnded, ShapeInvariant, PTL DEF Spec

-----------------------------------------------------------------------------
(* What steps do to the registry and the graph                             *)

\* A fresh row is one that is not in use, in the hands of one thread.
FreshIsFree ==
    \A t \in Threads : \A m \in thread[t].res :
        m.fresh => /\ reg[m.id].st = "unused"
                   /\ \A u \in Threads : \A n \in thread[u].res : n.id = m.id => u = t

\* A match: a fresh row, or a row in use as it was read.
LEMMA MatchIs ==
    ASSUME NEW k, NEW K, NEW m \in Matches(k, K)
    PROVE  \/ /\ m.fresh /\ m.evs = {} /\ m.id \in FreshIds(k)
              /\ MergeSuggestions \/ m.cand = m.id
           \/ ~m.fresh /\ Live(m.id) /\ m.evs = reg[m.id].evs /\ m.cand = m.id
<1>. DEFINE same == {x \in EntityIds : Live(x) /\ KeyOf[x] = k}
            near == {y \in EntityIds : MergeSuggestions /\ (Live(y) \/ KeyOf[y] \in K \ {k})}
<1>1. CASE same # {}
  BY <1>1 DEF Matches
<1>2. CASE same = {}
  <2>1. PICK x \in FreshIds(k) :
           m \in {[id |-> x, fresh |-> TRUE, evs |-> {}, cand |-> y] : y \in near \cup {x}}
    BY <1>2 DEF Matches
  <2>2. PICK y \in near \cup {x} : m = [id |-> x, fresh |-> TRUE, evs |-> {}, cand |-> y]
    BY <2>1
  <2>3. MergeSuggestions \/ y = x
    BY <2>2
  <2>. QED  BY <2>1, <2>2, <2>3
<1>. QED  BY <1>1, <1>2

\* A run holds what it matched until its resolve stage ends.
LEMMA RunHoldsMatches ==
    ASSUME RunsOK, NEW t \in Threads, RunStep(t)
    PROVE  /\ \A u \in Threads : u # t => thread'[u] = thread[u]
           /\ \/ thread'[t].res = {}
              \/ thread'[t].res = thread[t].res /\ Ev(t)' = Ev(t) /\ ~Resolve(t)
              \/ /\ MatchMentions(t) /\ Ev(t)' = Ev(t)
                 /\ \A m \in thread'[t].res : \E k, K : m \in Matches(k, K)
           /\ reg' = reg \/ Resolve(t)
<1>1. (\E pc : Goto(t, pc)) \/ Finish(t) =>
         thread'[t].res = {} /\ \A u \in Threads : u # t => thread'[u] = thread[u]
  <2>1. CASE Finish(t)
    BY <2>1 DEF Finish, RunsOK, Idle
  <2>2. ASSUME NEW pc, Goto(t, pc)
        PROVE  thread'[t].res = {} /\ \A u \in Threads : u # t => thread'[u] = thread[u]
    BY <2>2 DEF Goto, RunsOK, RunState
  <2>. QED  BY <2>1, <2>2
<1>4. CASE MatchMentions(t)
  <2>0. PICK K \in Extractions :
           \E h \in [K -> UNION {Matches(k, K) : k \in K}] :
              /\ \A k \in K : h[k] \in Matches(k, K)
              /\ thread' = [thread EXCEPT ![t].pc = "resolving", ![t].res = {h[k] : k \in K}]
    BY <1>4 DEF MatchMentions
  <2>1. PICK h \in [K -> UNION {Matches(k, K) : k \in K}] :
           /\ \A k \in K : h[k] \in Matches(k, K)
           /\ thread' = [thread EXCEPT ![t].pc = "resolving", ![t].res = {h[k] : k \in K}]
    BY <2>0
  <2>2. /\ thread'[t].res = {h[k] : k \in K} /\ Ev(t)' = Ev(t)
        /\ \A u \in Threads : u # t => thread'[u] = thread[u]
    BY <2>1 DEF RunsOK, RunState, Ev
  <2>3. \A m \in thread'[t].res : \E k : m \in Matches(k, K)
    BY <2>1, <2>2
  <2>. QED  BY <1>4, <2>2, <2>3 DEF MatchMentions, storeVars
<1>5. CASE ReadAccepted(t)
  BY <1>5 DEF ReadAccepted, RunsOK, RunState, Ev, Resolve, At
<1>6. reg' = reg \/ Resolve(t)
  BY DEF RunStep, Stop, LoadText, FinishText, TextFails, ClearFacts, MatchMentions, ResolveFails,
         LoadWrite, ReadAccepted, ConnectFails, Project, ProjectFails, SkipEnrich, LoadEnrich,
         Infer, Enrich, EnrichFails, FailWith, storeVars
<1>7. CASE LoadText(t) \/ ClearFacts(t) \/ LoadWrite(t) \/ LoadEnrich(t)
  <2>1. ~Resolve(t)
    BY <1>7 DEF LoadText, ClearFacts, LoadWrite, LoadEnrich, Load, Resolve, At
  <2>2. \E stage, pc, ids : Load(t, stage, pc, ids)
    BY <1>7 DEF LoadText, ClearFacts, LoadWrite, LoadEnrich
  <2>3. /\ \A u \in Threads : u # t => thread'[u] = thread[u]
        /\ thread'[t].res = thread[t].res /\ Ev(t)' = Ev(t)
    BY <2>2 DEF Load, RunsOK, RunState, Ev
  <2>. QED  BY <1>6, <2>1, <2>3
<1>. QED  BY <1>1, <1>4, <1>5, <1>6, <1>7
          DEF RunStep, Stop, FinishText, TextFails, Resolve, ResolveFails, ConnectFails, Project,
              ProjectFails, SkipEnrich, Infer, Enrich, EnrichFails, FailWith

\* A run registers what it matched: a fresh row, or one that is still there and
\* did not list its evidence.
LEMMA ResolveRegisters ==
    ASSUME StoreTypeOK, RunsOK, FreshIsFree, NEW t \in Threads, Resolve(t), NEW x \in EntityIds
    PROVE  \/ reg'[x] = reg[x] /\ \A m \in thread[t].res : m.id = x => Ev(t) \in m.evs
           \/ \E m \in thread[t].res :
                 /\ m.id = x /\ reg[x].st = IF m.fresh THEN "unused" ELSE "live"
                 /\ reg'[x].st = "live" /\ Ev(t) \in reg'[x].evs /\ m.evs \subseteq reg'[x].evs
<1>. DEFINE e == Ev(t)
            res == thread[t].res
<1>1. reg' = Registered(e, res) /\ \A m \in res : ~Conflict(e, m)
  BY DEF Resolve
<1>2. CASE \E m \in res : m.id = x /\ e \notin m.evs
  <2>1. PICK m \in res : m.id = x /\ e \notin m.evs
    BY <1>2
  <2>2. reg'[x] = [st |-> "live", evs |-> {e} \cup UNION {n.evs : n \in {o \in res : o.id = x}}]
    BY <1>1, <1>2 DEF Registered
  <2>3. m.fresh \in BOOLEAN
    BY DEF RunsOK, RunState, Match
  <2>4. reg[x].st = IF m.fresh THEN "unused" ELSE "live"
    BY <1>1, <2>1, <2>3 DEF FreshIsFree, Conflict, Live
  <2>. HIDE DEF e, res
  <2>5. m.evs \subseteq reg'[x].evs
    BY <2>1, <2>2
  <2>. QED  BY <2>1, <2>2, <2>4, <2>5 DEF e, res
<1>3. CASE ~\E m \in res : m.id = x /\ e \notin m.evs
  BY <1>1, <1>3 DEF Registered
<1>. QED  BY <1>2, <1>3

\* A row that is in use stays as it is, and a row that is gone is gone.
LEMMA RunKeepsLive ==
    ASSUME StoreTypeOK, RunsOK, FreshIsFree, NEW t \in Threads, RunStep(t), NEW x \in EntityIds
    PROVE  /\ reg[x].st # "unused" => reg'[x].st = reg[x].st
           /\ reg'[x].st # "unused" /\ reg[x].st = "unused" => \E m \in thread[t].res : m.id = x /\ m.fresh
<1>1. CASE reg' = reg
  BY <1>1
<1>2. CASE Resolve(t)
  BY <1>2, ResolveRegisters
<1>. QED  BY <1>1, <1>2, RunHoldsMatches

\* Of the requests, only the commit of a delete changes what is in use.
LEMMA RequestScrubs ==
    ASSUME Shape, NEW c \in Clients, Request(c) \/ HandlerStep(c), NEW x \in EntityIds
    PROVE  \/ reg'[x].st = reg[x].st
           \/ CommitDelete(c) /\ reg[x].st = "live" /\ reg'[x].st = "gone" /\ x \in client'[c].ents
<1>0. StoreTypeOK /\ client \in [Clients -> RequestState]
  BY DEF Shape, TypeOK, ApiTypeOK
<1>1. CASE CommitDelete(c)
  <2>. DEFINE orphans == Orphaned(client[c].ev, client[c].ents)
  <2>1. reg' = Scrubbed(client[c].ev, client[c].ents) /\ client'[c].ents = orphans
    BY <1>0, <1>1 DEF CommitDelete, RequestState
  <2>2. CASE x \in orphans
    BY <1>1, <2>1, <2>2 DEF Scrubbed, Orphaned, Live
  <2>3. CASE x \notin orphans
    BY <1>0, <2>1, <2>3 DEF Scrubbed, StoreTypeOK, RegRow
  <2>. QED  BY <2>2, <2>3
<1>2. CASE CommitApprove(c)
  <2>1. reg' = reg \/ reg' = Merged(c)
    BY <1>2 DEF CommitApprove
  <2>2. reg' = reg \/ reg' = [reg EXCEPT ![client[c].id.tgt].evs = client[c].evs]
    BY <2>1 DEF Merged
  <2>. QED  BY <1>0, <2>2 DEF StoreTypeOK, RegRow
<1>. QED  BY <1>1, <1>2
          DEF Request, HandlerStep, BeginIngest, CommitIngest, BeginRetry, CommitRetry, Cancel,
              BeginDelete, CollectTouched, CleanGraph, BeginApprove, ApproveInGraph, BeginReject,
              CommitReject, storeVars

LEMMA NextFreshIsFree == Shape /\ FreshIsFree /\ [Next]_vars => FreshIsFree'
<1>. SUFFICES ASSUME Shape, FreshIsFree, [Next]_vars PROVE FreshIsFree'
  OBVIOUS
<1>0. StoreTypeOK /\ RunsOK
  BY DEF Shape, TypeOK
<1>1. ASSUME NEW t \in Threads, RunStep(t) PROVE FreshIsFree'
  <2>1. /\ \A u \in Threads : u # t => thread'[u] = thread[u]
        /\ \/ thread'[t].res = {}
           \/ thread'[t].res = thread[t].res /\ ~Resolve(t)
           \/ MatchMentions(t) /\ \A m \in thread'[t].res : \E k, K : m \in Matches(k, K)
        /\ reg' = reg \/ Resolve(t)
    BY <1>0, <1>1, RunHoldsMatches
  <2>. SUFFICES ASSUME NEW u \in Threads, NEW m \in thread'[u].res, m.fresh
                PROVE  /\ reg'[m.id].st = "unused"
                       /\ \A v \in Threads : \A n \in thread'[v].res : n.id = m.id => v = u
    BY DEF FreshIsFree
  <2>2. CASE MatchMentions(t) /\ \A n \in thread'[t].res : \E k, K : n \in Matches(k, K)
    <3>1. reg' = reg
      BY <2>2 DEF MatchMentions, storeVars
    <3>2. \A n \in thread'[t].res :
             \/ \E k : n.id \in FreshIds(k)
             \/ ~n.fresh /\ Live(n.id)
      BY <2>2, MatchIs
    <3>3. CASE u = t
      BY <2>1, <3>1, <3>2, <3>3 DEF FreshIds
    <3>4. CASE u # t
      <4>1. m \in thread[u].res /\ reg[m.id].st = "unused"
        BY <2>1, <3>4 DEF FreshIsFree
      <4>2. \A n \in thread'[t].res : n.id # m.id
        BY <3>2, <4>1 DEF FreshIds, Live
      <4>. QED  BY <2>1, <3>1, <3>4, <4>1, <4>2 DEF FreshIsFree
    <3>. QED  BY <3>3, <3>4
  <2>3. CASE thread'[t].res = {} \/ (thread'[t].res = thread[t].res /\ ~Resolve(t))
    <3>1. \A v \in Threads : thread'[v].res = {} \/ thread'[v].res = thread[v].res
      BY <2>1, <2>3
    <3>2. m \in thread[u].res /\ m.id \in EntityIds
      BY <1>0, <3>1 DEF RunsOK, RunState, Match
    <3>3. reg'[m.id].st = "unused"
      <4>1. CASE reg' = reg
        BY <3>2, <4>1 DEF FreshIsFree
      <4>2. CASE Resolve(t)
        <5>1. u # t
          BY <2>3, <4>2
        <5>2. \A n \in thread[t].res : n.id # m.id
          BY <3>2, <5>1 DEF FreshIsFree
        <5>. QED  BY <1>0, <3>2, <4>2, <5>2, ResolveRegisters DEF FreshIsFree
      <4>. QED  BY <2>1, <4>1, <4>2
    <3>. QED  BY <3>1, <3>2, <3>3 DEF FreshIsFree
  <2>. QED  BY <2>1, <2>2, <2>3
<1>2. ASSUME NEW t \in Threads, StartRun(t) PROVE FreshIsFree'
  <2>1. /\ thread'[t].res = {} /\ reg' = reg
        /\ \A u \in Threads : u # t => thread'[u] = thread[u]
    BY <1>0, <1>2 DEF StartRun, RunsOK, Idle, storeVars
  <2>. QED  BY <2>1 DEF FreshIsFree
<1>3. ASSUME NEW c \in Clients, Request(c) \/ HandlerStep(c) PROVE FreshIsFree'
  <2>1. thread' = thread
    <3>1. ApiShape
      BY DEF Shape, ApiShape, TypeOK, PipelineTypeOK
    <3>. QED  BY <1>3, <3>1, IngestShape, RetryCancelShape, DeleteShape, ReviewShape
              DEF Request, HandlerStep
  <2>2. ASSUME NEW t \in Threads, NEW m \in thread[t].res, m.fresh PROVE reg'[m.id].st = "unused"
    <3>1. m.id \in EntityIds /\ reg[m.id].st = "unused"
      BY <1>0, <2>2 DEF FreshIsFree, RunsOK, RunState, Match
    <3>. QED  BY <1>3, <3>1, RequestScrubs
  <2>. QED  BY <2>1, <2>2 DEF FreshIsFree
<1>4. CASE Restart
  BY <1>4 DEF Restart, FreshIsFree, Idle
<1>5. CASE UNCHANGED vars
  BY <1>5 DEF vars, storeVars, pipelineVars, FreshIsFree
<1>. QED  BY <1>1, <1>2, <1>3, <1>4, <1>5 DEF Next, PoolStep

LEMMA FreshInvariant == Spec => []FreshIsFree
<1>1. Init => FreshIsFree
  BY DEF Init, PipelineInit, FreshIsFree, Idle
<1>. QED  BY <1>1, NextFreshIsFree, ShapeInvariant, PTL DEF Spec

\* What resolve inserts: an entity fact for each match, a merge suggestion for
\* each candidate, and nothing that is written.
LEMMA ResolveAdds ==
    ASSUME NEW t \in Threads, Resolve(t), NEW i \in DOMAIN facts'
    PROVE  \/ i \in DOMAIN facts /\ facts'[i] = facts[i]
           \/ /\ i.ev = Ev(t) /\ facts'[i].st # "written"
              /\ i.kind = "entity" => \E m \in thread[t].res : i.src = m.id /\ i.tgt = m.id
              /\ i.kind = "merge" => \E m \in thread[t].res : m.cand # m.id
<1>. DEFINE e == Ev(t)
            res == thread[t].res
            ids == {m.id : m \in res}
<1>0. Bands \subseteq {"accepted", "in_review", "rejected"}
  BY BandsAssumption
<1>1. PICK band \in [ids -> Bands], relBand \in Bands,
           rels \in {{}} \cup {{p} : p \in {q \in ids \X ids : q[1] # q[2]}} :
         LET new == ResolvedFacts(e, res, band, rels, relBand)
         IN  facts' = [j \in DOMAIN facts \cup DOMAIN new |->
                          IF j \in DOMAIN new THEN new[j] ELSE facts[j]]
  BY DEF Resolve
<1>. DEFINE id(kind, x, y) == [ev |-> e, gen |-> gen[e] + 1, kind |-> kind, src |-> x, tgt |-> y]
            entity == {id("entity", m.id, m.id) : m \in res}
            merge == {id("merge", m.id, m.cand) : m \in {n \in res : n.cand # n.id}}
            rel == {id("relationship", p[1], p[2]) : p \in rels}
            new == ResolvedFacts(e, res, band, rels, relBand)
<1>2. i \in DOMAIN new => facts'[i] = new[i]
  BY <1>1
<1>3. DOMAIN new = entity \cup merge \cup rel
  BY DEF ResolvedFacts
<1>4. CASE i \in entity
  <2>1. PICK m \in res : i = id("entity", m.id, m.id)
    BY <1>4
  <2>2. band[i.src] \in Bands
    BY <2>1
  <2>3. new[i] = Gated(band[i.src])
    BY <1>3, <1>4 DEF ResolvedFacts
  <2>4. new[i].st # "written"
    BY <1>0, <2>2, <2>3 DEF Gated
  <2>. QED  BY <1>2, <1>3, <1>4, <2>1, <2>4
<1>5. CASE i \notin entity /\ i \in merge
  <2>1. PICK m \in res : m.cand # m.id /\ i = id("merge", m.id, m.cand)
    BY <1>5
  <2>2. new[i] = Gated("in_review")
    BY <1>3, <1>5 DEF ResolvedFacts, id
  <2>3. i.ev = e /\ i.kind = "merge"
    BY <2>1
  <2>4. facts'[i].st # "written"
    BY <1>2, <1>3, <1>5, <2>2 DEF Gated
  <2>. QED  BY <2>1, <2>3, <2>4
<1>6. CASE i \notin entity /\ i \notin merge /\ i \in rel
  <2>1. i.ev = e /\ i.kind = "relationship"
    BY <1>6
  <2>2. new[i] = Gated(relBand)
    BY <1>3, <1>6 DEF ResolvedFacts, id
  <2>. QED  BY <1>0, <1>2, <1>3, <1>6, <2>1, <2>2 DEF Gated
<1>7. CASE i \notin DOMAIN new
  BY <1>1, <1>7
<1>. QED  BY <1>3, <1>4, <1>5, <1>6, <1>7

\* Requests and the registry: a delete scrubs it, and of the decisions only
\* that of a merge suggestion writes it.
LEMMA RequestRegistry ==
    ASSUME NEW c \in Clients, Request(c) \/ HandlerStep(c), reg' # reg
    PROVE  \/ CommitDelete(c) /\ reg' = Scrubbed(client[c].ev, client[c].ents)
           \/ client[c].id \in DOMAIN facts /\ client[c].id.kind = "merge"
BY DEF Request, HandlerStep, BeginIngest, CommitIngest, BeginRetry, CommitRetry, Cancel,
       BeginDelete, CollectTouched, CommitDelete, CleanGraph, BeginApprove, ApproveInGraph,
       CommitApprove, BeginReject, CommitReject, Merged, storeVars

-----------------------------------------------------------------------------
(* The registry lists who supports an entity                               *)

\* The lists of evidence ids are read, and written back some time later: by a
\* run at its resolve stage, and when a merge suggestion is approved.  They are
\* right as long as nobody else writes them in between: as long as no two runs
\* hold one row (MergesApart), and without merge suggestions.

\* A match is a row as it is, but for evidences that were deleted meanwhile.
MatchStands(t, m) ==
    /\ m.cand = m.id
    /\ m.fresh => m.evs = {}
    /\ ~m.fresh => /\ reg[m.id].evs \subseteq m.evs
                   /\ Ev(t) \in m.evs => Ev(t) \in reg[m.id].evs

RegistryInv ==
    /\ \A x \in EntityIds : reg[x].evs # {} => Live(x)
    /\ \A i \in DOMAIN facts : i.kind # "merge" /\ (i.kind = "entity" => i.src = i.tgt)
    /\ \A i \in DOMAIN facts : i.kind = "entity" => i.ev \in reg[i.src].evs
    /\ \A t \in Threads : \A m \in thread[t].res : MatchStands(t, m)

LEMMA ResolveKeepsRegistry ==
    ASSUME MergesApart, Shape, RunsInv, FreshIsFree, RegistryInv, NEW t \in Threads, Resolve(t),
           RunStep(t)
    PROVE  RegistryInv'
<1>0. StoreTypeOK /\ RunsOK
  BY DEF Shape, TypeOK
<1>1. thread'[t].res = {} /\ \A u \in Threads : u # t => thread'[u] = thread[u]
  BY <1>0 DEF Resolve, Goto, RunsOK, RunState
<1>2. ASSUME NEW x \in EntityIds
      PROVE  (reg'[x].evs # {} => Live(x)') /\ reg[x].evs \subseteq reg'[x].evs
  <2>1. CASE reg'[x] = reg[x]
    BY <2>1 DEF RegistryInv, Live
  <2>2. ASSUME NEW m \in thread[t].res, m.id = x, reg[x].st = IF m.fresh THEN "unused" ELSE "live",
               reg'[x].st = "live", m.evs \subseteq reg'[x].evs
        PROVE  Live(x)' /\ reg[x].evs \subseteq reg'[x].evs
    <3>1. m.fresh \in BOOLEAN /\ MatchStands(t, m)
      BY <1>0 DEF RegistryInv, RunsOK, RunState, Match
    <3>. QED  BY <2>2, <3>1 DEF RegistryInv, MatchStands, Live
  <2>. QED  BY <1>0, <2>1, <2>2, ResolveRegisters
<1>3. ASSUME NEW m \in thread[t].res PROVE Ev(t) \in reg'[m.id].evs
  <2>1. m.id \in EntityIds /\ m.fresh \in BOOLEAN
    BY <1>0 DEF RunsOK, RunState, Match
  <2>2. CASE Ev(t) \in m.evs
    BY <1>2, <2>1, <2>2 DEF RegistryInv, MatchStands
  <2>3. CASE Ev(t) \notin m.evs
    BY <1>0, <2>1, <2>3, ResolveRegisters
  <2>. QED  BY <2>2, <2>3
<1>4. ASSUME NEW i \in DOMAIN facts'
      PROVE  /\ i.kind # "merge" /\ (i.kind = "entity" => i.src = i.tgt)
             /\ i.kind = "entity" => i.ev \in reg'[i.src].evs
  <2>1. CASE i \in DOMAIN facts
    <3>1. i.src \in EntityIds
      BY <1>0, <2>1 DEF StoreTypeOK, FactId
    <3>. QED  BY <1>2, <2>1, <3>1 DEF RegistryInv
  <2>2. CASE i \notin DOMAIN facts
    <3>1. /\ i.ev = Ev(t)
          /\ i.kind = "entity" => \E m \in thread[t].res : i.src = m.id /\ i.tgt = m.id
          /\ i.kind = "merge" => \E m \in thread[t].res : m.cand # m.id
      BY <2>2, ResolveAdds
    <3>. QED  BY <1>3, <3>1 DEF RegistryInv, MatchStands
  <2>. QED  BY <2>1, <2>2
<1>5. ASSUME NEW u \in Threads, NEW m \in thread'[u].res PROVE MatchStands(u, m)'
  <2>1. u # t /\ m \in thread[u].res /\ m.id \in EntityIds /\ Ev(u)' = Ev(u)
    BY <1>0, <1>1, <1>5 DEF RunsOK, RunState, Match, Ev
  <2>2. \A n \in thread[t].res : n.id # m.id
    BY <2>1 DEF MergesApart
  <2>3. reg'[m.id] = reg[m.id]
    BY <1>0, <2>1, <2>2, ResolveRegisters
  <2>. QED  BY <2>1, <2>3 DEF RegistryInv, MatchStands
<1>. QED  BY <1>2, <1>4, <1>5 DEF RegistryInv

LEMMA RunKeepsRegistry ==
    ASSUME MergesApart, ~MergeSuggestions, Shape, RunsInv, FreshIsFree, RegistryInv,
           NEW t \in Threads, RunStep(t)
    PROVE  RegistryInv'
<1>0. StoreTypeOK /\ RunsOK
  BY DEF Shape, TypeOK
<1>1. CASE ~Resolve(t)
  <2>1. reg' = reg
    BY <1>0, <1>1, RunHoldsMatches
  <2>2. ASSUME NEW i \in DOMAIN facts'
        PROVE  /\ i.kind # "merge" /\ (i.kind = "entity" => i.src = i.tgt)
               /\ i.kind = "entity" => i.ev \in reg'[i.src].evs
    BY <1>1, <2>1, RunAddsFacts DEF RegistryInv
  <2>3. ASSUME NEW u \in Threads, u # t, NEW m \in thread'[u].res PROVE MatchStands(u, m)'
    <3>1. thread'[u] = thread[u]
      BY <1>0, <2>3, RunHoldsMatches
    <3>. QED  BY <2>1, <2>3, <3>1 DEF RegistryInv, MatchStands, Ev
  <2>4. ASSUME NEW m \in thread'[t].res PROVE MatchStands(t, m)'
    <3>1. CASE thread'[t].res = thread[t].res /\ Ev(t)' = Ev(t)
      BY <2>1, <2>4, <3>1 DEF RegistryInv, MatchStands
    <3>2. CASE Ev(t)' = Ev(t) /\ \E k, K : m \in Matches(k, K)
      BY <2>1, <3>2, MatchIs DEF MatchStands
    <3>. QED  BY <1>0, <2>4, <3>1, <3>2, RunHoldsMatches
  <2>. QED  BY <2>1, <2>2, <2>3, <2>4 DEF RegistryInv, Live
<1>. QED  BY <1>1, ResolveKeepsRegistry

LEMMA RequestKeepsRegistry ==
    ASSUME Shape, RegistryInv, NEW c \in Clients, Request(c) \/ HandlerStep(c),
           RunsInv, CommitDelete(c) => ~InFlight(client[c].ev)
    PROVE  RegistryInv'
<1>0. /\ StoreTypeOK /\ RunsOK /\ client \in [Clients -> RequestState]
      /\ client[c].op \in EvidenceOps => client[c].ev \in Evidence
  BY DEF Shape, TypeOK, ApiTypeOK, RequestsOK, Named
<1>1. thread' = thread /\ DOMAIN facts' \subseteq DOMAIN facts
  BY RequestKeepsRows
<1>2. CASE reg' = reg
  BY <1>1, <1>2 DEF RegistryInv, MatchStands, Live, Ev
<1>3. CASE CommitDelete(c) /\ reg' = Scrubbed(client[c].ev, client[c].ents)
  <2>. DEFINE e == client[c].ev
              orphans == Orphaned(e, client[c].ents)
  <2>1. e \in Evidence /\ facts' = WithoutFactsOf(e)
    BY <1>0, <1>3 DEF CommitDelete, Asks, EvidenceOps
  <2>2. \A t \in Threads : Ev(t) # e
    BY <1>3 DEF InFlight
  <2>3. ASSUME NEW x \in EntityIds
        PROVE  /\ reg'[x].evs \subseteq reg[x].evs
               /\ \A f : f # e /\ f \in reg[x].evs => f \in reg'[x].evs
               /\ reg'[x].evs # {} => reg'[x].st = reg[x].st
    <3>1. CASE x \in orphans
      BY <1>3, <3>1 DEF Scrubbed, Orphaned
    <3>2. CASE x \notin orphans
      BY <1>0, <1>3, <3>2 DEF Scrubbed, StoreTypeOK, RegRow
    <3>. QED  BY <3>1, <3>2
  <2>4. \A x \in EntityIds : reg'[x].evs # {} => Live(x)'
    BY <2>3 DEF RegistryInv, Live
  <2>5. ASSUME NEW i \in DOMAIN facts', i.kind = "entity" PROVE i.ev \in reg'[i.src].evs
    BY <1>0, <2>1, <2>3, <2>5 DEF WithoutFactsOf, FactsOf, RegistryInv, StoreTypeOK, FactId
  <2>6. ASSUME NEW t \in Threads, NEW m \in thread'[t].res PROVE MatchStands(t, m)'
    <3>1. m \in thread[t].res /\ m.id \in EntityIds /\ Ev(t)' = Ev(t)
      BY <1>0, <1>1, <2>6 DEF RunsOK, RunState, Match, Ev
    <3>. QED  BY <2>2, <2>3, <3>1 DEF RegistryInv, MatchStands
  <2>. QED  BY <1>1, <2>4, <2>5, <2>6 DEF RegistryInv
<1>4. CASE client[c].id \in DOMAIN facts /\ client[c].id.kind = "merge"
  BY <1>4 DEF RegistryInv
<1>. QED  BY <1>2, <1>3, <1>4, RequestRegistry

LEMMA NextRegistry ==
    ASSUME ~MergeSuggestions
    PROVE  Shape /\ RunsInv /\ FreshIsFree /\ MergesApart /\ RegistryInv
               /\ [Next]_vars /\ [DeletesFindNoRun]_vars => RegistryInv'
<1>. SUFFICES ASSUME Shape, RunsInv, FreshIsFree, MergesApart, RegistryInv, [Next]_vars,
                     [DeletesFindNoRun]_vars
              PROVE  RegistryInv'
  OBVIOUS
<1>1. ASSUME NEW t \in Threads, StartRun(t) PROVE RegistryInv'
  <2>1. /\ thread'[t].res = {} /\ reg' = reg /\ facts' = facts
        /\ \A u \in Threads : u # t => thread'[u] = thread[u]
    BY <1>1 DEF StartRun, Shape, RunsOK, Idle, storeVars
  <2>. QED  BY <2>1 DEF RegistryInv, MatchStands, Live, Ev
<1>2. CASE Restart
  <2>1. UNCHANGED <<reg, facts>> /\ \A t \in Threads : thread'[t].res = {}
    BY <1>2 DEF Restart, Idle
  <2>. QED  BY <2>1 DEF RegistryInv, Live
<1>3. CASE UNCHANGED vars
  BY <1>3 DEF vars, storeVars, pipelineVars, RegistryInv, MatchStands, Live, Ev
<1>4. ASSUME NEW c \in Clients, Request(c) \/ HandlerStep(c), DeletesFindNoRun PROVE RegistryInv'
  BY <1>4, RequestKeepsRegistry DEF DeletesFindNoRun
<1>. QED  BY <1>1, <1>2, <1>3, <1>4, RunKeepsRegistry DEF Next, PoolStep

\* RegistryInv for any number of evidences, entities, keys and pool threads,
\* retries, deletes, graph failures and restarts: with one request at a time,
\* no two runs that hold one registry row, and no delete beside a run.
THEOREM RegistryInvariant ==
    ASSUME OneRequest, ~MergeSuggestions
    PROVE  Spec /\ []MergesApart /\ [][DeletesFindNoRun]_vars => []RegistryInv
<1>1. Init => RegistryInv
  BY DEF Init, StoreInit, PipelineInit, Idle, RegistryInv
<1>. QED  BY <1>1, NextRegistry, RunsAlone, FreshInvariant, ShapeInvariant, PTL DEF Spec

\* SupportIsListed for a pool of any size: the registry entity of a fact lists
\* the fact's evidence, whatever was merged, scrubbed and retried in between,
\* as long as no two runs hold one registry row between match and resolve.
\* With the default of two threads they may, and then it is false of the code.
THEOREM SupportIsRegistered ==
    ASSUME OneRequest, ~MergeSuggestions
    PROVE  Spec /\ []MergesApart /\ [][DeletesFindNoRun]_vars => []SupportIsListed
<1>1. RegistryInv => SupportIsListed
  BY DEF RegistryInv, SupportIsListed
<1>. QED  BY <1>1, RegistryInvariant, PTL

\* SupportedEntityStays: then no delete takes an entity that a fact of another
\* evidence was resolved to.
THEOREM SharedEntitiesStay ==
    ASSUME OneRequest, ~MergeSuggestions
    PROVE  Spec /\ []MergesApart /\ [][DeletesFindNoRun]_vars => []SupportedEntityStays
<1>1. Shape /\ RegistryInv => SupportedEntityStays
  BY DEF RegistryInv, SupportedEntityStays, Shape, TypeOK, StoreTypeOK, FactId
<1>. QED  BY <1>1, RegistryInvariant, ShapeInvariant, PTL

-----------------------------------------------------------------------------
(* What steps do to the graph                                              *)

\* INSERT EDGE changes edges alone, and the new ones are those of the facts.
LEMMA UpsertEdgesIs ==
    ASSUME NEW g \in Graph, NEW I, NEW st
    PROVE  LET h == UpsertEdges(g, I, st)
           IN  /\ h.ev = g.ev /\ h.ent = g.ent /\ h.sup = g.sup
               /\ \A r \in h.rel :
                     r \in g.rel \/ \E i \in I : r.src = i.src /\ r.dst = i.tgt /\ r.ev = i.ev
<1>. DEFINE fresh == {[src |-> i.src, dst |-> i.tgt, ev |-> i.ev, st |-> st] : i \in I}
            rel == fresh \cup {r \in g.rel : \A i \in I : <<r.src, r.dst>> # <<i.src, i.tgt>>}
<1>1. UpsertEdges(g, I, st) = [g EXCEPT !.rel = rel]
  BY DEF UpsertEdges
<1>2. \A r \in rel : r \in g.rel \/ \E i \in I : r.src = i.src /\ r.dst = i.tgt /\ r.ev = i.ev
  OBVIOUS
<1>. HIDE DEF rel
<1>. QED  BY <1>1, <1>2 DEF Graph

\* What the projection of facts of e adds to a graph.
LEMMA ProjectedIs ==
    ASSUME NEW g \in Graph, NEW e \in Evidence, NEW ids \in SUBSET FactId
    PROVE  LET h == Projected(g, e, ids)
               X == {i.src : i \in {j \in ids : j.kind = "entity"}}
           IN  /\ h.ev = g.ev /\ h.ent = g.ent \cup X /\ h.sup = g.sup \cup (X \X {e})
               /\ \A r \in h.rel :
                     \/ r \in g.rel
                     \/ \E i \in ids : /\ i.kind \in {"relationship", "inferred"}
                                       /\ r.src = i.src /\ r.dst = i.tgt /\ r.ev = i.ev
<1>. DEFINE of(kind) == {i \in ids : i.kind = kind}
            X == {i.src : i \in of("entity")}
            g1 == UpsertEntities(g, X, e)
            g2 == UpsertEdges(g1, of("relationship"), "accepted")
            g3 == UpsertEdges(g2, of("inferred"), "proposed")
<1>1. X \in SUBSET EntityIds
  BY DEF FactId
<1>2. g1 \in Graph
  <2>. HIDE DEF X
  <2>. QED  BY <1>1, UpsertEntitiesType
<1>3. g1.ev = g.ev /\ g1.ent = g.ent \cup X /\ g1.sup = g.sup \cup (X \X {e}) /\ g1.rel = g.rel
  <2>. HIDE DEF X
  <2>. QED  BY DEF UpsertEntities, Graph
<1>. HIDE DEF g1
<1>4. g2 \in Graph
  BY <1>2, UpsertEdgesType
<1>5. /\ g2.ev = g1.ev /\ g2.ent = g1.ent /\ g2.sup = g1.sup
      /\ \A r \in g2.rel :
            r \in g1.rel \/ \E i \in of("relationship") : r.src = i.src /\ r.dst = i.tgt /\ r.ev = i.ev
  BY <1>2, UpsertEdgesIs
<1>. HIDE DEF g2
<1>6. /\ g3.ev = g2.ev /\ g3.ent = g2.ent /\ g3.sup = g2.sup
      /\ \A r \in g3.rel :
            r \in g2.rel \/ \E i \in of("inferred") : r.src = i.src /\ r.dst = i.tgt /\ r.ev = i.ev
  BY <1>4, UpsertEdgesIs
<1>7. Projected(g, e, ids) = g3
  BY DEF Projected, g1, g2
<1>. HIDE DEF g3, X
<1>8. \A r \in g3.rel :
         \/ r \in g.rel
         \/ \E i \in ids : /\ i.kind \in {"relationship", "inferred"}
                           /\ r.src = i.src /\ r.dst = i.tgt /\ r.ev = i.ev
  BY <1>3, <1>5, <1>6
<1>. QED  BY <1>3, <1>5, <1>6, <1>7, <1>8 DEF X

\* A run adds to the graph: vertices of entities that are registered, and what
\* its evidence supports.
LEMMA RunGraph ==
    ASSUME Shape, NEW t \in Threads, RunStep(t)
    PROVE  /\ graph.ent \subseteq graph'.ent /\ graph.sup \subseteq graph'.sup
           /\ graph'.ev \subseteq graph.ev \cup {Ev(t)}
           /\ \A p \in graph'.sup : p \in graph.sup \/ p[2] = Ev(t)
           /\ \A x \in graph'.ent : x \in graph.ent \/ Live(x)
<1>0. graph \in Graph /\ StoreTypeOK /\ RunsOK
  BY DEF Shape, TypeOK, StoreTypeOK
<1>1. CASE graph' = graph
  BY <1>1
<1>2. CASE ReadAccepted(t)
  BY <1>0, <1>2 DEF ReadAccepted, UpsertEvidence, Graph
<1>3. ASSUME NEW I, graph' = UpsertEdges(graph, I, "proposed")
      PROVE  graph'.ev = graph.ev /\ graph'.ent = graph.ent /\ graph'.sup = graph.sup
  BY <1>0, <1>3, UpsertEdgesIs
<1>4. CASE Enrich(t) \/ EnrichFails(t)
  <2>1. PICK I : graph' = UpsertEdges(graph, I, "proposed")
    BY <1>4 DEF Enrich, EnrichFails
  <2>. QED  BY <1>3, <2>1
<1>5. CASE Project(t) \/ ProjectFails(t)
  <2>1. PICK ids \in SUBSET Writable(thread[t].ids) : graph' = Projected(graph, Ev(t), ids)
    BY <1>5 DEF Project, ProjectFails, FailWith
  <2>2. Ev(t) \in Evidence /\ ids \in SUBSET FactId
    BY <1>0, <1>5, WorksOnEvidence DEF Project, ProjectFails, At, RunsOK, RunState, Writable
  <2>. DEFINE X == {i.src : i \in {j \in ids : j.kind = "entity"}}
  <2>3. \A x \in X : Live(x)
    BY DEF Writable
  <2>4. graph'.ev = graph.ev /\ graph'.ent = graph.ent \cup X /\ graph'.sup = graph.sup \cup (X \X {Ev(t)})
    BY <1>0, <2>1, <2>2, ProjectedIs
  <2>. HIDE DEF X
  <2>. QED  BY <2>3, <2>4
<1>. QED  BY <1>1, <1>2, <1>4, <1>5
          DEF RunStep, Stop, LoadText, FinishText, TextFails, ClearFacts, MatchMentions, Resolve,
              ResolveFails, LoadWrite, ConnectFails, SkipEnrich, LoadEnrich, Infer, FailWith,
              storeVars

\* The only stage that writes an entity fact projects it.
LEMMA RunWritesEntity ==
    ASSUME Shape, NEW t \in Threads, RunStep(t), NEW i \in DOMAIN facts',
           i.kind = "entity", facts'[i].st = "written"
    PROVE  /\ i \in DOMAIN facts
           /\ \/ facts[i].st = "written"
              \/ /\ i \in Writable(thread[t].ids)
                 /\ graph' = Projected(graph, Ev(t), Writable(thread[t].ids))
                 /\ At(t, "projecting")
<1>1. CASE facts' = facts
  BY <1>1
<1>2. CASE ClearFacts(t)
  BY <1>2 DEF ClearFacts, WithoutFactsOf
<1>3. CASE Resolve(t)
  BY <1>3, ResolveAdds
<1>4. CASE Project(t)
  BY <1>4 DEF Project, WithStatus, FailWith
<1>5. CASE Infer(t)
  BY <1>5 DEF Infer
<1>6. CASE Enrich(t)
  <2>. DEFINE pending == FactsIn(Ev(t), {"inferred"}, "pending")
              accepted == FactsIn(Ev(t), {"inferred"}, "accepted")
  <2>1. PICK band \in [pending -> Bands], last \in Unflushed(pending) :
           LET ids == accepted \cup {j \in pending \ last : band[j] = "accepted"}
           IN  facts' = IF ~Exists(Ev(t)) THEN facts
                        ELSE [j \in DOMAIN facts |->
                                 CASE j \in ids -> [st |-> "written", item |-> "none"]
                                   [] j \in pending \ ids -> Gated(band[j])
                                   [] OTHER -> facts[j]]
    BY <1>6 DEF Enrich
  <2>. DEFINE ids == accepted \cup {j \in pending \ last : band[j] = "accepted"}
  <2>2. i \notin pending /\ i \notin accepted
    BY DEF FactsIn
  <2>3. i \notin ids
    BY <2>2
  <2>. HIDE DEF pending, ids
  <2>. QED  BY <2>1, <2>2, <2>3 DEF ids
<1>. QED  BY <1>1, <1>2, <1>3, <1>4, <1>5, <1>6
          DEF RunStep, Stop, LoadText, FinishText, TextFails, MatchMentions, ResolveFails,
              LoadWrite, ReadAccepted, ConnectFails, ProjectFails, SkipEnrich, LoadEnrich,
              EnrichFails, FailWith, storeVars

\* A fact that was deleted while a request holds it does not come back.
LEMMA HeldIsNotNew ==
    ASSUME Shape, Shape', FactsInv, NEW t \in Threads, PoolStep(t),
           NEW i \in Held, i \in DOMAIN facts'
    PROVE  i \in DOMAIN facts
<1>1. Evolves({})
  BY PoolStepFacts
<1>2. \A j \in DOMAIN facts' : j.gen <= gen[j.ev] => j \in DOMAIN facts
  BY <1>1, EvolvesKeeps DEF Shape, TypeOK, FactsInv
<1>. QED  BY <1>2 DEF Held, FactsInv, Reviewed

-----------------------------------------------------------------------------
\* A stage holds facts of the evidence it works on.
IdsAreOwn == \A t \in Threads : \A i \in thread[t].ids : i.ev = Ev(t)

LEMMA NextIdsAreOwn == Shape /\ IdsAreOwn /\ [Next]_vars => IdsAreOwn'
<1>. SUFFICES ASSUME Shape, IdsAreOwn, [Next]_vars PROVE IdsAreOwn'
  OBVIOUS
<1>0. RunsOK
  BY DEF Shape
<1>1. ASSUME NEW t \in Threads, RunStep(t) PROVE IdsAreOwn'
  <2>. DEFINE Fine == /\ \A u \in Threads : u # t => thread'[u] = thread[u]
                      /\ \A i \in thread'[t].ids : i.ev = Ev(t)'
  <2>1. ASSUME Finish(t) PROVE Fine
    BY <1>0, <2>1 DEF Finish, RunsOK, Idle
  <2>2. ASSUME NEW pc, Goto(t, pc) PROVE Fine
    BY <1>0, <2>2 DEF Goto, RunsOK, RunState
  <2>3. ASSUME NEW stage, NEW pc, NEW ids, Load(t, stage, pc, ids), \A i \in ids : i.ev = Ev(t)
        PROVE  Fine
    BY <1>0, <2>3 DEF Load, RunsOK, RunState, Ev
  <2>4. ASSUME MatchMentions(t) PROVE Fine
    <3>1. PICK res : thread' = [thread EXCEPT ![t].pc = "resolving", ![t].res = res]
      BY <2>4 DEF MatchMentions
    <3>. QED  BY <1>0, <3>1 DEF RunsOK, RunState, Ev, IdsAreOwn
  <2>5. ASSUME ReadAccepted(t) PROVE Fine
    BY <1>0, <2>5 DEF ReadAccepted, FactsOf, RunsOK, RunState, Ev
  <2>6. Fine
    BY <1>1, <2>1, <2>2, <2>3, <2>4, <2>5
       DEF RunStep, Stop, LoadText, FinishText, TextFails, ClearFacts, Resolve, ResolveFails,
           LoadWrite, ConnectFails, Project, ProjectFails, SkipEnrich, LoadEnrich, Infer,
           Enrich, EnrichFails, FailWith, WrittenEntities, FactsIn, FactsOf
  <2>. QED  BY <2>6 DEF IdsAreOwn, Ev
<1>2. ASSUME NEW t \in Threads, StartRun(t) PROVE IdsAreOwn'
  BY <1>0, <1>2 DEF StartRun, IdsAreOwn, RunsOK, Idle, Ev
<1>3. ASSUME NEW c \in Clients, Request(c) \/ HandlerStep(c) PROVE thread' = thread
  <2>1. ApiShape
    BY DEF Shape, ApiShape, TypeOK, PipelineTypeOK
  <2>. QED  BY <1>3, <2>1, IngestShape, RetryCancelShape, DeleteShape, ReviewShape
            DEF Request, HandlerStep
<1>4. CASE Restart
  BY <1>4 DEF Restart, IdsAreOwn, Idle
<1>5. CASE UNCHANGED vars
  BY <1>5 DEF vars, pipelineVars, IdsAreOwn, Ev
<1>6. thread' = thread => IdsAreOwn'
  BY DEF IdsAreOwn, Ev
<1>. QED  BY <1>1, <1>2, <1>3, <1>4, <1>5, <1>6 DEF Next, PoolStep

LEMMA OwnIds == Spec => []IdsAreOwn
<1>1. Init => IdsAreOwn
  BY DEF Init, PipelineInit, Idle, IdsAreOwn
<1>. QED  BY <1>1, NextIdsAreOwn, ShapeInvariant, PTL DEF Spec

-----------------------------------------------------------------------------
(* Requests under way                                                      *)

\* What a request has read, or done, still stands when it goes on: a delete
\* that cleans the graph has committed, and what is approved is still there.
CleansTheDeleted ==
    \A c \in Clients : Asks(c, "cleaning") =>
        row[client[c].ev].st = "deleted" /\ \A x \in client[c].ents : reg[x].st = "gone"

ApprovesPresent ==
    \A c \in Clients : client[c].op \in {"approving", "deciding"} =>
        Exists(client[c].id.ev) /\ (client[c].found => RowsFound(client[c].id))

StandsInv == CleansTheDeleted /\ ApprovesPresent

\* A request cleans the graph after it has committed its delete, and approves
\* after it has found the item open, or has written the graph.
LEMMA RequestCleans ==
    ASSUME Shape, NEW c \in Clients, Request(c) \/ HandlerStep(c), client'[c].op = "cleaning"
    PROVE  CommitDelete(c)
<1>0. client \in [Clients -> RequestState]
  BY DEF Shape, TypeOK, ApiTypeOK
<1>1. CASE client'[c] = NoRequest
  BY <1>1 DEF NoRequest
<1>2. \A e \in Evidence : ~(BeginIngest(c, e) \/ BeginRetry(c, e) \/ Cancel(c, e) \/ BeginDelete(c, e))
  BY <1>0 DEF BeginIngest, BeginRetry, Cancel, BeginDelete, Asks, apiVars, RequestState
<1>3. \A i : ~(BeginApprove(c, i) \/ BeginReject(c, i))
  BY <1>0 DEF BeginApprove, BeginReject, RequestState
<1>4. ~CollectTouched(c)
  BY <1>0 DEF CollectTouched, RequestState
<1>5. ApproveInGraph(c) => client'[c] = NoRequest
  BY <1>0 DEF ApproveInGraph, Answer, RequestState
<1>. QED  BY <1>0, <1>1, <1>2, <1>3, <1>4, <1>5
          DEF Request, HandlerStep, CommitIngest, CommitRetry, CleanGraph, CommitApprove,
              CommitReject, Answer

LEMMA RequestApproves ==
    ASSUME Shape, NEW c \in Clients, Request(c) \/ HandlerStep(c),
           client'[c].op \in {"approving", "deciding"}
    PROVE  /\ UNCHANGED <<row, facts, reg, thread>>
           /\ \/ /\ Open(client'[c].id) /\ client'[c].op = "approving" /\ graph' = graph
                 /\ client'[c].found = RowsFound(client'[c].id)
              \/ /\ Asks(c, "approving") /\ client'[c].op = "deciding"
                 /\ client'[c].id = client[c].id /\ client'[c].found = client[c].found
                 /\ graph' = Approved(graph, client[c].id, client[c].found)
<1>0. client \in [Clients -> RequestState]
  BY DEF Shape, TypeOK, ApiTypeOK
<1>1. client'[c] # NoRequest
  BY DEF NoRequest
<1>2. \A e \in Evidence : ~(BeginIngest(c, e) \/ BeginRetry(c, e) \/ Cancel(c, e) \/ BeginDelete(c, e))
  BY <1>0 DEF BeginIngest, BeginRetry, Cancel, BeginDelete, Asks, apiVars, RequestState
<1>3. \A i : ~BeginReject(c, i)
  BY <1>0 DEF BeginReject, RequestState
<1>4. ~CollectTouched(c) /\ ~CommitDelete(c)
  BY <1>0 DEF CollectTouched, CommitDelete, RequestState
<1>5. ASSUME NEW i, BeginApprove(c, i)
      PROVE  /\ UNCHANGED <<row, facts, reg, thread>>
             /\ Open(client'[c].id) /\ client'[c].op = "approving" /\ graph' = graph
             /\ client'[c].found = RowsFound(client'[c].id)
  <2>1. client'[c].id = i /\ client'[c].op = "approving" /\ client'[c].found = RowsFound(i)
    BY <1>0, <1>5 DEF BeginApprove
  <2>. QED  BY <1>5, <2>1 DEF BeginApprove, storeVars, pipelineVars
<1>6. CASE ApproveInGraph(c)
  BY <1>0, <1>1, <1>6 DEF ApproveInGraph, Answer, RequestState, pipelineVars
<1>. QED  BY <1>0, <1>1, <1>2, <1>3, <1>4, <1>5, <1>6
          DEF Request, HandlerStep, CommitIngest, CommitRetry, CleanGraph, CommitApprove,
              CommitReject, Answer

LEMMA NextStandsInv ==
    ASSUME OneRequest
    PROVE  Shape /\ Shape' /\ RunsInv /\ PresentInv /\ FreshIsFree /\ StandsInv /\ [Next]_vars
               => StandsInv'
<1>. SUFFICES ASSUME Shape, Shape', RunsInv, PresentInv, FreshIsFree, StandsInv, [Next]_vars
              PROVE  StandsInv'
  OBVIOUS
<1>0. StoreTypeOK /\ RunsOK /\ client \in [Clients -> RequestState] /\ RequestsOK
  BY DEF Shape, TypeOK, ApiTypeOK
<1>1. ASSUME NEW t \in Threads, RunStep(t), client' = client PROVE StandsInv'
  <2>1. /\ Exists(Ev(t)) /\ \A e \in Evidence : e # Ev(t) => row'[e] = row[e]
        /\ row'[Ev(t)].st \in ACTIVE_STATUSES \cup TERMINAL_STATUSES
    BY <1>1, RunKeepsRows DEF PresentInv
  <2>2. \A x \in EntityIds : reg[x].st # "unused" => reg'[x].st = reg[x].st
    BY <1>0, <1>1, RunKeepsLive
  <2>3. ASSUME NEW c \in Clients, Asks(c, "cleaning")
        PROVE  row'[client[c].ev].st = "deleted" /\ \A x \in client[c].ents : reg'[x].st = "gone"
    <3>1. client[c].ev \in Evidence /\ client[c].ents \subseteq EntityIds
      BY <1>0, <2>3 DEF RequestsOK, Named, EvidenceOps, Asks, RequestState
    <3>2. row[client[c].ev].st = "deleted" /\ \A x \in client[c].ents : reg[x].st = "gone"
      BY <2>3 DEF StandsInv, CleansTheDeleted
    <3>3. client[c].ev # Ev(t)
      BY <2>1, <3>2 DEF Exists, ACTIVE_STATUSES, TERMINAL_STATUSES
    <3>. QED  BY <2>1, <2>2, <3>1, <3>2, <3>3
  <2>4. ASSUME NEW c \in Clients, client[c].op \in {"approving", "deciding"}
        PROVE  Exists(client[c].id.ev)' /\ (client[c].found => RowsFound(client[c].id)')
    <3>1. client[c].id \in FactId
      BY <1>0, <2>4 DEF RequestsOK, Named, FactOps
    <3>2. Exists(client[c].id.ev) /\ (client[c].found => RowsFound(client[c].id))
      BY <2>4 DEF StandsInv, ApprovesPresent
    <3>3. Exists(client[c].id.ev)'
      BY <1>1, <2>1, <3>1, <3>2 DEF Exists, FactId
    <3>4. RowsFound(client[c].id) => RowsFound(client[c].id)'
      BY <1>1, <2>2, <3>1 DEF RowsFound, Live, FactId
    <3>. QED  BY <3>2, <3>3, <3>4
  <2>. QED  BY <1>1, <2>3, <2>4 DEF StandsInv, CleansTheDeleted, ApprovesPresent, Asks
<1>2. CASE UNCHANGED <<row, reg, client>>
  BY <1>2 DEF StandsInv, CleansTheDeleted, ApprovesPresent, Asks, Exists, RowsFound, Live
<1>3. ASSUME NEW c \in Clients, Request(c) \/ HandlerStep(c) PROVE StandsInv'
  <2>1. \A d \in Clients : d = c
    BY DEF OneRequest
  <2>2. ASSUME Asks(c, "cleaning")'
        PROVE  row'[client'[c].ev].st = "deleted" /\ \A x \in client'[c].ents : reg'[x].st = "gone"
    <3>1. CommitDelete(c)
      BY <1>3, <2>2, RequestCleans DEF Asks
    <3>2. /\ client[c].ev \in Evidence /\ client'[c].ev = client[c].ev
          /\ client'[c].ents = Orphaned(client[c].ev, client[c].ents)
          /\ client[c].ents \subseteq EntityIds
      BY <1>0, <3>1 DEF CommitDelete, Asks, RequestsOK, Named, EvidenceOps, RequestState
    <3>. QED  BY <1>0, <3>1, <3>2 DEF CommitDelete, StoreTypeOK, Scrubbed, Orphaned
  <2>3. ASSUME client'[c].op \in {"approving", "deciding"}, NEW i, i = client'[c].id
        PROVE  Exists(i.ev)' /\ (client'[c].found => RowsFound(i)')
    <3>1. UNCHANGED <<row, facts, reg>>
      BY <1>3, <2>3, RequestApproves
    <3>2. Exists(i.ev) /\ (client'[c].found => RowsFound(i))
      BY <1>3, <2>3, RequestApproves
         DEF Open, PresentInv, FactsHaveEvidence, StandsInv, ApprovesPresent, Asks
    <3>. QED  BY <3>1, <3>2 DEF Exists, RowsFound, Live
  <2>. QED  BY <2>1, <2>2, <2>3 DEF StandsInv, CleansTheDeleted, ApprovesPresent
<1>4. CASE Restart
  BY <1>4 DEF Restart, NoRequest, StandsInv, CleansTheDeleted, ApprovesPresent, Asks
<1>. QED  BY <1>1, <1>2, <1>3, <1>4 DEF Next, PoolStep, StartRun, vars, storeVars, apiVars

LEMMA RequestsStand ==
    ASSUME OneRequest
    PROVE  Spec /\ [][DeletesFindNoRun]_vars => []StandsInv
<1>1. Init => StandsInv
  BY DEF Init, ApiInit, NoRequest, StandsInv, CleansTheDeleted, ApprovesPresent, Asks
<1>. QED  BY <1>1, NextStandsInv, RunsAlone, NothingWithoutEvidence, FreshInvariant,
             ShapeInvariant, PTL DEF Spec

-----------------------------------------------------------------------------
(* Written entities are in the graph                                       *)

InGraph(i) == i.src \in graph.ent /\ <<i.src, i.ev>> \in graph.sup

\* A request that has written the graph for an entity will write its fact.
ProjectedInv ==
    /\ \A i \in DOMAIN facts : i.kind = "entity" /\ facts[i].st = "written" => InGraph(i)
    /\ \A c \in Clients :
          client[c].op \in {"approving", "deciding"} /\ client[c].id.kind = "entity"
              /\ client[c].id \in DOMAIN facts
              => client[c].found /\ (Asks(c, "deciding") => InGraph(client[c].id))

\* Of the requests, only the commit of an approval writes a fact.
LEMMA RequestWrites ==
    ASSUME NEW c \in Clients, Request(c) \/ HandlerStep(c), NEW i \in DOMAIN facts',
           facts'[i].st = "written"
    PROVE  /\ i \in DOMAIN facts
           /\ facts[i].st = "written" \/ (CommitApprove(c) /\ i = client[c].id)
<1>1. CASE facts' = facts
  BY <1>1
<1>2. CASE CommitDelete(c)
  BY <1>2 DEF CommitDelete, WithoutFactsOf
<1>3. CASE CommitApprove(c)
  BY <1>3 DEF CommitApprove, Decide
<1>4. CASE CommitReject(c)
  BY <1>4 DEF CommitReject, Decide
<1>. QED  BY <1>1, <1>2, <1>3, <1>4
          DEF Request, HandlerStep, BeginIngest, CommitIngest, BeginRetry, CommitRetry, Cancel,
              BeginDelete, CollectTouched, CleanGraph, BeginApprove, ApproveInGraph, BeginReject,
              storeVars

LEMMA RunKeepsProjected ==
    ASSUME Shape, Shape', FactsInv, IdsAreOwn, ProjectedInv, NEW t \in Threads, RunStep(t),
           PoolStep(t)
    PROVE  ProjectedInv'
<1>0. StoreTypeOK /\ RunsOK /\ client' = client
  BY DEF Shape, TypeOK, PoolStep, apiVars
<1>1. graph.ent \subseteq graph'.ent /\ graph.sup \subseteq graph'.sup
  BY RunGraph
<1>2. ASSUME NEW i \in DOMAIN facts', i.kind = "entity", facts'[i].st = "written"
      PROVE  InGraph(i)'
  <2>1. CASE i \in DOMAIN facts /\ facts[i].st = "written"
    BY <1>1, <1>2, <2>1 DEF ProjectedInv, InGraph
  <2>. DEFINE ids == Writable(thread[t].ids)
              X == {j.src : j \in {k \in ids : k.kind = "entity"}}
  <2>2. CASE i \in ids /\ graph' = Projected(graph, Ev(t), ids) /\ At(t, "projecting")
    <3>1. Ev(t) \in Evidence /\ ids \in SUBSET FactId /\ graph \in Graph
      BY <1>0, <2>2, WorksOnEvidence DEF At, RunsOK, RunState, Writable, StoreTypeOK
    <3>2. i.src \in X /\ i.ev = Ev(t)
      BY <1>2, <2>2 DEF Writable, IdsAreOwn
    <3>. HIDE DEF ids
    <3>3. graph'.ent = graph.ent \cup X /\ graph'.sup = graph.sup \cup (X \X {Ev(t)})
      BY <2>2, <3>1, ProjectedIs
    <3>. HIDE DEF X
    <3>. QED  BY <3>2, <3>3 DEF InGraph
  <2>. QED  BY <1>2, <2>1, <2>2, RunWritesEntity
<1>3. ASSUME NEW c \in Clients, client[c].op \in {"approving", "deciding"},
             client[c].id.kind = "entity", client[c].id \in DOMAIN facts'
      PROVE  client[c].found /\ (Asks(c, "deciding") => InGraph(client[c].id)')
  <2>1. client[c].id \in DOMAIN facts
    BY <1>3, HeldIsNotNew DEF Held, FactOps
  <2>. QED  BY <1>0, <1>1, <1>3, <2>1 DEF ProjectedInv, InGraph
<1>. QED  BY <1>0, <1>2, <1>3 DEF ProjectedInv, Asks

LEMMA RequestKeepsProjected ==
    ASSUME OneRequest, Shape, PresentInv, RegistryInv, StandsInv, ProjectedInv,
           NEW c \in Clients, Request(c) \/ HandlerStep(c)
    PROVE  ProjectedInv'
<1>0. /\ StoreTypeOK /\ client \in [Clients -> RequestState] /\ graph \in Graph
      /\ \A d \in Clients : d = c
      /\ \A i \in DOMAIN facts : i \in FactId
  BY DEF Shape, TypeOK, ApiTypeOK, StoreTypeOK, OneRequest
<1>1. \A i \in DOMAIN facts : i.kind = "entity" => Live(i.src) /\ i.src = i.tgt /\ Exists(i.ev)
  BY <1>0 DEF RegistryInv, PresentInv, FactsHaveEvidence, FactId
<1>2. ASSUME NEW i \in DOMAIN facts, i.kind = "entity", InGraph(i) PROVE InGraph(i)'
  <2>1. CASE graph' = graph
    BY <1>2, <2>1 DEF InGraph
  <2>2. CASE CleanGraph(c)
    <3>1. i.ev # client[c].ev /\ i.src \notin client[c].ents
      BY <1>1, <1>2, <2>2 DEF CleanGraph, StandsInv, CleansTheDeleted, Live, Exists,
                              ACTIVE_STATUSES, TERMINAL_STATUSES
    <3>2. PICK X \in SUBSET client[c].ents :
             graph' = graph \/ graph' = DropEntities(DropEvidence(graph, client[c].ev), X)
      BY <2>2 DEF CleanGraph
    <3>. DEFINE h == DropEvidence(graph, client[c].ev)
    <3>3. h \in Graph /\ h.ent = graph.ent /\ <<i.src, i.ev>> \in h.sup
      BY <1>0, <1>2, <3>1 DEF InGraph, DropEvidence, Graph
    <3>. HIDE DEF h
    <3>4. i.src \in DropEntities(h, X).ent /\ <<i.src, i.ev>> \in DropEntities(h, X).sup
      BY <1>2, <3>1, <3>3 DEF InGraph, DropEntities, Graph
    <3>. QED  BY <2>1, <3>2, <3>4 DEF InGraph, h
  <2>3. CASE graph' = Approved(graph, client[c].id, client[c].found)
    <3>1. ASSUME NEW I, graph' = UpsertEdges(graph, I, "accepted") PROVE InGraph(i)'
      BY <1>0, <1>2, <3>1, UpsertEdgesIs DEF InGraph
    <3>2. ASSUME NEW X, NEW e, graph' = UpsertEntities(graph, X, e) PROVE InGraph(i)'
      BY <1>0, <1>2, <3>2 DEF InGraph, UpsertEntities, Graph
    <3>. QED  BY <2>1, <2>3, <3>1, <3>2 DEF Approved
  <2>. QED  BY <2>1, <2>2, <2>3
            DEF Request, HandlerStep, BeginIngest, CommitIngest, BeginRetry, CommitRetry, Cancel,
                BeginDelete, CollectTouched, CommitDelete, BeginApprove, ApproveInGraph,
                CommitApprove, BeginReject, CommitReject, storeVars
<1>3. ASSUME NEW i \in DOMAIN facts', i.kind = "entity", facts'[i].st = "written"
      PROVE  InGraph(i)'
  <2>1. i \in DOMAIN facts /\ (facts[i].st = "written" \/ (CommitApprove(c) /\ i = client[c].id))
    BY <1>3, RequestWrites
  <2>2. InGraph(i)
    BY <1>3, <2>1 DEF ProjectedInv, CommitApprove, Asks
  <2>. QED  BY <1>2, <1>3, <2>1, <2>2
<1>4. ASSUME client'[c].op \in {"approving", "deciding"}, NEW i, i = client'[c].id,
             i.kind = "entity", i \in DOMAIN facts'
      PROVE  client'[c].found /\ (Asks(c, "deciding")' => InGraph(i)')
  <2>1. i \in DOMAIN facts
    BY <1>4, RequestApproves
  <2>2. CASE client'[c].op = "approving" /\ client'[c].found = RowsFound(i)
    BY <1>1, <1>4, <2>1, <2>2 DEF RowsFound, Asks
  <2>3. CASE /\ Asks(c, "approving") /\ client'[c].op = "deciding"
             /\ client'[c].id = client[c].id /\ client'[c].found = client[c].found
             /\ graph' = Approved(graph, client[c].id, client[c].found)
    <3>1. client[c].found
      BY <1>4, <2>1, <2>3 DEF ProjectedInv, Asks
    <3>2. graph' = UpsertEntities(graph, {i.src}, i.ev)
      BY <1>4, <2>3, <3>1 DEF Approved
    <3>3. i.src \in graph'.ent /\ <<i.src, i.ev>> \in graph'.sup
      BY <1>0, <3>2 DEF UpsertEntities, Graph
    <3>. QED  BY <1>4, <2>3, <3>1, <3>3 DEF InGraph
  <2>. QED  BY <1>4, <2>2, <2>3, RequestApproves
<1>. QED  BY <1>0, <1>3, <1>4 DEF ProjectedInv

\* ProjectedInv for a pool of any size and one request at a time.
THEOREM ProjectedInvariant ==
    ASSUME OneRequest, ~MergeSuggestions
    PROVE  Spec /\ []MergesApart /\ [][DeletesFindNoRun]_vars => []ProjectedInv
<1>1. Init => ProjectedInv
  BY DEF Init, StoreInit, ApiInit, NoRequest, ProjectedInv
<1>2. Shape /\ Shape' /\ FactsInv /\ PresentInv /\ RegistryInv /\ StandsInv /\ IdsAreOwn
          /\ ProjectedInv /\ [Next]_vars => ProjectedInv'
  <2>. SUFFICES ASSUME Shape, Shape', FactsInv, PresentInv, RegistryInv, StandsInv, IdsAreOwn,
                       ProjectedInv, [Next]_vars
                PROVE  ProjectedInv'
    OBVIOUS
  <2>1. CASE UNCHANGED <<facts, graph, client>>
    BY <2>1 DEF ProjectedInv, InGraph, Asks
  <2>2. CASE Restart
    BY <2>2 DEF Restart, NoRequest, ProjectedInv, InGraph
  <2>. QED  BY <2>1, <2>2, RunKeepsProjected, RequestKeepsProjected
            DEF Next, PoolStep, StartRun, vars, storeVars, apiVars
<1>. QED  BY <1>1, <1>2, RegistryInvariant, NothingWithoutEvidence, RequestsStand, OwnIds,
             FactsInvariant, ShapeInvariant, PTL DEF Spec

\* WrittenIsProjected: a written entity fact has its vertex and its SUPPORTED_BY
\* edge, whether a stage wrote it or a reviewer, and whatever was deleted and
\* cleaned since, also when the graph fails and the process restarts, in a pool
\* of any size as long as no two runs hold one registry row.
THEOREM WrittenIsInGraph ==
    ASSUME OneRequest, ~MergeSuggestions
    PROVE  Spec /\ []MergesApart /\ [][DeletesFindNoRun]_vars => []WrittenIsProjected
<1>1. ProjectedInv => WrittenIsProjected
  BY DEF ProjectedInv, InGraph, WrittenIsProjected
<1>. QED  BY <1>1, ProjectedInvariant, PTL

-----------------------------------------------------------------------------
(* What a delete leaves in the graph                                       *)

Clean(e) == e \notin graph.ev /\ \A p \in graph.sup : p[2] # e

\* What a committed delete has still to clean is known to its request.
GhostInv ==
    /\ \A e \in Evidence : row[e].st = "deleted" =>
          Clean(e) \/ \E c \in Clients : Asks(c, "cleaning") /\ client[c].ev = e
    /\ \A x \in graph.ent :
          /\ reg[x].st # "unused"
          /\ reg[x].st = "gone" => \E c \in Clients : Asks(c, "cleaning") /\ x \in client[c].ents

\* Of the requests, only the commit of a delete deletes a row.
LEMMA RequestDeletes ==
    ASSUME Shape, NEW c \in Clients, Request(c) \/ HandlerStep(c), NEW e \in Evidence,
           row'[e].st = "deleted"
    PROVE  row[e].st = "deleted" \/ (CommitDelete(c) /\ e = client[c].ev)
<1>0. StoreTypeOK /\ (client[c].op \in EvidenceOps => client[c].ev \in Evidence)
  BY DEF Shape, TypeOK, RequestsOK, Named
<1>1. CASE row' = row
  BY <1>1
<1>2. CASE CommitIngest(c)
  BY <1>0, <1>2 DEF CommitIngest, StoreTypeOK, Row
<1>3. CASE CommitRetry(c)
  BY <1>0, <1>3 DEF CommitRetry, StoreTypeOK, Row
<1>4. CASE CommitDelete(c)
  BY <1>0, <1>4 DEF CommitDelete, StoreTypeOK, Row
<1>5. ASSUME NEW f \in Evidence, Cancel(c, f) \/ BeginDelete(c, f) PROVE row'[e].st = row[e].st
  BY <1>0, <1>5 DEF Cancel, BeginDelete, StoreTypeOK, Row
<1>. QED  BY <1>1, <1>2, <1>3, <1>4, <1>5
          DEF Request, HandlerStep, BeginIngest, BeginRetry, CollectTouched, CleanGraph,
              BeginApprove, ApproveInGraph, CommitApprove, BeginReject, CommitReject, storeVars

LEMMA RunKeepsGhosts ==
    ASSUME Shape, RunsInv, PresentInv, FreshIsFree, GhostInv, NEW t \in Threads, RunStep(t),
           client' = client
    PROVE  GhostInv'
<1>0. StoreTypeOK /\ RunsOK /\ graph \in Graph
  BY DEF Shape, TypeOK, StoreTypeOK
<1>1. /\ Exists(Ev(t)) /\ \A e \in Evidence : e # Ev(t) => row'[e] = row[e]
      /\ row'[Ev(t)].st \in ACTIVE_STATUSES \cup TERMINAL_STATUSES
  BY RunKeepsRows DEF PresentInv
<1>2. \A x \in EntityIds : reg[x].st # "unused" => reg'[x].st = reg[x].st
  BY <1>0, RunKeepsLive
<1>3. /\ graph'.ev \subseteq graph.ev \cup {Ev(t)}
      /\ \A p \in graph'.sup : p \in graph.sup \/ p[2] = Ev(t)
      /\ \A x \in graph'.ent : x \in graph.ent \/ Live(x)
  BY RunGraph
<1>4. ASSUME NEW e \in Evidence, row'[e].st = "deleted"
      PROVE  Clean(e)' \/ \E c \in Clients : Asks(c, "cleaning") /\ client[c].ev = e
  <2>1. e # Ev(t) /\ row[e].st = "deleted"
    BY <1>1, <1>4 DEF ACTIVE_STATUSES, TERMINAL_STATUSES
  <2>. QED  BY <1>3, <2>1 DEF GhostInv, Clean
<1>5. ASSUME NEW x \in graph'.ent
      PROVE  /\ reg'[x].st # "unused"
             /\ reg'[x].st = "gone" => \E c \in Clients : Asks(c, "cleaning") /\ x \in client[c].ents
  <2>1. CASE x \in graph.ent
    <3>1. x \in EntityIds
      BY <1>0, <2>1 DEF Graph
    <3>. QED  BY <1>2, <2>1, <3>1 DEF GhostInv
  <2>2. CASE Live(x)
    <3>1. CASE x \in EntityIds
      BY <1>2, <2>2, <3>1 DEF Live
    <3>2. graph' \in Graph
      BY RunStepShape DEF Shape, TypeOK, StoreTypeOK
    <3>. QED  BY <3>1, <3>2 DEF Graph
  <2>. QED  BY <1>3, <2>1, <2>2
<1>. QED  BY <1>4, <1>5 DEF GhostInv, Asks

LEMMA RequestKeepsGhosts ==
    ASSUME OneRequest, ~GraphFaults, Shape, StandsInv, GhostInv,
           NEW c \in Clients, Request(c) \/ HandlerStep(c)
    PROVE  GhostInv'
<1>0. /\ StoreTypeOK /\ client \in [Clients -> RequestState] /\ graph \in Graph
      /\ \A d \in Clients : d = c
      /\ client[c].op \in EvidenceOps => client[c].ev \in Evidence
      /\ client[c].op \in FactOps => client[c].id \in FactId
  BY DEF Shape, TypeOK, ApiTypeOK, StoreTypeOK, OneRequest, RequestsOK, Named
<1>1. CASE CommitDelete(c)
  <2>1. /\ Asks(c, "scrubbing") /\ Asks(c, "cleaning")' /\ client'[c].ev = client[c].ev
        /\ graph' = graph
    BY <1>0, <1>1 DEF CommitDelete, Asks, RequestState
  <2>2. ASSUME NEW e \in Evidence, row'[e].st = "deleted" PROVE e = client'[c].ev \/ Clean(e)'
    BY <1>0, <1>1, <2>1, <2>2, RequestDeletes DEF GhostInv, Clean, Asks
  <2>3. ASSUME NEW x \in graph'.ent
        PROVE  reg'[x].st # "unused" /\ (reg'[x].st = "gone" => x \in client'[c].ents)
    <3>1. x \in EntityIds /\ reg[x].st # "unused" /\ reg[x].st # "gone"
      BY <1>0, <2>1, <2>3 DEF GhostInv, Graph, Asks
    <3>2. reg[x].st = "live"
      BY <1>0, <3>1 DEF StoreTypeOK, RegRow
    <3>. QED  BY <1>1, <3>1, <3>2, RequestScrubs
  <2>. QED  BY <2>1, <2>2, <2>3 DEF GhostInv
<1>2. ASSUME ~CommitDelete(c)
      PROVE  /\ \A x \in EntityIds : reg'[x].st = reg[x].st
             /\ \A e \in Evidence : row'[e].st = "deleted" => row[e].st = "deleted"
  BY <1>2, RequestScrubs, RequestDeletes
<1>3. CASE CleanGraph(c)
  <2>. DEFINE h == DropEvidence(graph, client[c].ev)
  <2>1. Asks(c, "cleaning") /\ graph' = DropEntities(h, client[c].ents)
    BY <1>3 DEF CleanGraph
  <2>2. /\ h \in Graph /\ h.ev = graph.ev \ {client[c].ev} /\ h.ent = graph.ent
        /\ h.sup = {p \in graph.sup : p[2] # client[c].ev}
    BY <1>0 DEF DropEvidence, Graph
  <2>. HIDE DEF h
  <2>3. /\ graph'.ev = h.ev /\ graph'.ent = h.ent \ client[c].ents /\ graph'.sup \subseteq h.sup
    BY <2>1, <2>2 DEF DropEntities, Graph
  <2>4. ~CommitDelete(c)
    BY <2>1 DEF CommitDelete, Asks
  <2>5. ASSUME NEW e \in Evidence, row'[e].st = "deleted" PROVE Clean(e)'
    <3>1. Clean(e) \/ client[c].ev = e
      BY <1>0, <1>2, <2>4, <2>5 DEF GhostInv
    <3>. QED  BY <2>2, <2>3, <3>1 DEF Clean
  <2>6. ASSUME NEW x \in graph'.ent PROVE reg'[x].st # "unused" /\ reg'[x].st # "gone"
    <3>1. x \in graph.ent /\ x \in EntityIds /\ x \notin client[c].ents
      BY <1>0, <2>2, <2>3, <2>6 DEF Graph
    <3>2. reg[x].st # "unused" /\ reg[x].st # "gone"
      BY <1>0, <3>1 DEF GhostInv
    <3>. QED  BY <1>2, <2>4, <3>1, <3>2
  <2>. QED  BY <2>5, <2>6 DEF GhostInv
<1>4. CASE ~Asks(c, "cleaning") /\ ~CommitDelete(c)
  <2>1. /\ \A e \in Evidence : row[e].st = "deleted" => Clean(e)
        /\ \A x \in graph.ent : reg[x].st # "unused" /\ reg[x].st # "gone"
    BY <1>0, <1>4 DEF GhostInv
  <2>2. CASE graph' = graph
    <3>1. \A x \in graph'.ent : reg'[x].st # "unused" /\ reg'[x].st # "gone"
      BY <1>0, <1>2, <1>4, <2>1, <2>2 DEF Graph
    <3>2. \A e \in Evidence : row'[e].st = "deleted" => Clean(e)'
      BY <1>2, <1>4, <2>1, <2>2 DEF Clean
    <3>. QED  BY <3>1, <3>2 DEF GhostInv
  <2>3. CASE Asks(c, "approving") /\ graph' = Approved(graph, client[c].id, client[c].found)
    <3>. DEFINE i == client[c].id
    <3>1. i \in FactId /\ Exists(i.ev) /\ (client[c].found => RowsFound(i))
      BY <1>0, <2>3 DEF StandsInv, ApprovesPresent, Asks, FactOps
    <3>2. CASE \E I : graph' = UpsertEdges(graph, I, "accepted")
      <4>1. graph'.ev = graph.ev /\ graph'.ent = graph.ent /\ graph'.sup = graph.sup
        BY <1>0, <3>2, UpsertEdgesIs
      <4>2. \A x \in graph'.ent : reg'[x].st # "unused" /\ reg'[x].st # "gone"
        BY <1>0, <1>2, <1>4, <2>1, <4>1 DEF Graph
      <4>3. \A e \in Evidence : row'[e].st = "deleted" => Clean(e)'
        BY <1>2, <1>4, <2>1, <4>1 DEF Clean
      <4>. QED  BY <4>2, <4>3 DEF GhostInv
    <3>3. CASE graph' = UpsertEntities(graph, {i.src}, i.ev) /\ client[c].found /\ i.kind = "entity"
      <4>. HIDE DEF i
      <4>1. /\ graph'.ev = graph.ev /\ graph'.ent = graph.ent \cup {i.src}
            /\ graph'.sup = graph.sup \cup ({i.src} \X {i.ev})
        BY <1>0, <3>3 DEF UpsertEntities, Graph
      <4>2. Live(i.src) /\ i.src \in EntityIds
        BY <3>1, <3>3 DEF RowsFound, FactId
      <4>3. \A x \in graph'.ent : reg'[x].st # "unused" /\ reg'[x].st # "gone"
        BY <1>0, <1>2, <1>4, <2>1, <4>1, <4>2 DEF Graph, Live
      <4>4. ASSUME NEW e \in Evidence, row'[e].st = "deleted" PROVE Clean(e)'
        <5>1. row[e].st = "deleted" /\ e # i.ev
          BY <1>2, <1>4, <3>1, <4>4 DEF Exists, ACTIVE_STATUSES, TERMINAL_STATUSES
        <5>. QED  BY <2>1, <4>1, <5>1 DEF Clean
      <4>. QED  BY <4>3, <4>4 DEF GhostInv
    <3>. QED  BY <2>2, <2>3, <3>2, <3>3 DEF Approved
  <2>. QED  BY <1>4, <2>2, <2>3
            DEF Request, HandlerStep, BeginIngest, CommitIngest, BeginRetry, CommitRetry, Cancel,
                BeginDelete, CollectTouched, CleanGraph, BeginApprove, ApproveInGraph,
                CommitApprove, BeginReject, CommitReject, storeVars
<1>5. CASE Asks(c, "cleaning") /\ ~CommitDelete(c) /\ ~CleanGraph(c)
  BY <1>5 DEF Request, HandlerStep, BeginIngest, CommitIngest, BeginRetry, CommitRetry, Cancel,
              BeginDelete, CollectTouched, BeginApprove, ApproveInGraph, CommitApprove,
              BeginReject, CommitReject, Asks
<1>. QED  BY <1>1, <1>3, <1>4, <1>5

\* DeleteCleansGraph for any number of pool threads, with merge suggestions and
\* retries: with one request at a time, and while the graph and the process do
\* not fail, a delete that does not commit beside a run, forced or not, leaves
\* no vertex and no SUPPORTED_BY edge of its evidence, and no vertex of an
\* entity it took.  Beside a run, whose write stage goes on, it may.
THEOREM DeletedIsCleaned ==
    ASSUME OneRequest, ~GraphFaults, ~Restarts
    PROVE  Spec /\ [][DeletesFindNoRun]_vars => []DeleteCleansGraph
<1>1. Init => GhostInv
  BY DEF Init, StoreInit, GhostInv
<1>2. Shape /\ RunsInv /\ PresentInv /\ FreshIsFree /\ StandsInv /\ GhostInv /\ [Next]_vars
          => GhostInv'
  <2>. SUFFICES ASSUME Shape, RunsInv, PresentInv, FreshIsFree, StandsInv, GhostInv, [Next]_vars
                PROVE  GhostInv'
    OBVIOUS
  <2>1. CASE UNCHANGED <<row, reg, graph, client>>
    BY <2>1 DEF GhostInv, Clean, Asks
  <2>. QED  BY <2>1, RunKeepsGhosts, RequestKeepsGhosts
            DEF Next, PoolStep, StartRun, Restart, vars, storeVars, apiVars
<1>3. Shape /\ GhostInv => DeleteCleansGraph
  <2>. SUFFICES ASSUME Shape, GhostInv, NEW e \in Evidence, row[e].st = "deleted",
                       \A c \in Clients : Asks(c, "idle")
                PROVE  e \notin graph.ev /\ (\A p \in graph.sup : p[2] # e)
                       /\ \A x \in graph.ent : Live(x)
    BY DEF DeleteCleansGraph, Forgotten
  <2>1. Clean(e) /\ \A x \in graph.ent : reg[x].st \notin {"unused", "gone"}
    BY DEF GhostInv, Asks
  <2>2. \A x \in graph.ent : reg[x].st \in {"unused", "live", "gone"}
    BY DEF Shape, TypeOK, StoreTypeOK, Graph, RegRow
  <2>. QED  BY <2>1, <2>2 DEF Clean, Live
<1>. QED  BY <1>1, <1>2, <1>3, RunsAlone, NothingWithoutEvidence, FreshInvariant, RequestsStand,
             ShapeInvariant, PTL DEF Spec

-----------------------------------------------------------------------------
(* Edges stand on written facts                                            *)

Backed(r) == \E i \in FactsOf(r.ev) : i.src = r.src /\ i.tgt = r.dst /\ facts[i].st = "written"

\* The edge of an approval whose commit is still to come.
Promised(r) ==
    \E c \in Clients :
        /\ Asks(c, "deciding")
        /\ client[c].id.ev = r.ev /\ client[c].id.src = r.src /\ client[c].id.tgt = r.dst
        /\ client[c].id.kind = "merge" => client[c].found

\* Until its facts are resolved for the first time, an evidence has none.
Unresolved == {"none", "uploaded", "parsed", "extracted"}

EdgeInv ==
    /\ \A r \in graph.rel : row[r.ev].st = "deleted" \/ Backed(r) \/ Promised(r)
    /\ \A e \in Evidence : row[e].st \in Unresolved => FactsOf(e) = {}
    /\ \A c \in Clients : ~Asks(c, "retrying")
    /\ \A t \in Threads : At(t, "projecting") => thread[t].ids \subseteq FactsOf(Ev(t))
    /\ \A c \in Clients : client[c].op \in FactOps => client[c].id \in DOMAIN facts

\* A first run deletes no facts, and what is written stays written.
LEMMA RunKeepsWritten ==
    ASSUME Shape, RunsInv, FactsInv, PresentInv, EdgeInv, NEW t \in Threads, RunStep(t)
    PROVE  /\ DOMAIN facts \subseteq DOMAIN facts'
           /\ \A i \in DOMAIN facts : facts[i].st = "written" => facts'[i].st = "written"
<1>0. StoreTypeOK /\ RunsOK
  BY DEF Shape, TypeOK
<1>1. DOMAIN facts \subseteq DOMAIN facts'
  <2>1. CASE ClearFacts(t)
    <3>1. Ev(t) \in Evidence /\ row[Ev(t)].st = Before(thread[t].pc)
      BY RunKeepsRows DEF PresentInv
    <3>2. row[Ev(t)].st = "extracted"
      BY <2>1, <3>1 DEF ClearFacts, Load, At, Before
    <3>3. FactsOf(Ev(t)) = {}
      BY <3>1, <3>2 DEF EdgeInv, Unresolved
    <3>. QED  BY <2>1, <3>3 DEF ClearFacts, WithoutFactsOf
  <2>2. CASE Resolve(t)
    <3>. DEFINE ids == {m.id : m \in thread[t].res}
    <3>1. PICK band \in [ids -> Bands], relBand \in Bands,
               rels \in {{}} \cup {{p} : p \in {q \in ids \X ids : q[1] # q[2]}} :
             LET new == ResolvedFacts(Ev(t), thread[t].res, band, rels, relBand)
             IN  facts' = [j \in DOMAIN facts \cup DOMAIN new |->
                              IF j \in DOMAIN new THEN new[j] ELSE facts[j]]
      BY <2>2 DEF Resolve
    <3>. QED  BY <3>1
  <2>3. CASE Project(t)
    BY <2>3 DEF Project, WithStatus, FailWith
  <2>4. CASE Infer(t)
    <3>. DEFINE id(p) == [ev |-> Ev(t), gen |-> gen[Ev(t)] + 1, kind |-> "inferred",
                          src |-> p[1], tgt |-> p[2]]
    <3>1. PICK P \in SUBSET Proposable(thread[t].ids) :
             facts' = [j \in DOMAIN facts \cup {id(p) : p \in P} |->
                          IF j \in DOMAIN facts THEN facts[j] ELSE [st |-> "pending", item |-> "none"]]
      BY <2>4 DEF Infer
    <3>. QED  BY <3>1
  <2>5. CASE Enrich(t)
    BY <2>5 DEF Enrich
  <2>. QED  BY <2>1, <2>2, <2>3, <2>4, <2>5
            DEF RunStep, Stop, LoadText, FinishText, TextFails, MatchMentions, ResolveFails,
                LoadWrite, ReadAccepted, ConnectFails, ProjectFails, SkipEnrich, LoadEnrich,
                EnrichFails, FailWith, storeVars
<1>2. Evolves({})
  BY <1>0, RunStepEvolves
<1>. QED  BY <1>1, <1>2 DEF Evolves

\* An edge that a run inserts is that of a fact it writes.
LEMMA RunEdgesBacked ==
    ASSUME ~GraphFaults, Shape, RunsInv, PresentInv, EdgeInv, NEW t \in Threads, RunStep(t),
           NEW r \in graph'.rel
    PROVE  r \in graph.rel \/ Backed(r)'
<1>0. StoreTypeOK /\ RunsOK /\ graph \in Graph
  BY DEF Shape, TypeOK, StoreTypeOK
<1>1. Ev(t) \in Evidence /\ Exists(Ev(t))
  BY RunKeepsRows DEF PresentInv
<1>2. CASE graph' = graph
  BY <1>2
<1>3. CASE ReadAccepted(t)
  BY <1>0, <1>3 DEF ReadAccepted, UpsertEvidence, Graph
<1>4. CASE Project(t)
  <2>. DEFINE ids == Writable(thread[t].ids)
  <2>1. ids \subseteq DOMAIN facts /\ ids \in SUBSET FactId
    BY <1>0, <1>4 DEF Project, EdgeInv, FactsOf, Writable, StoreTypeOK
  <2>2. graph' = Projected(graph, Ev(t), ids) /\ facts' = WithStatus(ids, "written")
    BY <1>1, <1>4, <2>1 DEF Project
  <2>3. ASSUME NEW i \in ids PROVE i \in DOMAIN facts' /\ facts'[i].st = "written"
    BY <1>0, <2>1, <2>2 DEF WithStatus, StoreTypeOK, FactRow
  <2>. HIDE DEF ids
  <2>4. r \in graph.rel \/ \E i \in ids : r.src = i.src /\ r.dst = i.tgt /\ r.ev = i.ev
    BY <1>0, <1>1, <2>1, <2>2, ProjectedIs
  <2>. QED  BY <2>3, <2>4 DEF Backed, FactsOf
<1>5. CASE Enrich(t)
  <2>. DEFINE pending == FactsIn(Ev(t), {"inferred"}, "pending")
              accepted == FactsIn(Ev(t), {"inferred"}, "accepted")
  <2>1. PICK band \in [pending -> Bands], last \in Unflushed(pending) :
           LET ids == accepted \cup {j \in pending \ last : band[j] = "accepted"}
           IN  /\ graph' = UpsertEdges(graph, ids, "proposed")
               /\ facts' = IF ~Exists(Ev(t)) THEN facts
                           ELSE [j \in DOMAIN facts |->
                                    CASE j \in ids -> [st |-> "written", item |-> "none"]
                                      [] j \in pending \ ids -> Gated(band[j])
                                      [] OTHER -> facts[j]]
    BY <1>5 DEF Enrich
  <2>. DEFINE ids == accepted \cup {j \in pending \ last : band[j] = "accepted"}
  <2>2. ids \subseteq DOMAIN facts
    BY DEF FactsIn, FactsOf
  <2>. HIDE DEF pending, ids
  <2>3. graph' = UpsertEdges(graph, ids, "proposed")
    BY <2>1 DEF ids
  <2>4. facts' = [j \in DOMAIN facts |->
                     CASE j \in ids -> [st |-> "written", item |-> "none"]
                       [] j \in pending \ ids -> Gated(band[j])
                       [] OTHER -> facts[j]]
    BY <1>1, <2>1 DEF ids
  <2>5. \A i \in ids : i \in DOMAIN facts' /\ facts'[i].st = "written"
    BY <2>2, <2>4
  <2>6. r \in graph.rel \/ \E i \in ids : r.src = i.src /\ r.dst = i.tgt /\ r.ev = i.ev
    BY <1>0, <2>3, UpsertEdgesIs
  <2>. QED  BY <2>5, <2>6 DEF Backed, FactsOf
<1>. QED  BY <1>2, <1>3, <1>4, <1>5
          DEF RunStep, Stop, LoadText, FinishText, TextFails, ClearFacts, MatchMentions, Resolve,
              ResolveFails, LoadWrite, ConnectFails, ProjectFails, SkipEnrich, LoadEnrich, Infer,
              EnrichFails, FailWith, storeVars

LEMMA RunKeepsEdges ==
    ASSUME ~GraphFaults, Shape, RunsInv, FactsInv, PresentInv, EdgeInv,
           NEW t \in Threads, RunStep(t), client' = client
    PROVE  EdgeInv'
<1>0. StoreTypeOK /\ RunsOK /\ graph \in Graph
  BY DEF Shape, TypeOK, StoreTypeOK
<1>1. /\ ~At(t, "idle") /\ Ev(t) \in Evidence /\ Exists(Ev(t))
      /\ row[Ev(t)].st = Before(thread[t].pc)
      /\ \A e \in Evidence : e # Ev(t) => row'[e] = row[e]
      /\ \A u \in Threads : u # t => thread'[u] = thread[u]
      /\ Ev(t)' = Ev(t) \/ At(t, "idle")'
  BY RunKeepsRows DEF PresentInv
<1>2. /\ DOMAIN facts \subseteq DOMAIN facts'
      /\ \A i \in DOMAIN facts : facts[i].st = "written" => facts'[i].st = "written"
  BY RunKeepsWritten
<1>3. ASSUME NEW r \in graph'.rel PROVE row'[r.ev].st = "deleted" \/ Backed(r)' \/ Promised(r)'
  <2>1. CASE r \in graph.rel
    <3>1. r.ev \in Evidence
      BY <1>0, <2>1 DEF Graph, Edge
    <3>2. row[r.ev].st = "deleted" => row'[r.ev] = row[r.ev]
      BY <1>1, <3>1 DEF Exists, ACTIVE_STATUSES, TERMINAL_STATUSES
    <3>3. Backed(r) => Backed(r)'
      BY <1>2 DEF Backed, FactsOf
    <3>. QED  BY <2>1, <3>2, <3>3 DEF EdgeInv, Promised, Asks
  <2>. QED  BY <2>1, RunEdgesBacked
<1>4. ASSUME NEW e \in Evidence, row'[e].st \in Unresolved PROVE FactsOf(e)' = {}
  <2>1. CASE e # Ev(t) \/ ~(Resolve(t) \/ Infer(t))
    <3>1. row[e].st \in Unresolved
      <4>1. Proceeds(t)
        BY <1>0, RunStepProceeds DEF RunsInv
      <4>. QED  BY <1>1, <1>4, <4>1 DEF Proceeds, Progresses, Advances, Unresolved
    <3>2. \A i \in DOMAIN facts' : i.ev = e => i \in DOMAIN facts
      BY <2>1, RunAddsFacts
    <3>. QED  BY <3>1, <3>2 DEF EdgeInv, FactsOf
  <2>2. CASE e = Ev(t) /\ Resolve(t)
    <3>1. thread[t].seen = "extracted" /\ row' = Saved(t, "resolved")
      BY <1>1, <2>2 DEF RunsInv, OnCourse, Resolve, At, InStage, Before
    <3>2. row'[e].st = "resolved"
      BY <1>0, <1>1, <2>2, <3>1 DEF Saved, StoreTypeOK, Row
    <3>. QED  BY <1>4, <3>2 DEF Unresolved
  <2>3. CASE e = Ev(t) /\ Infer(t)
    BY <1>1, <1>4, <2>3 DEF Infer, At, Before, Unresolved
  <2>. QED  BY <2>1, <2>2, <2>3
<1>5. ASSUME NEW u \in Threads, At(u, "projecting")' PROVE thread'[u].ids \subseteq FactsOf(Ev(u))'
  <2>1. Ev(u)' = Ev(u)
    BY <1>1, <1>5 DEF At, Ev
  <2>2. CASE At(u, "projecting") /\ thread'[u].ids = thread[u].ids
    BY <1>2, <2>1, <2>2 DEF EdgeInv, FactsOf
  <2>3. CASE u = t /\ ReadAccepted(t)
    <3>1. thread'[u].ids \subseteq FactsOf(Ev(t)) /\ facts' = facts
      BY <1>0, <2>3 DEF ReadAccepted, RunsOK, RunState
    <3>. QED  BY <2>1, <2>3, <3>1 DEF FactsOf
  <2>. QED  BY <1>0, <1>5, <2>2, <2>3, RunStepHolds
<1>. QED  BY <1>2, <1>3, <1>4, <1>5 DEF EdgeInv, Asks

\* Requests keep EdgeInv: all but its edges, then those.
LEMMA RequestKeepsClaims ==
    ASSUME OneRequest, MaxRetries = 0, Shape, RunsInv, EdgeInv, NEW c \in Clients,
           Request(c) \/ HandlerStep(c), CommitDelete(c) => ~InFlight(client[c].ev)
    PROVE  /\ \A e \in Evidence : row'[e].st \in Unresolved => FactsOf(e)' = {}
           /\ \A d \in Clients : ~Asks(d, "retrying")'
           /\ \A t \in Threads : At(t, "projecting")' => thread'[t].ids \subseteq FactsOf(Ev(t))'
           /\ \A d \in Clients : client'[d].op \in FactOps => client'[d].id \in DOMAIN facts'
<1>0. /\ StoreTypeOK /\ RunsOK /\ client \in [Clients -> RequestState] /\ retries \in Nat
      /\ client[c].op \in EvidenceOps => client[c].ev \in Evidence
      /\ \A d \in Clients : d = c
  BY DEF Shape, TypeOK, ApiTypeOK, RequestsOK, Named, OneRequest
<1>1. thread' = thread /\ DOMAIN facts' \subseteq DOMAIN facts
  BY RequestKeepsRows
<1>2. ~CommitRetry(c) /\ \A e \in Evidence : ~BeginRetry(c, e)
  <2>1. ~CommitRetry(c)
    BY DEF EdgeInv, CommitRetry
  <2>2. ~(retries < MaxRetries)
    BY <1>0
  <2>. QED  BY <2>1, <2>2 DEF BeginRetry
<1>3. ~Asks(c, "retrying")'
  <2>1. ~Asks(c, "retrying")
    BY DEF EdgeInv
  <2>2. CASE Answer(c)
    BY <1>0, <2>2 DEF Answer, NoRequest, Asks
  <2>3. CASE client' = client
    BY <2>1, <2>3 DEF Asks
  <2>4. ASSUME NEW e, BeginIngest(c, e) \/ BeginDelete(c, e) PROVE ~Asks(c, "retrying")'
    BY <1>0, <2>4 DEF BeginIngest, BeginDelete, RequestState, Asks
  <2>5. CASE CollectTouched(c) \/ CommitDelete(c) \/ ApproveInGraph(c)
    BY <1>0, <2>2, <2>5 DEF CollectTouched, CommitDelete, ApproveInGraph, RequestState, Asks
  <2>6. ASSUME NEW i, BeginApprove(c, i) \/ BeginReject(c, i) PROVE ~Asks(c, "retrying")'
    BY <1>0, <2>6 DEF BeginApprove, BeginReject, RequestState, Asks
  <2>. QED  BY <1>2, <2>2, <2>3, <2>4, <2>5, <2>6
            DEF Request, HandlerStep, CommitIngest, Cancel, CleanGraph, CommitApprove,
                CommitReject, apiVars
<1>4. CASE CommitDelete(c)
  <2>. DEFINE e == client[c].ev
  <2>1. /\ e \in Evidence /\ facts' = WithoutFactsOf(e)
        /\ client'[c].op = "cleaning" /\ row'[e].st = "deleted"
        /\ \A f \in Evidence : f # e => row'[f] = row[f]
    BY <1>0, <1>4 DEF CommitDelete, Asks, EvidenceOps, StoreTypeOK, Row, RequestState
  <2>2. \A t \in Threads : Ev(t) # e
    BY <1>4 DEF InFlight
  <2>. HIDE DEF e
  <2>3. \A f : f # e => FactsOf(f)' = FactsOf(f)
    BY <2>1 DEF FactsOf, WithoutFactsOf
  <2>4. \A f \in Evidence : row'[f].st \in Unresolved => FactsOf(f)' = {}
    BY <2>1, <2>3 DEF EdgeInv, Unresolved
  <2>5. \A t \in Threads : At(t, "projecting")' => thread'[t].ids \subseteq FactsOf(Ev(t))'
    BY <1>1, <2>2, <2>3 DEF EdgeInv, At, Ev
  <2>. QED  BY <1>0, <1>3, <2>1, <2>4, <2>5 DEF FactOps
<1>5. CASE ~CommitDelete(c)
  <2>1. DOMAIN facts' = DOMAIN facts
    BY <1>5, RequestKeepsRows
  <2>2. ASSUME NEW e \in Evidence PROVE row'[e].st \in Unresolved => row[e].st \in Unresolved
    <3>1. CASE row' = row
      BY <3>1
    <3>2. CASE CommitIngest(c)
      <4>1. client[c].ev \in Evidence /\ row[client[c].ev].st = "none"
        BY <1>0, <3>2 DEF CommitIngest, Asks, EvidenceOps, RunsInv, StillSo
      <4>. QED  BY <1>0, <3>2, <4>1 DEF CommitIngest, StoreTypeOK, Unresolved
    <3>3. ASSUME NEW f \in Evidence, Cancel(c, f) \/ BeginDelete(c, f) PROVE row'[e].st = row[e].st
      BY <1>0, <3>3 DEF Cancel, BeginDelete, StoreTypeOK, Row
    <3>. QED  BY <1>2, <1>5, <3>1, <3>2, <3>3
              DEF Request, HandlerStep, BeginIngest, CollectTouched, CleanGraph, BeginApprove,
                  ApproveInGraph, CommitApprove, BeginReject, CommitReject, storeVars
  <2>3. ASSUME NEW d \in Clients, client'[d].op \in FactOps PROVE client'[d].id \in DOMAIN facts
    BY <2>3, RequestStepHolds DEF EdgeInv, Open
  <2>4. \A e : FactsOf(e)' = FactsOf(e)
    BY <2>1 DEF FactsOf
  <2>. QED  BY <1>0, <1>1, <1>3, <2>1, <2>2, <2>3, <2>4 DEF EdgeInv, At, Ev
<1>. QED  BY <1>4, <1>5

LEMMA RequestKeepsEdges ==
    ASSUME OneRequest, MaxRetries = 0, Shape, RunsInv, FactsInv, HeldIsOpen, PresentInv, StandsInv,
           EdgeInv, NEW c \in Clients, Request(c) \/ HandlerStep(c)
    PROVE  \A r \in graph'.rel : row'[r.ev].st = "deleted" \/ Backed(r)' \/ Promised(r)'
<1>0. /\ StoreTypeOK /\ client \in [Clients -> RequestState] /\ graph \in Graph
      /\ client[c].op \in EvidenceOps => client[c].ev \in Evidence
      /\ \A d \in Clients : d = c
  BY DEF Shape, TypeOK, ApiTypeOK, StoreTypeOK, RequestsOK, Named, OneRequest
<1>. SUFFICES ASSUME NEW r \in graph'.rel
              PROVE  row'[r.ev].st = "deleted" \/ Backed(r)' \/ Promised(r)'
  OBVIOUS
<1>. DEFINE i == client[c].id
<1>1. r \in graph.rel => /\ r.ev \in Evidence
                         /\ row[r.ev].st = "deleted" \/ Backed(r) \/ Promised(r)
  BY <1>0 DEF EdgeInv, Graph, Edge
<1>2. r \in graph.rel /\ row[r.ev].st = "deleted" => row'[r.ev].st = "deleted"
  <2>1. CASE CommitDelete(c)
    BY <1>0, <1>1, <2>1 DEF CommitDelete, StoreTypeOK, Row
  <2>2. CASE ~CommitDelete(c)
    BY <1>1, <2>2, RequestKeepsRows
  <2>. QED  BY <2>1, <2>2
<1>3. Promised(r) => Asks(c, "deciding")
  BY <1>0 DEF Promised
<1>4. CASE CommitDelete(c)
  <2>1. /\ ~Asks(c, "deciding") /\ facts' = WithoutFactsOf(client[c].ev) /\ graph' = graph
        /\ client[c].ev \in Evidence /\ row'[client[c].ev].st = "deleted"
    BY <1>0, <1>4 DEF CommitDelete, Asks, EvidenceOps, StoreTypeOK, Row
  <2>2. r.ev # client[c].ev /\ Backed(r) => Backed(r)'
    BY <2>1 DEF Backed, FactsOf, WithoutFactsOf
  <2>. QED  BY <1>1, <1>2, <1>3, <2>1, <2>2
<1>5. CASE facts' = facts /\ graph' = graph /\ ~Asks(c, "deciding")
  <2>1. Backed(r) => Backed(r)'
    BY <1>5 DEF Backed, FactsOf
  <2>. QED  BY <1>1, <1>2, <1>3, <1>5, <2>1
<1>6. CASE CleanGraph(c)
  <2>1. ~Asks(c, "deciding") /\ facts' = facts
    BY <1>6 DEF CleanGraph, Asks
  <2>2. r \in graph.rel
    <3>. DEFINE h == DropEvidence(graph, client[c].ev)
    <3>1. PICK X : graph' = graph \/ graph' = DropEntities(h, X)
      BY <1>6 DEF CleanGraph
    <3>2. h \in Graph /\ h.rel = graph.rel
      BY <1>0 DEF DropEvidence, Graph
    <3>. HIDE DEF h
    <3>. QED  BY <3>1, <3>2 DEF DropEntities, Graph
  <2>3. Backed(r) => Backed(r)'
    BY <2>1 DEF Backed, FactsOf
  <2>. QED  BY <1>1, <1>2, <1>3, <2>1, <2>2, <2>3
<1>7. CASE /\ Asks(c, "approving") /\ facts' = facts
           /\ graph' = Approved(graph, i, client[c].found)
           /\ client' = [client EXCEPT ![c].op = "deciding"]
  <2>1. r \in graph.rel \/ /\ r.src = i.src /\ r.dst = i.tgt /\ r.ev = i.ev
                           /\ i.kind = "merge" => client[c].found
    <3>1. CASE graph' = UpsertEdges(graph, {i}, "accepted") /\ (i.kind = "merge" => client[c].found)
      <4>. HIDE DEF i
      <4>. QED  BY <1>0, <3>1, UpsertEdgesIs
    <3>2. ASSUME NEW X, NEW e, graph' = UpsertEntities(graph, X, e) PROVE r \in graph.rel
      BY <1>0, <3>2 DEF UpsertEntities, Graph
    <3>. QED  BY <1>7, <3>1, <3>2 DEF Approved
  <2>2. client'[c].op = "deciding" /\ client'[c].id = i /\ client'[c].found = client[c].found
    BY <1>0, <1>7 DEF RequestState
  <2>3. r \in graph.rel \/ Promised(r)'
    BY <2>1, <2>2 DEF Promised, Asks
  <2>4. Backed(r) => Backed(r)'
    BY <1>7 DEF Backed, FactsOf
  <2>. QED  BY <1>1, <1>2, <1>3, <1>7, <2>3, <2>4 DEF Asks
<1>8. CASE CommitApprove(c)
  <2>1. Asks(c, "deciding") /\ i \in DOMAIN facts
    BY <1>8 DEF CommitApprove, Asks, EdgeInv, FactOps
  <2>2. i.kind = "merge" /\ client[c].found => Live(i.tgt)
    BY <2>1 DEF StandsInv, ApprovesPresent, Asks, RowsFound
  <2>3. Decide(i, "written", "approved") /\ graph' = graph
    BY <1>8, <2>1, <2>2 DEF CommitApprove
  <2>4. /\ DOMAIN facts' = DOMAIN facts /\ facts'[i].st = "written"
        /\ \A j \in DOMAIN facts : j # i => facts'[j] = facts[j]
    BY <2>1, <2>3 DEF Decide
  <2>5. Promised(r) => Backed(r)'
    BY <1>0, <2>1, <2>4 DEF Promised, Backed, FactsOf
  <2>6. Backed(r) => Backed(r)'
    BY <2>4 DEF Backed, FactsOf
  <2>. QED  BY <1>1, <1>2, <2>3, <2>5, <2>6
<1>9. CASE CommitReject(c)
  <2>1. Asks(c, "rejecting") /\ i \in Held /\ graph' = graph
    BY <1>9 DEF CommitReject, Asks, FactOps, Held
  <2>2. i \in DOMAIN facts => facts[i].st # "written"
    BY <2>1 DEF HeldIsOpen, FactsInv, Sane
  <2>3. /\ DOMAIN facts' = DOMAIN facts
        /\ \A j \in DOMAIN facts : j # i => facts'[j] = facts[j]
    BY <1>9 DEF CommitReject, Decide
  <2>4. Backed(r) => Backed(r)'
    BY <2>2, <2>3 DEF Backed, FactsOf
  <2>. QED  BY <1>1, <1>2, <1>3, <2>1, <2>4 DEF Asks
<1>10. CASE Asks(c, "deciding") /\ ~CommitApprove(c)
  BY <1>10 DEF Request, HandlerStep, BeginIngest, CommitIngest, BeginRetry, CommitRetry, Cancel,
               BeginDelete, CollectTouched, CommitDelete, CleanGraph, BeginApprove,
               ApproveInGraph, BeginReject, CommitReject, Asks
<1>11. CASE ApproveInGraph(c)
  BY <1>5, <1>7, <1>11 DEF ApproveInGraph, Asks
<1>. QED  BY <1>4, <1>5, <1>6, <1>8, <1>9, <1>10, <1>11
          DEF Request, HandlerStep, BeginIngest, CommitIngest, BeginRetry, CommitRetry, Cancel,
              BeginDelete, CollectTouched, BeginApprove, BeginReject, storeVars

\* GraphIsGrounded for any number of pool threads, entities, merge suggestions
\* and inferences: with one request at a time, until a retry, and as long as no
\* delete commits beside a run, an edge of a present evidence stands on a
\* written fact of that evidence, so that neither the gate nor a reviewer is
\* bypassed.
THEOREM GraphStandsOnFacts ==
    ASSUME OneRequest, ~GraphFaults, ~Restarts, MaxRetries = 0
    PROVE  Spec /\ [][DeletesFindNoRun]_vars => []GraphIsGrounded
<1>1. Init => EdgeInv /\ HeldIsOpen
  <2>. SUFFICES ASSUME Init PROVE EdgeInv /\ HeldIsOpen
    OBVIOUS
  <2>1. \A t \in Threads : ~At(t, "projecting")
    BY DEF Init, PipelineInit, Idle, At
  <2>2. \A c \in Clients : client[c].op = "idle"
    BY DEF Init, ApiInit, NoRequest
  <2>3. DOMAIN facts = {} /\ graph.rel = {}
    BY DEF Init, StoreInit
  <2>. QED  BY <2>1, <2>2, <2>3 DEF EdgeInv, FactsOf, Asks, FactOps, HeldIsOpen
<1>2. Shape /\ RunsInv /\ FactsInv /\ HeldIsOpen /\ PresentInv /\ StandsInv /\ EdgeInv
          /\ [Next]_vars /\ [DeletesFindNoRun]_vars => EdgeInv'
  <2>. SUFFICES ASSUME Shape, RunsInv, FactsInv, HeldIsOpen, PresentInv, StandsInv, EdgeInv,
                       [Next]_vars, [DeletesFindNoRun]_vars
                PROVE  EdgeInv'
    OBVIOUS
  <2>1. ASSUME NEW t \in Threads, StartRun(t), client' = client PROVE EdgeInv'
    <3>1. /\ UNCHANGED storeVars /\ ~At(t, "projecting")'
          /\ \A u \in Threads : u # t => thread'[u] = thread[u]
      BY <2>1 DEF StartRun, Shape, RunsOK, Idle, At
    <3>. QED  BY <2>1, <3>1 DEF EdgeInv, storeVars, Backed, Promised, FactsOf, Asks, At, Ev
  <2>2. CASE UNCHANGED vars
    BY <2>2 DEF vars, storeVars, pipelineVars, apiVars, EdgeInv, Backed, Promised, FactsOf, Asks,
                At, Ev
  <2>3. ASSUME NEW c \in Clients, Request(c) \/ HandlerStep(c), DeletesFindNoRun PROVE EdgeInv'
    BY <2>3, RequestKeepsClaims, RequestKeepsEdges DEF EdgeInv, DeletesFindNoRun
  <2>. QED  BY <2>1, <2>2, <2>3, RunKeepsEdges DEF Next, PoolStep, Restart, apiVars
<1>3. EdgeInv /\ PresentInv => GraphIsGrounded
  <2>. SUFFICES ASSUME EdgeInv, PresentInv, NEW r \in graph.rel, Exists(r.ev),
                       \A c \in Clients : Asks(c, "idle")
                PROVE  \E i \in FactsOf(r.ev) :
                          i.src = r.src /\ i.tgt = r.dst /\ facts[i].st = "written"
    BY DEF GraphIsGrounded, EdgesAreJustified, PresentInv
  <2>1. row[r.ev].st # "deleted" /\ ~Promised(r)
    BY DEF Exists, ACTIVE_STATUSES, TERMINAL_STATUSES, Promised, Asks
  <2>. QED  BY <2>1 DEF EdgeInv, Backed
<1>. QED  BY <1>1, <1>2, <1>3, NextHeldIsOpen, RunsAlone, NothingWithoutEvidence, RequestsStand,
             FactsInvariant, ShapeInvariant, PTL DEF Spec
=============================================================================
