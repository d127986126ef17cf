---------------------------- MODULE EvidenceSystem ----------------------------
(***************************************************************************)
(* The evidence store under the ingest pool and the API together, and what *)
(* is expected of it.                                                      *)
(***************************************************************************)
EXTENDS EvidenceApi

Init == StoreInit /\ PipelineInit /\ ApiInit

PoolStep(t) == (StartRun(t) \/ RunStep(t)) /\ UNCHANGED apiVars

Next ==
    \/ \E t \in Threads : PoolStep(t)
    \/ \E c \in Clients : Request(c) \/ HandlerStep(c)
    \/ Restart

Spec == Init /\ [][Next]_vars

\* A pool thread keeps running its task, the executor hands out what was
\* submitted, and a request that was accepted is carried through.  Nothing is
\* asked of users, of restarts or of the graph.  That a thread goes on assumes
\* texts that extract() comes to an end with, those of one chunk (Extraction).
Fairness ==
    /\ \A t \in Threads : WF_vars(RunStep(t) /\ UNCHANGED apiVars)
    /\ WF_vars(\E t \in Threads : StartRun(t) /\ UNCHANGED apiVars)
    /\ \A c \in Clients : WF_vars(HandlerStep(c))

FairSpec == Spec /\ Fairness

-----------------------------------------------------------------------------
(* Types                                                                   *)

\* Every variable keeps its shape.
TypeOK == StoreTypeOK /\ PipelineTypeOK /\ ApiTypeOK

-----------------------------------------------------------------------------
(* Runs and the status of the evidence row                                 *)

Queued(e) == \E n \in 1..Len(queue) : queue[n] = e
InFlight(e) == Queued(e) \/ \E t \in Threads : Ev(t) = e

\* An evidence that is shown as in progress has a run that will end it: no
\* order of steps, retries, failures, deletes and restarts leaves a row
\* "spinning forever" (main.py:58) with nobody working on it.
NoneStranded == \A e \in Evidence : row[e].st \in ACTIVE_STATUSES => InFlight(e)

\* "Statuses where the pipeline is definitively finished" (evidence.py:28):
\* nothing runs, or waits to run, on an evidence with a terminal status.
TerminalIsFinished ==
    \A e \in Evidence : row[e].st \in TERMINAL_STATUSES => ~InFlight(e)

\* The retry endpoint reads the status and commits the new one in two steps,
\* so two retries of one evidence may both find it failed and dispatch it
\* twice.  That is the only way to two runs: that there is one, and what rests
\* on it, holds of the behaviours in which no two retries of the same evidence
\* overlap.
RetriesAlone ==
    \A c, d \in Clients :
        Asks(c, "retrying") /\ Asks(d, "retrying") /\ client[c].ev = client[d].ev => c = d

\* An evidence is processed by one run at a time.
OneRunAtATime ==
    \A e \in Evidence :
        /\ Cardinality({t \in Threads : Ev(t) = e}) + Cardinality({n \in 1..Len(queue) : queue[n] = e}) <= 1

\* The two together: one run of an evidence, from its dispatch to its end, and
\* none after it until a retry.
OneRunUntilOver == OneRunAtATime /\ TerminalIsFinished

\* cancel_evidence: a running stage finishes "and the item then flips to
\* `cancelled`" (evidence.py:216).  A stop is not withdrawn while a run is
\* under way, and only a run that is in the last stage already, where nothing
\* looks at it, still ends as enriched.
StopStands ==
    [][\A e \in Evidence :
          row[e].st \in ACTIVE_STATUSES /\ row[e].cancel =>
              /\ row'[e].st \in ACTIVE_STATUSES => row'[e].cancel
              /\ row'[e].st = "enriched" =>
                     \E t \in Threads : Ev(t) = e /\ thread[t].pc \in {"inferring", "enriching"}]_vars

\* An evidence in progress ends: enriched, failed, cancelled or deleted.
EverythingEnds ==
    \A e \in Evidence : row[e].st \in ACTIVE_STATUSES ~> row[e].st \notin ACTIVE_STATUSES

Lifecycle == INSTANCE EvidenceLifecycle WITH status <- [e \in Evidence |-> row[e].st]

\* The status column is an evidence lifecycle: stages in order, an end that
\* only retry or delete leaves, and an end that is reached.
RefinesLifecycle == Lifecycle!Spec

-----------------------------------------------------------------------------
(* Facts, review items, registry and graph                                 *)

\* The review queue shows exactly the facts that wait for a decision.
ReviewMatchesFact ==
    \A i \in DOMAIN facts : facts[i].item = "open" <=> facts[i].st = "in_review"

\* A decision of a reviewer is not overturned by another request or a stage.
DecisionsStick ==
    [][\A i \in DOMAIN facts \cap DOMAIN facts' :
          facts[i].item \in {"approved", "rejected"} => facts'[i] = facts[i]]_vars

\* Deleting an evidence takes "its facts and review items" (evidence.py:244).
FactsHaveEvidence == \A i \in DOMAIN facts : Exists(i.ev)

\* Deleting an evidence drops registry entries "supported *only* by this
\* evidence" (evidence.py:246): the entity that a fact of a present evidence
\* was resolved to is still registered.
SupportedEntityStays ==
    \A i \in DOMAIN facts : i.kind = "entity" /\ Exists(i.ev) => Live(i.src)

\* What that rests on: the entity lists every present evidence that mentions it.
SupportIsListed ==
    \A i \in DOMAIN facts :
        i.kind = "entity" /\ Exists(i.ev) => i.ev \in reg[i.src].evs

\* A written entity fact of a present evidence has its vertex and its
\* SUPPORTED_BY edge in the graph.
WrittenIsProjected ==
    \A i \in DOMAIN facts :
        i.kind = "entity" /\ facts[i].st = "written" /\ Exists(i.ev)
            => i.src \in graph.ent /\ <<i.src, i.ev>> \in graph.sup

\* "Projects accepted facts into NebulaGraph" (graph_writer.py:13): when an
\* evidence is enriched, one accepted inference at most, the last one gated,
\* is left out of the graph.
AtMostOneLeftOut ==
    \A e \in Evidence :
        row[e].st = "enriched" => Cardinality(FactsIn(e, {"inferred"}, "accepted")) <= 1

\* Nothing is in the graph that was not accepted: an edge of a present
\* evidence that nobody works on is backed by a written fact of that evidence,
\* so what the gate or a reviewer rejected stays out.
EdgesAreJustified ==
    \A r \in graph.rel :
        Exists(r.ev) /\ ~InFlight(r.ev) /\ (\A c \in Clients : Asks(c, "idle"))
            => \E i \in FactsOf(r.ev) :
                   i.src = r.src /\ i.tgt = r.dst /\ facts[i].st = "written"

\* The graph and the facts stand on evidence that is there: an edge on a
\* written fact, a fact on a row.
GraphIsGrounded == EdgesAreJustified /\ FactsHaveEvidence

-----------------------------------------------------------------------------
(* What a delete leaves behind                                             *)

\* The pool has two workers by default (evidence.py:32).  The code does not
\* keep two runs from holding one registry row between match and resolve, and
\* then one list of evidence ids overwrites the other, so that a later delete
\* takes an entity which is still in use: what rests on the lists holds of the
\* behaviours in which that does not happen.
MergesApart ==
    \A t, u \in Threads : t # u =>
        \A m \in thread[t].res, n \in thread[u].res : m.id # n.id

\* Nor does it keep a forced delete from committing beside a run, whose write
\* stage then goes on and fills the graph again.
DeletesFindNoRun == \A c \in Clients : CommitDelete(c) => ~InFlight(client[c].ev)

\* An evidence is deleted, and no run and no request is left.
Forgotten(e) ==
    row[e].st = "deleted" /\ ~InFlight(e) /\ \A c \in Clients : Asks(c, "idle")

\* Deleting an evidence removes "its evidence vertex and orphaned entity
\* vertices in the graph" (evidence.py:247), its SUPPORTED_BY edges with them:
\* no run brings them back, and each vertex that stays is a registered entity's.
DeleteCleansGraph ==
    \A e \in Evidence : Forgotten(e) =>
        /\ e \notin graph.ev
        /\ \A p \in graph.sup : p[2] # e
        /\ \A x \in graph.ent : Live(x)

\* "Delete an evidence item and everything derived from it" (evidence.py:242):
\* a relationship goes with its ends and not with its evidence, so those
\* between two entities that other evidences support stay.  None stays at an
\* entity that the delete took.
EdgesKeepTheirEnds ==
    \A e \in Evidence : Forgotten(e) =>
        \A r \in graph.rel : reg[r.src].st # "gone" /\ reg[r.dst].st # "gone"
=============================================================================
