----------------------------- MODULE EvidenceApi -----------------------------
(***************************************************************************)
(* The request handlers of routers/evidence.py that change the evidence    *)
(* store, and the startup sweep of main.py.  FastAPI runs them in a thread *)
(* pool next to the ingest pool; a client is one request in progress.      *)
(*                                                                         *)
(* A handler is cut between the rows it reads and the commit that relies   *)
(* on them, and around its calls of the graph.  Cancel reads one row and   *)
(* commits it at once.                                                     *)
(***************************************************************************)
EXTENDS EvidencePipeline

CONSTANTS
    MaxRetries,     \* bound: retry requests in a behaviour
    ForceDeletes,   \* may a client pass ?force=true?
    Restarts,       \* may the API process die and start again?
    NoFact          \* not a fact: what a client is not deciding on

ASSUME MaxRetriesAssumption == MaxRetries \in Nat
ASSUME ApiFlagsAssumption == {ForceDeletes, Restarts} \subseteq BOOLEAN
ASSUME NoFactAssumption == NoFact \notin FactId

VARIABLES
    client,     \* [op, ev, id, found, base, evs, ents] of each client
    retries     \* retry requests so far

apiVars == <<client, retries>>
vars == <<storeVars, pipelineVars, apiVars>>

\* "unsent": only where dispatching may fail (CelerySystem).
Ops == {"idle", "ingesting", "retrying", "unsent", "deleting", "scrubbing", "cleaning",
        "approving", "deciding", "rejecting"}

RequestState == [op: Ops, ev: Evidence \cup {NoEvidence}, id: FactId \cup {NoFact},
                 found: BOOLEAN, base: SUBSET Evidence, evs: SUBSET Evidence,
                 ents: SUBSET EntityIds]
NoRequest == [op |-> "idle", ev |-> NoEvidence, id |-> NoFact, found |-> FALSE,
              base |-> {}, evs |-> {}, ents |-> {}]

ApiTypeOK ==
    /\ client \in [Clients -> RequestState]
    /\ retries \in Nat

ApiInit ==
    /\ client = [c \in Clients |-> NoRequest]
    /\ retries = 0

Asks(c, op) == client[c].op = op
Answer(c) == client' = [client EXCEPT ![c] = NoRequest]

\* _dispatch_pipeline, INGEST_MODE=inline: _EXECUTOR.submit.
Dispatch(e) == queue' = Append(queue, e)

-----------------------------------------------------------------------------
(* Ingest                                                                  *)

\* Rows that make the text a duplicate.
Duplicates(k) ==
    {e \in Evidence : /\ Exists(e) /\ ContentOf[e] = k
                      /\ row[e].st \notin {"failed", "cancelled"}}

BeginIngest(c, e) ==
    /\ Asks(c, "idle")
    /\ row[e].st = "none"
    /\ \A d \in Clients : client[d].ev # e
    /\ Duplicates(ContentOf[e]) = {}
    /\ client' = [client EXCEPT ![c].op = "ingesting", ![c].ev = e]
    /\ UNCHANGED <<storeVars, pipelineVars, retries>>

CommitIngest(c) ==
    LET e == client[c].ev
    IN  /\ Asks(c, "ingesting")
        /\ row' = [row EXCEPT ![e].st = "uploaded"]
        /\ Dispatch(e)
        /\ Answer(c)
        /\ UNCHANGED <<gen, facts, reg, graph, thread, retries>>

-----------------------------------------------------------------------------
(* Retry and cancel                                                        *)

\* Mutant of Retryable: nothing is asked of the status.
RetryableAnytime(e) == Exists(e)

Retryable(e) == row[e].st \in {"failed", "cancelled"}

\* "found" keeps the cancel_requested that was loaded.
BeginRetry(c, e) ==
    /\ Asks(c, "idle")
    /\ Retryable(e)
    /\ retries < MaxRetries
    /\ retries' = retries + 1
    /\ client' = [client EXCEPT ![c].op = "retrying", ![c].ev = e,
                                ![c].found = row[e].cancel]
    /\ UNCHANGED <<storeVars, pipelineVars>>

\* A flag that was loaded as FALSE is no change when it is set to FALSE.
CommitRetry(c) ==
    LET e == client[c].ev
    IN  /\ Asks(c, "retrying")
        /\ IF Exists(e)
           THEN /\ row' = [row EXCEPT ![e] = [st |-> "uploaded",
                                              cancel |-> @.cancel /\ ~client[c].found]]
                /\ Dispatch(e)
           ELSE UNCHANGED <<row, queue>>
        /\ Answer(c)
        /\ UNCHANGED <<gen, facts, reg, graph, thread, retries>>

Cancel(c, e) ==
    /\ Asks(c, "idle")
    /\ row[e].st \in ACTIVE_STATUSES
    /\ ~row[e].cancel
    /\ row' = [row EXCEPT ![e].cancel = TRUE]
    /\ UNCHANGED <<gen, facts, reg, graph, pipelineVars, apiVars>>

-----------------------------------------------------------------------------
(* Delete                                                                  *)

\* An active row is refused unless forced; then the cancel flag is committed.
BeginDelete(c, e) ==
    /\ Asks(c, "idle")
    /\ Exists(e)
    /\ \/ row[e].st \in TERMINAL_STATUSES /\ row' = row
       \/ ForceDeletes /\ row[e].st \in ACTIVE_STATUSES
                       /\ row' = [row EXCEPT ![e].cancel = TRUE]
    /\ client' = [client EXCEPT ![c].op = "deleting", ![c].ev = e]
    /\ UNCHANGED <<gen, facts, reg, graph, pipelineVars, retries>>

\* The registry entities that the facts of e name are collected.
Touched(e) == UNION {{i.src, i.tgt} : i \in FactsOf(e)}

CollectTouched(c) ==
    /\ Asks(c, "deleting")
    /\ client' = [client EXCEPT ![c].op = "scrubbing", ![c].ents = Touched(client[c].ev)]
    /\ UNCHANGED <<storeVars, pipelineVars, retries>>

\* The bulk DELETEs take the write lock: the registry rows are read under it.
Orphaned(e, touched) == {x \in touched : Live(x) /\ reg[x].evs \subseteq {e}}

Scrubbed(e, touched) ==
    [x \in EntityIds |->
        IF x \in Orphaned(e, touched) THEN [st |-> "gone", evs |-> {}]
        ELSE IF x \in touched THEN [reg[x] EXCEPT !.evs = @ \ {e}]
        ELSE reg[x]]

CommitDelete(c) ==
    LET e == client[c].ev
        touched == client[c].ents
    IN  /\ Asks(c, "scrubbing")
        /\ facts' = WithoutFactsOf(e)
        /\ reg' = Scrubbed(e, touched)
        /\ row' = [row EXCEPT ![e] = [st |-> "deleted", cancel |-> FALSE]]
        /\ client' = [client EXCEPT ![c].op = "cleaning",
                                    ![c].ents = Orphaned(e, touched)]
        /\ UNCHANGED <<gen, graph, pipelineVars, retries>>

\* Best effort: with a graph fault the vertices, or the last of them, stay.
CleanGraph(c) ==
    /\ Asks(c, "cleaning")
    /\ \E X \in IF GraphFaults THEN SUBSET client[c].ents ELSE {client[c].ents} :
           \/ graph' = DropEntities(DropEvidence(graph, client[c].ev), X)
           \/ GraphFaults /\ graph' = graph
    /\ Answer(c)
    /\ UNCHANGED <<row, gen, facts, reg, pipelineVars, retries>>

-----------------------------------------------------------------------------
(* Review                                                                  *)

\* Mutant of Open: the item's state is not looked at.
Undeleted(i) == i \in DOMAIN facts /\ facts[i].item # "none"

Open(i) == i \in DOMAIN facts /\ facts[i].item = "open"

\* The registry rows a decision needs: the entity's, or both of a merge.
RowsFound(i) == i.kind \in {"entity", "merge"} => Live(i.src) /\ Live(i.tgt)

BeginApprove(c, i) ==
    /\ Asks(c, "idle")
    /\ Open(i)
    /\ client' = [client EXCEPT ![c] =
           [op |-> "approving", ev |-> NoEvidence, id |-> i, found |-> RowsFound(i),
            base |-> reg[i.tgt].evs, evs |-> reg[i.src].evs \cup reg[i.tgt].evs,
            ents |-> {}]]
    /\ UNCHANGED <<storeVars, pipelineVars, retries>>

\* The graph is written first: the vertex, the same_as edge or the edge.
Approved(g, i, found) ==
    CASE i.kind = "entity" -> IF found THEN UpsertEntities(g, {i.src}, i.ev) ELSE g
      [] i.kind = "merge"  -> IF found THEN UpsertEdges(g, {i}, "accepted") ELSE g
      [] OTHER             -> UpsertEdges(g, {i}, "accepted")

ApproveInGraph(c) ==
    /\ Asks(c, "approving")
    /\ \/ /\ graph' = Approved(graph, client[c].id, client[c].found)
          /\ client' = [client EXCEPT ![c].op = "deciding"]
       \/ GraphFaults /\ graph' = graph /\ Answer(c)
    /\ UNCHANGED <<row, gen, facts, reg, pipelineVars, retries>>

\* Mutant of Decide: the review item stays open.
DecideFactOnly(i, st, item) == facts' = [facts EXCEPT ![i].st = st]

Decide(i, st, item) == facts' = [facts EXCEPT ![i] = [st |-> st, item |-> item]]

\* evidence_ids of the candidate as read before the graph call, with the new
\* entity's: the write of a list that was read some time ago.
Merged(c) ==
    LET i == client[c].id
    IN  IF i.kind = "merge" /\ client[c].found /\ client[c].evs # client[c].base
        THEN [reg EXCEPT ![i.tgt].evs = client[c].evs]
        ELSE reg

\* StaleDataError when the fact or the candidate was deleted meanwhile.
CommitApprove(c) ==
    LET i == client[c].id
    IN  /\ Asks(c, "deciding")
        /\ IF i \in DOMAIN facts /\ (i.kind = "merge" /\ client[c].found => Live(i.tgt))
           THEN Decide(i, "written", "approved") /\ reg' = Merged(c)
           ELSE UNCHANGED <<facts, reg>>
        /\ Answer(c)
        /\ UNCHANGED <<row, gen, graph, pipelineVars, retries>>

BeginReject(c, i) ==
    /\ Asks(c, "idle")
    /\ Open(i)
    /\ client' = [client EXCEPT ![c].op = "rejecting", ![c].id = i]
    /\ UNCHANGED <<storeVars, pipelineVars, retries>>

CommitReject(c) ==
    LET i == client[c].id
    IN  /\ Asks(c, "rejecting")
        /\ IF i \in DOMAIN facts THEN Decide(i, "rejected", "rejected") ELSE UNCHANGED facts
        /\ Answer(c)
        /\ UNCHANGED <<row, gen, reg, graph, pipelineVars, retries>>

-----------------------------------------------------------------------------
(* The process                                                             *)

\* Mutants of Swept: rows are put back to a status nobody picks up; rows that
\* only missed the last stage are left.
SweptToQueued(e) == IF row[e].st \in ACTIVE_STATUSES THEN [row[e] EXCEPT !.st = "queued"] ELSE row[e]
SweptUntilWritten(e) ==
    IF row[e].st \in ACTIVE_STATUSES \ {"written"} THEN [row[e] EXCEPT !.st = "failed"] ELSE row[e]

\* The process dies with its threads, its queue and its requests; the next
\* one sweeps the rows that were active to failed before it serves.
Swept(e) == IF row[e].st \in ACTIVE_STATUSES THEN [row[e] EXCEPT !.st = "failed"] ELSE row[e]

Restart ==
    /\ Restarts
    /\ row' = [e \in Evidence |-> Swept(e)]
    /\ thread' = [t \in Threads |-> Idle]
    /\ queue' = <<>>
    /\ client' = [c \in Clients |-> NoRequest]
    /\ UNCHANGED <<gen, facts, reg, graph, retries>>

\* What a user asks for, and what a handler then does on its own.
Request(c) ==
    \/ \E e \in Evidence : \/ BeginIngest(c, e) \/ BeginRetry(c, e)
                           \/ Cancel(c, e) \/ BeginDelete(c, e)
    \/ \E i \in DOMAIN facts : BeginApprove(c, i) \/ BeginReject(c, i)

HandlerStep(c) ==
    \/ CommitIngest(c) \/ CommitRetry(c)
    \/ CollectTouched(c) \/ CommitDelete(c) \/ CleanGraph(c)
    \/ ApproveInGraph(c) \/ CommitApprove(c) \/ CommitReject(c)
=============================================================================
