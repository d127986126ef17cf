---- MODULE GraphCatalog ----
(*********************************************************************)
(* The catalog of graphs of the API process and what hangs on a      *)
(* graph: its NebulaGraph space, its cached client, its search       *)
(* corpus and the background jobs that fill it.                      *)
(*                                                                   *)
(* graphs.json lists the graphs (GraphRegistry: a dict in memory,    *)
(* saved whole after every change).  A request or a background       *)
(* thread is a list of steps it still has to do; another thread may  *)
(* run between any two of them.  A load stands for the vertices one  *)
(* import, one ingested evidence or one approval writes.             *)
(*********************************************************************)
EXTENDS Naturals, FiniteSets, Sequences, SequencesExt, Functions

CONSTANTS Threads,      \* request and job threads
          UserGraphs,   \* the uuid names create() may draw, never drawn twice
          Intel,        \* the always-on intelligence graph (NEBULA_SPACE)
          Loads,        \* what imports, evidences and approvals write
          GraphFaults,  \* a call to NebulaGraph may fail
          MaxRestarts   \* bound on restarts of the API process

ASSUME CatalogAssumption ==
  /\ Intel \notin UserGraphs
  /\ IsFiniteSet(Loads)
  /\ GraphFaults \in BOOLEAN
  /\ MaxRestarts \in Nat

NoCorpus == {}
Graphs == UserGraphs \cup {Intel}
Steps == {"space", "drop", "close", "forget", "unregister", "build", "store",
          "run", "count", "refresh", "schema", "ddl", "write", "register", "erase"}

VARIABLES
  memory,    \* GraphRegistry._graphs: graph -> its vertex count
  disk,      \* graphs.json
  space,     \* NebulaGraph: no space, a space without the ingest schema, a ready one
  rows,      \* the loads whose vertices a space holds
  corpus,    \* SearchIndex._entries: {} or {what the entries were built from}
  ensured,   \* the intelligence space is in _ensured
  thread,    \* what each thread is doing
  job,       \* the status of a load's import job (ImportJobRunner._jobs)
  restarts,
  \* history, read by the properties only
  used,      \* graphs and loads that were ever started
  left,      \* graphs whose corpus the code leaves behind: see IndexFresh
  cut,       \* graphs whose creation or deletion was cut short
  crossed    \* graphs a deletion of which began while their creation ran

vars == <<memory, disk, space, rows, corpus, ensured, thread, job, restarts,
          used, left, cut, crossed>>

Idle == [todo |-> <<>>, g |-> Intel, load |-> {}, client |-> "cached",
         seen |-> {}, late |-> FALSE]

Doing(t, step) == thread[t].todo # <<>> /\ Head(thread[t].todo) = step
Has(t, g, steps) == thread[t].g = g /\ Range(thread[t].todo) \cap steps # {}
Busy(g, steps) == \E t \in Threads : Has(t, g, steps)

Begin(t, todo, g, load, client) ==
  /\ thread[t] = Idle
  /\ thread' = [thread EXCEPT
        ![t] = [Idle EXCEPT !.todo = todo, !.g = g, !.load = load, !.client = client]]

After(t) == LET rest == Tail(thread[t].todo)
            IN  IF rest = <<>> THEN Idle ELSE [thread[t] EXCEPT !.todo = rest]
Proceed(t) == thread' = [thread EXCEPT ![t] = After(t)]
Abort(t) == thread' = [thread EXCEPT ![t] = Idle]

\* A statement that runs in the thread's space: session_scope() takes a
\* session from the client's pool and executes USE first.
Reaches(t) == thread[t].client # "closed" /\ space[thread[t].g] # "none"

Saved(graphs) == memory' = graphs /\ disk' = graphs

(*************** creating and deleting a graph ***************)
\* create() files the graph and saves; create_space() comes after.
Create(t, g) ==
  /\ g \notin used
  /\ Begin(t, <<"space">>, g, {}, "cached")
  /\ Saved([h \in DOMAIN memory \cup {g} |-> IF h = g THEN 0 ELSE memory[h]])
  /\ used' = used \cup {g}
  /\ UNCHANGED <<space, rows, corpus, ensured, job, restarts, left, cut, crossed>>

MakeSpace(t) ==
  /\ Doing(t, "space")
  /\ \/ space' = [space EXCEPT ![thread[t].g] = "ready"] /\ UNCHANGED cut
     \/ GraphFaults /\ cut' = cut \cup {thread[t].g} /\ UNCHANGED space
  /\ Proceed(t)
  /\ UNCHANGED <<memory, disk, rows, corpus, ensured, job, restarts, used, left, crossed>>

\* A mutated delete_graph() that unregisters first.
DeleteTodoEarly == <<"unregister", "drop", "close", "forget">>
DeleteTodo == <<"drop", "close", "forget", "unregister">>

Delete(t, g) ==
  /\ g \in DOMAIN memory
  /\ Begin(t, DeleteTodo, g, {}, "cached")
  /\ crossed' = IF Busy(g, {"space"}) THEN crossed \cup {g} ELSE crossed
  /\ UNCHANGED <<memory, disk, space, rows, corpus, ensured, job, restarts, used, left, cut>>

\* DROP SPACE IF EXISTS; when it fails the request ends here.
Drop(t) ==
  /\ Doing(t, "drop")
  /\ LET g == thread[t].g
     IN  \/ /\ space' = [space EXCEPT ![g] = "none"]
            /\ rows' = [rows EXCEPT ![g] = {}]
            /\ left' = left \cup {g}
            /\ Proceed(t)
         \/ GraphFaults /\ Abort(t) /\ UNCHANGED <<space, rows, left>>
  /\ UNCHANGED <<memory, disk, corpus, ensured, job, restarts, used, cut, crossed>>

\* clients.drop(): every thread that was given the cached client holds a
\* closed pool from now on.  The pipeline opens a client of its own.
Close(t) ==
  /\ Doing(t, "close")
  /\ thread' = [u \in Threads |->
        CASE u = t -> After(t)
          [] u # t /\ thread[u].g = thread[t].g /\ thread[u].client = "cached"
             /\ thread[u].todo # <<>> -> [thread[u] EXCEPT !.client = "closed"]
          [] OTHER -> thread[u]]
  /\ UNCHANGED <<memory, disk, space, rows, corpus, ensured, job, restarts, used, left, cut,
                 crossed>>

\* ensure_ingest_schema() holds its module's lock from the check to the end.
Ensuring == \E t \in Threads : Doing(t, "ddl")

Forget(t) ==
  /\ Doing(t, "forget") /\ ~Ensuring
  /\ ensured' = (ensured /\ thread[t].g # Intel)
  /\ Proceed(t)
  /\ UNCHANGED <<memory, disk, space, rows, corpus, job, restarts, used, left, cut, crossed>>

Without(g) == Saved([h \in DOMAIN memory \ {g} |-> memory[h]])

Unregister(t) ==
  /\ Doing(t, "unregister")
  /\ Without(thread[t].g)
  /\ Proceed(t)
  /\ UNCHANGED <<space, rows, corpus, ensured, job, restarts, used, left, cut, crossed>>

(*************** searching ***************)
\* A hit changes nothing; a miss builds the corpus outside the lock and
\* stores it under the lock.
Search(t, g) ==
  /\ g \in DOMAIN memory /\ space[g] # "none" /\ corpus[g] = NoCorpus
  /\ Begin(t, <<"build", "store">>, g, {}, "cached")
  /\ UNCHANGED <<memory, disk, space, rows, corpus, ensured, job, restarts, used, left, cut,
                 crossed>>

Build(t) ==
  /\ Doing(t, "build")
  /\ IF Reaches(t)
       THEN thread' = [thread EXCEPT ![t] = [After(t) EXCEPT !.seen = rows[thread[t].g]]]
       ELSE Abort(t)
  /\ UNCHANGED <<memory, disk, space, rows, corpus, ensured, job, restarts, used, left, cut,
                 crossed>>

Store(t) ==
  /\ Doing(t, "store")
  /\ LET g == thread[t].g
     IN  /\ corpus' = [corpus EXCEPT ![g] = {thread[t].seen}]
         /\ left' = IF thread[t].late THEN left \cup {g} ELSE left
  /\ Proceed(t)
  /\ UNCHANGED <<memory, disk, space, rows, ensured, job, restarts, used, cut, crossed>>

(*************** the jobs that write ***************)
StartImport(t, g, l) ==
  /\ g \in DOMAIN memory /\ l \notin used
  /\ Begin(t, <<"run", "count", "refresh">>, g, {l}, "cached")
  /\ job' = [job EXCEPT ![l] = "running"]
  /\ used' = used \cup {l}
  /\ UNCHANGED <<memory, disk, space, rows, corpus, ensured, restarts, left, cut, crossed>>

\* What a thread writes, all of it, or some of it before a statement fails.
Wrote(t) == rows' = [rows EXCEPT ![thread[t].g] = @ \cup thread[t].load]

\* run_import(): the job is done, or failed with what it had written.
RunImport(t) ==
  /\ Doing(t, "run")
  /\ \/ /\ Reaches(t) /\ Wrote(t) /\ Proceed(t)
        /\ job' = [l \in Loads |-> IF {l} = thread[t].load THEN "done" ELSE job[l]]
        /\ UNCHANGED left
     \/ /\ ~Reaches(t) \/ GraphFaults
        /\ \/ UNCHANGED <<rows, left>>
           \/ Reaches(t) /\ Wrote(t) /\ left' = left \cup {thread[t].g}
        /\ job' = [l \in Loads |-> IF {l} = thread[t].load THEN "failed" ELSE job[l]]
        /\ Abort(t)
  /\ UNCHANGED <<memory, disk, space, corpus, ensured, restarts, used, cut, crossed>>

\* A mutated add_stats() that creates the graph it does not find.
CountedAnyway(g) == [h \in DOMAIN memory \cup {g} |->
                       IF h \notin DOMAIN memory THEN 1
                       ELSE IF h = g THEN memory[h] + 1 ELSE memory[h]]

Counted(g) == IF g \in DOMAIN memory THEN [memory EXCEPT ![g] = @ + 1] ELSE memory
\* add_stats() does nothing for a graph that is gone.
Count(t) ==
  /\ Doing(t, "count")
  /\ LET after == Counted(thread[t].g)
     IN  IF after = memory THEN UNCHANGED <<memory, disk>> ELSE Saved(after)
  /\ Proceed(t)
  /\ UNCHANGED <<space, rows, corpus, ensured, job, restarts, used, left, cut, crossed>>

\* A mutated pipeline whose _after_write leaves the search corpus alone.
RefreshImportsOnly(t) ==
  /\ Doing(t, "refresh")
  /\ LET g == thread[t].g
     IN  corpus' = IF g = Intel THEN corpus ELSE [corpus EXCEPT ![g] = NoCorpus]
  /\ Proceed(t)
  /\ UNCHANGED <<memory, disk, space, rows, ensured, job, restarts, used, left, cut, crossed>>

\* search_index.invalidate(); a search of that graph that has its entries
\* and has not stored them is now late.
Refresh(t) ==
  /\ Doing(t, "refresh")
  /\ LET g == thread[t].g
     IN  /\ corpus' = [corpus EXCEPT ![g] = NoCorpus]
         /\ left' = left \ {g}
         /\ thread' = [u \in Threads |->
              CASE u = t -> After(t)
                [] u # t /\ Doing(u, "store") /\ thread[u].g = g ->
                     [thread[u] EXCEPT !.late = TRUE]
                [] OTHER -> thread[u]]
  /\ UNCHANGED <<memory, disk, space, rows, ensured, job, restarts, used, cut, crossed>>

(*************** the intelligence graph ***************)
\* step_write() of an evidence, then _after_write().
Ingest(t, l) ==
  /\ l \notin used
  /\ Begin(t, <<"schema", "ddl", "write", "refresh", "register", "count">>, Intel, {l}, "own")
  /\ used' = used \cup {l}
  /\ UNCHANGED <<memory, disk, space, rows, corpus, ensured, job, restarts, left, cut, crossed>>

\* approve_review() of an entity; it neither ensures the schema nor counts.
Approve(t, l) ==
  /\ l \notin used
  /\ Begin(t, <<"write", "refresh">>, Intel, {l}, "cached")
  /\ used' = used \cup {l}
  /\ UNCHANGED <<memory, disk, space, rows, corpus, ensured, job, restarts, left, cut, crossed>>

\* The graph cleanup of delete_evidence().
Cleanup(t, l) ==
  /\ l \in rows[Intel]
  /\ Begin(t, <<"erase", "refresh">>, Intel, {l}, "cached")
  /\ UNCHANGED <<memory, disk, space, rows, corpus, ensured, job, restarts, used, left, cut,
                 crossed>>

\* A mutated rebuild that keeps the space in _ensured.
StillEnsured == ensured
Forgotten == FALSE

\* ensure_ingest_schema(): the fast path, or the space is made again and
\* then given its tags and edges (EnsureSchema).
CheckSchema(t) ==
  /\ Doing(t, "schema") /\ ~Ensuring
  /\ \/ /\ ensured /\ space[Intel] # "none"
        /\ thread' = [thread EXCEPT ![t].todo = Tail(Tail(@))]
        /\ UNCHANGED <<ensured, space>>
     \/ /\ ensured => (space[Intel] = "none" \/ GraphFaults)
        /\ ensured' = Forgotten
        /\ \/ /\ space' = [space EXCEPT ![Intel] = IF @ = "none" THEN "bare" ELSE @]
              /\ Proceed(t)
           \/ GraphFaults /\ Abort(t) /\ UNCHANGED space
  /\ UNCHANGED <<memory, disk, rows, corpus, job, restarts, used, left, cut, crossed>>

EnsureSchema(t) ==
  /\ Doing(t, "ddl")
  /\ \/ /\ space[Intel] # "none"
        /\ space' = [space EXCEPT ![Intel] = "ready"]
        /\ ensured' = TRUE
        /\ Proceed(t)
     \/ /\ space[Intel] = "none" \/ GraphFaults
        /\ Abort(t) /\ UNCHANGED <<space, ensured>>
  /\ UNCHANGED <<memory, disk, rows, corpus, job, restarts, used, left, cut, crossed>>

\* The upserts of step_write() or of an approval.
Write(t) ==
  /\ Doing(t, "write")
  /\ LET able == Reaches(t) /\ space[Intel] = "ready"
     IN  \/ able /\ Wrote(t) /\ Proceed(t) /\ UNCHANGED left
         \/ /\ ~able \/ GraphFaults
            /\ \/ UNCHANGED <<rows, left>>
               \/ able /\ Wrote(t) /\ left' = left \cup {thread[t].g}
            /\ Abort(t)
  /\ UNCHANGED <<memory, disk, space, corpus, ensured, job, restarts, used, cut, crossed>>

Erase(t) ==
  /\ Doing(t, "erase")
  /\ LET gone == rows' = [rows EXCEPT ![thread[t].g] = @ \ thread[t].load]
     IN  \/ Reaches(t) /\ gone /\ Proceed(t) /\ UNCHANGED left
         \/ /\ ~Reaches(t) \/ GraphFaults
            /\ \/ UNCHANGED <<rows, left>>
               \/ Reaches(t) /\ gone /\ left' = left \cup {thread[t].g}
            /\ Abort(t)
  /\ UNCHANGED <<memory, disk, space, corpus, ensured, job, restarts, used, cut, crossed>>

WithIntel(graphs) == [h \in DOMAIN graphs \cup {Intel} |->
                        IF h \in DOMAIN graphs THEN graphs[h] ELSE 0]

Register(t) ==
  /\ Doing(t, "register")
  /\ IF Intel \in DOMAIN memory THEN UNCHANGED <<memory, disk>> ELSE Saved(WithIntel(memory))
  /\ Proceed(t)
  /\ UNCHANGED <<space, rows, corpus, ensured, job, restarts, used, left, cut, crossed>>

(*************** the process ***************)
\* Everything in memory is lost; lifespan() reads graphs.json and prepares
\* the intelligence space, or logs that it could not.
Restart ==
  /\ restarts < MaxRestarts
  /\ restarts' = restarts + 1
  /\ thread' = [t \in Threads |-> Idle]
  /\ corpus' = [g \in Graphs |-> NoCorpus]
  /\ job' = [l \in Loads |-> "none"]
  /\ left' = {}
  /\ cut' = cut \cup {g \in Graphs : Busy(g, {"space"}) \/
                        \E t \in Threads : Has(t, g, {"unregister"}) /\ ~Doing(t, "drop")}
  /\ \/ /\ space' = [space EXCEPT ![Intel] = "ready"]
        /\ ensured' = TRUE
        /\ Saved(WithIntel(disk))
     \/ /\ GraphFaults
        /\ space' \in {space, [space EXCEPT ![Intel] = IF @ = "none" THEN "bare" ELSE @]}
        /\ ensured' = FALSE
        /\ memory' = disk /\ UNCHANGED disk
  /\ UNCHANGED <<rows, used, crossed>>

\* A first start against an empty NebulaGraph that worked.
Init ==
  /\ memory = [g \in {Intel} |-> 0] /\ disk = memory
  /\ space = [g \in Graphs |-> IF g = Intel THEN "ready" ELSE "none"]
  /\ rows = [g \in Graphs |-> {}]
  /\ corpus = [g \in Graphs |-> NoCorpus]
  /\ ensured = TRUE
  /\ thread = [t \in Threads |-> Idle]
  /\ job = [l \in Loads |-> "none"]
  /\ restarts = 0
  /\ used = {} /\ left = {} /\ cut = {} /\ crossed = {}

Request(t) ==
  \/ \E g \in UserGraphs : Create(t, g)
  \/ \E g \in Graphs : Delete(t, g) \/ Search(t, g)
  \/ \E g \in Graphs, l \in Loads : StartImport(t, g, l)
  \/ \E l \in Loads : Ingest(t, l) \/ Approve(t, l) \/ Cleanup(t, l)

Step(t) ==
  \/ MakeSpace(t) \/ Drop(t) \/ Close(t) \/ Forget(t) \/ Unregister(t)
  \/ Build(t) \/ Store(t)
  \/ RunImport(t) \/ Count(t) \/ Refresh(t)
  \/ CheckSchema(t) \/ EnsureSchema(t) \/ Write(t) \/ Erase(t) \/ Register(t)

Next == Restart \/ \E t \in Threads : Request(t) \/ Step(t)

Spec == Init /\ [][Next]_vars
----
(*************** properties ***************)
\* Types.  A count never passes the number of loads: a load is counted once,
\* by the job or the pipeline run that wrote it (graph_registry.py, add_stats).
TypeOK ==
  /\ DOMAIN memory \subseteq Graphs /\ DOMAIN disk \subseteq Graphs
  /\ \A g \in DOMAIN memory : memory[g] \in 0 .. Cardinality(Loads)
  /\ \A g \in DOMAIN disk : disk[g] \in 0 .. Cardinality(Loads)
  /\ space \in [Graphs -> {"none", "bare", "ready"}]
  /\ rows \in [Graphs -> SUBSET Loads]
  /\ corpus \in [Graphs -> {NoCorpus} \cup {{built} : built \in SUBSET Loads}]
  /\ ensured \in BOOLEAN
  /\ \A t \in Threads : /\ Range(thread[t].todo) \subseteq Steps
                        /\ thread[t].g \in Graphs
                        /\ thread[t].load \subseteq Loads
                        /\ thread[t].client \in {"cached", "own", "closed"}
                        /\ thread[t].seen \subseteq Loads
                        /\ thread[t].late \in BOOLEAN
  /\ job \in [Loads -> {"none", "running", "done", "failed"}]
  /\ restarts \in 0 .. MaxRestarts

\* A stored corpus that misses (or still has) a vertex is about to be
\* invalidated by the thread that changed the graph.  The exceptions are
\* three: entries built before an invalidation and stored after it, a
\* writer that failed half way, and a dropped space (search/index.py).
IndexFresh ==
  \A g \in Graphs :
    corpus[g] \notin {NoCorpus, {rows[g]}} =>
      \/ g \in left
      \/ \E t \in Threads : Has(t, g, {"refresh"}) /\ ~Has(t, g, {"run", "write", "erase"})

\* A graph that was deleted never comes back by an import that finishes
\* late, a save of another graph or a restart: add_stats() skips a graph
\* that is gone and graphs.json is written without it.
DeletedStaysDeleted ==
  [][\A g \in UserGraphs \cap used :
       g \notin DOMAIN disk => g \notin DOMAIN disk' /\ g \notin DOMAIN memory']_vars

\* A graph in graphs.json has its space, unless its creation or deletion
\* is under way or was cut short (routers/graphs.py).
RegisteredHasSpace ==
  \A g \in UserGraphs \cap DOMAIN disk :
    space[g] = "none" => g \in cut \/ Busy(g, {"space", "unregister"})

\* A space is in graphs.json, so that somebody can delete it; only a
\* deletion that overlaps the creation leaves an orphan (routers/graphs.py).
SpaceIsRegistered ==
  \A g \in UserGraphs : space[g] # "none" => g \in DOMAIN disk \cup crossed

\* The fast path of ensure_ingest_schema() never skips a space that exists
\* without the ingest tags, whatever drops, failures and rebuilds came before.
EnsuredHasSchema == ensured => space[Intel] # "bare"

\* The count shown for a user's graph is the number of its done imports,
\* each from the moment its thread has counted it: a failed import that
\* wrote something is not in it, and none is counted twice.  A restart
\* forgets the jobs and may lose a count, but never adds one
\* (ingest/jobs.py, routers/imports.py on_complete).
CountedWereWritten ==
  \A g \in UserGraphs \cap DOMAIN memory :
    space[g] # "none" =>
      /\ memory[g] <= Cardinality(rows[g])
      /\ restarts = 0 =>
           memory[g] = Cardinality({l \in rows[g] :
             /\ job[l] = "done"
             /\ ~\E t \in Threads : Has(t, g, {"count"}) /\ thread[t].load = {l}})

\* The catalogue tells the truth: what it lists is there, what is there is
\* listed, and the counts are those of the imports that are done.
RegistryIsTrue == TypeOK /\ RegisteredHasSpace /\ SpaceIsRegistered /\ CountedWereWritten
====
