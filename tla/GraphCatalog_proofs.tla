-------------------------- MODULE GraphCatalog_proofs --------------------------
(***************************************************************************)
(* Four promises of the graph catalogue for any number of threads, graphs, *)
(* loads and restarts: a deleted graph stays deleted, the fast path of     *)
(* ensure_ingest_schema() never skips a space without its schema, a search *)
(* corpus is fresh but for the cases IndexFresh names, and the catalogue   *)
(* tells the truth about spaces and counts.                                *)
(***************************************************************************)
EXTENDS GraphCatalog, FiniteSetTheorems, TLAPS

-----------------------------------------------------------------------------
(* The schema of the intelligence space                                    *)

SchemaInv == DOMAIN space = Graphs /\ EnsuredHasSchema

LEMMA InitSchema == Init => SchemaInv
  BY DEF Init, SchemaInv, EnsuredHasSchema, Graphs

LEMMA RequestSchema ==
    ASSUME SchemaInv, NEW t \in Threads, Request(t)
    PROVE  SchemaInv'
<1>1. UNCHANGED <<space, ensured>>
  BY DEF Request, Create, Delete, Search, StartImport, Ingest, Approve, Cleanup
<1>. QED  BY <1>1 DEF SchemaInv, EnsuredHasSchema

\* Only the rebuild makes a space without the schema, and it forgets first.
LEMMA StepSchema ==
    ASSUME SchemaInv, NEW t \in Threads, Step(t)
    PROVE  SchemaInv'
<1>. Intel \in Graphs
  BY DEF Graphs
<1>1. CASE MakeSpace(t)
  BY <1>1 DEF MakeSpace, SchemaInv, EnsuredHasSchema
<1>2. CASE Drop(t)
  BY <1>2 DEF Drop, SchemaInv, EnsuredHasSchema
<1>3. CASE Forget(t)
  BY <1>3 DEF Forget, SchemaInv, EnsuredHasSchema
<1>4. CASE CheckSchema(t)
  BY <1>4 DEF CheckSchema, Forgotten, SchemaInv, EnsuredHasSchema
<1>5. CASE EnsureSchema(t)
  BY <1>5 DEF EnsureSchema, SchemaInv, EnsuredHasSchema
<1>6. CASE \/ Close(t) \/ Unregister(t) \/ Build(t) \/ Store(t) \/ RunImport(t) \/ Count(t)
           \/ Refresh(t) \/ Write(t) \/ Erase(t) \/ Register(t)
  <2>1. UNCHANGED <<space, ensured>>
    BY <1>6 DEF Close, Unregister, Build, Store, RunImport, Count, Refresh, Write, Erase, Register
  <2>. QED  BY <2>1 DEF SchemaInv, EnsuredHasSchema
<1>. QED  BY <1>1, <1>2, <1>3, <1>4, <1>5, <1>6 DEF Step

LEMMA RestartSchema ==
    ASSUME SchemaInv, Restart
    PROVE  SchemaInv'
<1>. Intel \in Graphs
  BY DEF Graphs
<1>. QED  BY DEF Restart, SchemaInv, EnsuredHasSchema

\* Whatever drops, failures, rebuilds and restarts come before, a space that
\* counts as ensured is not one without the ingest schema (ingest_schema.py).
THEOREM FastPathIsSafe == Spec => []EnsuredHasSchema
<1>1. SchemaInv /\ [Next]_vars => SchemaInv'
  <2>1. SchemaInv /\ UNCHANGED vars => SchemaInv'
    BY DEF vars, SchemaInv, EnsuredHasSchema
  <2>. QED  BY <2>1, RequestSchema, StepSchema, RestartSchema DEF Next
<1>2. SchemaInv => EnsuredHasSchema
  BY DEF SchemaInv
<1>. QED  BY <1>1, <1>2, InitSchema, PTL DEF Spec

-----------------------------------------------------------------------------
(* Deleted graphs                                                          *)

\* The dict in memory is what was saved last.
MemoryIsSaved == memory = disk

\* What a step may do to the catalogue: nothing new but a fresh name or Intel.
Adds == DOMAIN disk' \subseteq DOMAIN disk \cup (UserGraphs \ used) \cup {Intel}

LEMMA RequestAdds ==
    ASSUME MemoryIsSaved, NEW t \in Threads, Request(t)
    PROVE  MemoryIsSaved' /\ Adds
<1>1. CASE \E g \in UserGraphs : Create(t, g)
  BY <1>1 DEF Create, Saved, MemoryIsSaved, Adds
<1>2. CASE \/ \E g \in Graphs : Delete(t, g) \/ Search(t, g)
           \/ \E g \in Graphs, l \in Loads : StartImport(t, g, l)
           \/ \E l \in Loads : Ingest(t, l) \/ Approve(t, l) \/ Cleanup(t, l)
  BY <1>2 DEF Delete, Search, StartImport, Ingest, Approve, Cleanup, MemoryIsSaved, Adds
<1>. QED  BY <1>1, <1>2 DEF Request

\* An import that ends late counts for no graph that is gone.
LEMMA StepAdds ==
    ASSUME MemoryIsSaved, NEW t \in Threads, Step(t)
    PROVE  MemoryIsSaved' /\ Adds
<1>1. CASE Unregister(t)
  BY <1>1 DEF Unregister, Without, Saved, MemoryIsSaved, Adds
<1>2. CASE Count(t)
  BY <1>2 DEF Count, Counted, Saved, MemoryIsSaved, Adds
<1>3. CASE Register(t)
  BY <1>3 DEF Register, WithIntel, Saved, MemoryIsSaved, Adds
<1>4. CASE \/ MakeSpace(t) \/ Drop(t) \/ Close(t) \/ Forget(t) \/ Build(t) \/ Store(t) \/ RunImport(t)
           \/ Refresh(t) \/ CheckSchema(t) \/ EnsureSchema(t) \/ Write(t) \/ Erase(t)
  <2>1. UNCHANGED <<memory, disk>>
    BY <1>4 DEF MakeSpace, Drop, Close, Forget, Build, Store, RunImport, Refresh, CheckSchema,
                EnsureSchema, Write, Erase
  <2>. QED  BY <2>1 DEF MemoryIsSaved, Adds
<1>. QED  BY <1>1, <1>2, <1>3, <1>4 DEF Step

LEMMA NextAdds == MemoryIsSaved /\ [Next]_vars => MemoryIsSaved' /\ Adds
<1>1. MemoryIsSaved /\ Restart => MemoryIsSaved' /\ Adds
  BY DEF Restart, WithIntel, Saved, MemoryIsSaved, Adds
<1>2. MemoryIsSaved /\ UNCHANGED vars => MemoryIsSaved' /\ Adds
  BY DEF vars, MemoryIsSaved, Adds
<1>. QED  BY <1>1, <1>2, RequestAdds, StepAdds DEF Next

\* No import that finishes late, no save of another graph and no restart
\* brings a deleted graph back (graph_registry.py).
THEOREM NothingComesBack == Spec => DeletedStaysDeleted
<1>1. Init => MemoryIsSaved
  BY DEF Init, MemoryIsSaved
<1>2. MemoryIsSaved /\ [Next]_vars =>
          [\A g \in UserGraphs \cap used :
              g \notin DOMAIN disk => g \notin DOMAIN disk' /\ g \notin DOMAIN memory']_vars
  BY NextAdds, CatalogAssumption DEF MemoryIsSaved, Adds
<1>3. MemoryIsSaved /\ [Next]_vars => MemoryIsSaved'
  BY NextAdds
<1>. QED  BY <1>1, <1>2, <1>3, PTL DEF Spec, DeletedStaysDeleted

-----------------------------------------------------------------------------
(* The search corpus                                                       *)

\* What a thread may still have to do: what requests begin with, and what is
\* left of that after some steps.
Todos ==
    {<<>>, <<"space">>,
     <<"drop", "close", "forget", "unregister">>, <<"close", "forget", "unregister">>,
     <<"forget", "unregister">>, <<"unregister">>,
     <<"build", "store">>, <<"store">>,
     <<"run", "count", "refresh">>, <<"count", "refresh">>, <<"refresh">>,
     <<"schema", "ddl", "write", "refresh", "register", "count">>,
     <<"ddl", "write", "refresh", "register", "count">>,
     <<"write", "refresh", "register", "count">>, <<"refresh", "register", "count">>,
     <<"register", "count">>, <<"count">>, <<"write", "refresh">>, <<"erase", "refresh">>}

Writing == {"run", "write", "erase"}
\* It has written, and will announce it.
Owing(todo) == "refresh" \in Range(todo) /\ Range(todo) \cap Writing = {}

ThreadRec ==
    [todo: Todos, g: Graphs, load: SUBSET Loads, client: {"cached", "own", "closed"},
     seen: SUBSET Loads, late: BOOLEAN]

IndexTypeOK ==
    /\ thread \in [Threads -> ThreadRec]
    /\ rows \in [Graphs -> SUBSET Loads]
    /\ DOMAIN corpus = Graphs

\* The stale entries of g are accounted for: announced as an exception, or
\* about to be invalidated.
Covered(g) == g \in left \/ \E u \in Threads : thread[u].g = g /\ Owing(thread[u].todo)

\* A search is about to store what it read before a change, and was not told.
Unaware(u, g) ==
    /\ Doing(u, "store") /\ thread[u].g = g
    /\ thread[u].seen # rows[g] /\ ~thread[u].late

IndexInv ==
    /\ IndexTypeOK
    /\ \A g \in Graphs : corpus[g] \notin {NoCorpus, {rows[g]}} => Covered(g)
    /\ \A g \in Graphs : (\E u \in Threads : Unaware(u, g)) => Covered(g)

\* How a step changes what is owed.
LEMMA TodoFacts ==
    ASSUME NEW todo \in Todos, todo # <<>>
    PROVE  /\ Tail(todo) \in Todos
           /\ Head(todo) \in Writing =>
                  ~Owing(todo) /\ Owing(Tail(todo)) /\ Tail(todo) # <<>>
           /\ Head(todo) \notin Writing \cup {"refresh"} /\ Owing(todo) =>
                  Owing(Tail(todo)) /\ Tail(todo) # <<>>
           /\ Head(todo) # "build" /\ Tail(todo) # <<>> => Head(Tail(todo)) # "store"
           /\ Head(todo) \in {"space", "drop", "close", "forget", "unregister",
                              "build", "store", "schema", "ddl"} => ~Owing(todo)
           /\ Head(todo) = "schema" =>
                  /\ Tail(Tail(todo)) \in Todos /\ Tail(Tail(todo)) # <<>>
                  /\ Head(Tail(Tail(todo))) # "store"
           /\ Head(todo) = "build" => Tail(todo) = <<"store">> /\ Tail(todo) # <<>>
<1>1. CASE todo = <<"space">>
  BY <1>1 DEF Todos, Owing, Writing, Range
<1>2. CASE todo = <<"drop", "close", "forget", "unregister">>
  BY <1>2 DEF Todos, Owing, Writing, Range
<1>3. CASE todo = <<"close", "forget", "unregister">>
  BY <1>3 DEF Todos, Owing, Writing, Range
<1>4. CASE todo = <<"forget", "unregister">>
  BY <1>4 DEF Todos, Owing, Writing, Range
<1>5. CASE todo = <<"unregister">>
  BY <1>5 DEF Todos, Owing, Writing, Range
<1>6. CASE todo = <<"build", "store">>
  BY <1>6 DEF Todos, Owing, Writing, Range
<1>7. CASE todo = <<"store">>
  BY <1>7 DEF Todos, Owing, Writing, Range
<1>8. CASE todo = <<"run", "count", "refresh">>
  BY <1>8 DEF Todos, Owing, Writing, Range
<1>9. CASE todo = <<"count", "refresh">>
  BY <1>9 DEF Todos, Owing, Writing, Range
<1>10. CASE todo = <<"refresh">>
  BY <1>10 DEF Todos, Owing, Writing, Range
<1>11. CASE todo = <<"schema", "ddl", "write", "refresh", "register", "count">>
  BY <1>11 DEF Todos, Owing, Writing, Range
<1>12. CASE todo = <<"ddl", "write", "refresh", "register", "count">>
  BY <1>12 DEF Todos, Owing, Writing, Range
<1>13. CASE todo = <<"write", "refresh", "register", "count">>
  BY <1>13 DEF Todos, Owing, Writing, Range
<1>14. CASE todo = <<"refresh", "register", "count">>
  BY <1>14 DEF Todos, Owing, Writing, Range
<1>15. CASE todo = <<"register", "count">>
  BY <1>15 DEF Todos, Owing, Writing, Range
<1>16. CASE todo = <<"count">>
  BY <1>16 DEF Todos, Owing, Writing, Range
<1>17. CASE todo = <<"write", "refresh">>
  BY <1>17 DEF Todos, Owing, Writing, Range
<1>18. CASE todo = <<"erase", "refresh">>
  BY <1>18 DEF Todos, Owing, Writing, Range
<1>. QED  BY <1>1, <1>2, <1>3, <1>4, <1>5, <1>6, <1>7, <1>8, <1>9, <1>10, <1>11, <1>12, <1>13, <1>14, <1>15, <1>16, <1>17, <1>18 DEF Todos

LEMMA IdleRec == Idle \in ThreadRec /\ Idle.todo = <<>> /\ ~Owing(<<>>)
  BY DEF Idle, ThreadRec, Todos, Graphs, Owing, Range

LEMMA AfterFacts ==
    ASSUME IndexTypeOK, NEW t \in Threads, thread[t].todo # <<>>
    PROVE  /\ thread[t] \in ThreadRec
           /\ After(t) \in ThreadRec /\ After(t).todo = Tail(thread[t].todo)
           /\ Tail(thread[t].todo) # <<>> =>
                  /\ After(t).g = thread[t].g
                  /\ After(t).seen = thread[t].seen
<1>1. thread[t] \in ThreadRec
  BY DEF IndexTypeOK
<1>2. Tail(thread[t].todo) \in Todos
  BY <1>1, TodoFacts DEF ThreadRec
<1>3. CASE Tail(thread[t].todo) = <<>>
  BY <1>1, <1>3, IdleRec DEF After
<1>4. CASE Tail(thread[t].todo) # <<>>
  BY <1>1, <1>2, <1>4 DEF After, ThreadRec
<1>. QED  BY <1>1, <1>3, <1>4

\* A step that changes neither the graph nor the corpus and keeps its promise.
LEMMA KeepsIndex ==
    ASSUME IndexInv, NEW t \in Threads, NEW x \in ThreadRec,
           thread' = [thread EXCEPT ![t] = x], UNCHANGED <<rows, corpus>>,
           left \subseteq left',
           Owing(thread[t].todo) => Owing(x.todo) /\ x.g = thread[t].g,
           x.todo # <<>> /\ Head(x.todo) = "store" => x.seen = rows[x.g]
    PROVE  IndexInv'
<1>1. IndexTypeOK'
  BY DEF IndexInv, IndexTypeOK
<1>2. \A u \in Threads : thread'[u] = IF u = t THEN x ELSE thread[u]
  BY DEF IndexInv, IndexTypeOK
<1>3. \A g \in Graphs : Covered(g) => Covered(g)'
  BY <1>2 DEF Covered
<1>4. \A g \in Graphs, u \in Threads : Unaware(u, g)' => Unaware(u, g)
  BY <1>2 DEF Unaware, Doing
<1>. QED  BY <1>1, <1>3, <1>4 DEF IndexInv

\* Going on from a step that is no write and announces nothing.
LEMMA ProceedsIndex ==
    ASSUME IndexInv, NEW t \in Threads, thread[t].todo # <<>>,
           Head(thread[t].todo) \notin Writing \cup {"refresh", "build"}, Proceed(t),
           UNCHANGED <<rows, corpus>>, left \subseteq left'
    PROVE  IndexInv'
<1>1. IndexTypeOK
  BY DEF IndexInv
<1>2. thread[t].todo \in Todos
  BY <1>1 DEF IndexTypeOK, ThreadRec
<1>3. Owing(thread[t].todo) => Owing(After(t).todo) /\ After(t).g = thread[t].g
  BY <1>1, <1>2, AfterFacts, TodoFacts
<1>4. After(t).todo # <<>> => Head(After(t).todo) # "store"
  BY <1>1, <1>2, AfterFacts, TodoFacts
<1>. QED  BY <1>1, <1>3, <1>4, AfterFacts, KeepsIndex DEF Proceed

\* Giving up, when nothing was owed.
LEMMA AbortsIndex ==
    ASSUME IndexInv, NEW t \in Threads, ~Owing(thread[t].todo), Abort(t),
           UNCHANGED <<rows, corpus>>, left \subseteq left'
    PROVE  IndexInv'
  BY IdleRec, KeepsIndex DEF Abort

LEMMA InitIndex == Init => IndexInv
<1>. SUFFICES ASSUME Init PROVE IndexInv
  OBVIOUS
<1>1. IndexTypeOK
  BY IdleRec DEF Init, IndexTypeOK
<1>. QED  BY <1>1, IdleRec DEF Init, IndexInv, Unaware, Doing, NoCorpus

\* A request begins; none begins with a store.
LEMMA BeginIndex ==
    ASSUME IndexInv, NEW t \in Threads, NEW todo \in Todos, NEW g \in Graphs,
           NEW load \in SUBSET Loads, NEW client \in {"cached", "own"},
           todo # <<>>, Head(todo) # "store", Begin(t, todo, g, load, client),
           UNCHANGED <<rows, corpus, left>>
    PROVE  IndexInv'
<1> DEFINE x == [Idle EXCEPT !.todo = todo, !.g = g, !.load = load, !.client = client]
<1>1. x \in ThreadRec /\ x.todo = todo
  BY IdleRec DEF ThreadRec
<1>2. thread[t] = Idle /\ thread' = [thread EXCEPT ![t] = x]
  BY DEF Begin
<1>. HIDE DEF x
<1>. QED  BY <1>1, <1>2, IdleRec, KeepsIndex

LEMMA RequestIndex ==
    ASSUME IndexInv, NEW t \in Threads, Request(t)
    PROVE  IndexInv'
<1>1. UNCHANGED <<rows, corpus, left>>
  BY DEF Request, Create, Delete, Search, StartImport, Ingest, Approve, Cleanup
<1>2. /\ <<"space">> \in Todos /\ DeleteTodo \in Todos /\ <<"build", "store">> \in Todos
      /\ <<"run", "count", "refresh">> \in Todos /\ <<"write", "refresh">> \in Todos
      /\ <<"erase", "refresh">> \in Todos
      /\ <<"schema", "ddl", "write", "refresh", "register", "count">> \in Todos
  BY DEF Todos, DeleteTodo
<1>3. Intel \in Graphs /\ UserGraphs \subseteq Graphs
  BY DEF Graphs
<1>4. ASSUME NEW g \in UserGraphs, Create(t, g) PROVE IndexInv'
  BY <1>1, <1>2, <1>3, <1>4, BeginIndex DEF Create
<1>5. ASSUME NEW g \in Graphs, Delete(t, g) PROVE IndexInv'
  <2>1. DeleteTodo # <<>> /\ Head(DeleteTodo) # "store"
    BY DEF DeleteTodo
  <2>. QED  BY <1>1, <1>2, <1>5, <2>1, BeginIndex DEF Delete
<1>6. ASSUME NEW g \in Graphs, Search(t, g) PROVE IndexInv'
  BY <1>1, <1>2, <1>6, BeginIndex DEF Search
<1>7. ASSUME NEW g \in Graphs, NEW l \in Loads, StartImport(t, g, l) PROVE IndexInv'
  BY <1>1, <1>2, <1>7, BeginIndex DEF StartImport
<1>8. ASSUME NEW l \in Loads, Ingest(t, l) PROVE IndexInv'
  BY <1>1, <1>2, <1>3, <1>8, BeginIndex DEF Ingest
<1>9. ASSUME NEW l \in Loads, Approve(t, l) PROVE IndexInv'
  BY <1>1, <1>2, <1>3, <1>9, BeginIndex DEF Approve
<1>10. ASSUME NEW l \in Loads, Cleanup(t, l) PROVE IndexInv'
  BY <1>1, <1>2, <1>3, <1>10, BeginIndex DEF Cleanup
<1>. QED  BY <1>4, <1>5, <1>6, <1>7, <1>8, <1>9, <1>10 DEF Request

\* A step that changes one graph: its thread owes the refresh, or the graph
\* is one whose corpus is left behind.
LEMMA ChangesIndex ==
    ASSUME IndexInv, NEW t \in Threads, NEW x \in ThreadRec, NEW g \in Graphs,
           thread' = [thread EXCEPT ![t] = x], UNCHANGED corpus,
           rows' \in [Graphs -> SUBSET Loads],
           \A h \in Graphs : h # g => rows'[h] = rows[h],
           left \subseteq left',
           Owing(thread[t].todo) => Owing(x.todo) /\ x.g = thread[t].g,
           x.todo # <<>> => Head(x.todo) # "store",
           g \in left' \/ (x.g = g /\ Owing(x.todo))
    PROVE  IndexInv'
<1>1. IndexTypeOK'
  BY DEF IndexInv, IndexTypeOK
<1>2. \A u \in Threads : thread'[u] = IF u = t THEN x ELSE thread[u]
  BY DEF IndexInv, IndexTypeOK
<1>3. \A h \in Graphs : Covered(h) => Covered(h)'
  BY <1>2 DEF Covered
<1>4. Covered(g)'
  BY <1>2 DEF Covered
<1>5. \A h \in Graphs, u \in Threads : h # g /\ Unaware(u, h)' => Unaware(u, h)
  BY <1>2 DEF Unaware, Doing
<1>. QED  BY <1>1, <1>3, <1>4, <1>5 DEF IndexInv

\* What a write to the graph does to the corpus, whether the thread goes on
\* to announce it or fails after some of it.
LEMMA WritesIndex ==
    ASSUME IndexInv, NEW t \in Threads, thread[t].todo # <<>>,
           Head(thread[t].todo) \in Writing, UNCHANGED corpus,
           rows' \in [Graphs -> SUBSET Loads],
           \A h \in Graphs : h # thread[t].g => rows'[h] = rows[h],
           \/ Proceed(t) /\ UNCHANGED left
           \/ Abort(t) /\ left' = left \cup {thread[t].g}
    PROVE  IndexInv'
<1>1. IndexTypeOK /\ thread[t].todo \in Todos /\ thread[t].g \in Graphs
  BY DEF IndexInv, IndexTypeOK, ThreadRec
<1>2. ~Owing(thread[t].todo) /\ Owing(Tail(thread[t].todo)) /\ Tail(thread[t].todo) # <<>>
  BY <1>1, TodoFacts
<1>3. Head(thread[t].todo) # "build"
  BY DEF Writing
<1>4. CASE Proceed(t) /\ UNCHANGED left
  <2>1. /\ After(t) \in ThreadRec /\ After(t).g = thread[t].g
        /\ Owing(After(t).todo) /\ Head(After(t).todo) # "store"
    BY <1>1, <1>2, <1>3, AfterFacts, TodoFacts
  <2>. QED  BY <1>1, <1>2, <1>4, <2>1, ChangesIndex DEF Proceed
<1>5. CASE Abort(t) /\ left' = left \cup {thread[t].g}
  BY <1>1, <1>2, <1>5, IdleRec, ChangesIndex DEF Abort
<1>. QED  BY <1>4, <1>5

LEMMA DropIndex ==
    ASSUME IndexInv, NEW t \in Threads, Drop(t)
    PROVE  IndexInv'
<1>1. /\ IndexTypeOK /\ thread[t].todo \in Todos /\ thread[t].g \in Graphs
      /\ thread[t].todo # <<>> /\ Head(thread[t].todo) = "drop"
  BY DEF IndexInv, IndexTypeOK, ThreadRec, Drop, Doing
<1>2. ~Owing(thread[t].todo)
  BY <1>1, TodoFacts
<1>3. CASE /\ rows' = [rows EXCEPT ![thread[t].g] = {}]
           /\ left' = left \cup {thread[t].g} /\ Proceed(t) /\ UNCHANGED corpus
  <2>1. After(t) \in ThreadRec /\ (After(t).todo # <<>> => Head(After(t).todo) # "store")
    BY <1>1, AfterFacts, TodoFacts
  <2>2. /\ rows' \in [Graphs -> SUBSET Loads]
        /\ \A h \in Graphs : h # thread[t].g => rows'[h] = rows[h]
    BY <1>1, <1>3 DEF IndexTypeOK
  <2>. QED  BY <1>1, <1>2, <1>3, <2>1, <2>2, ChangesIndex DEF Proceed
<1>4. CASE Abort(t) /\ UNCHANGED <<rows, left, corpus>>
  BY <1>2, <1>4, AbortsIndex
<1>. QED  BY <1>3, <1>4 DEF Drop

LEMMA CloseIndex ==
    ASSUME IndexInv, NEW t \in Threads, Close(t)
    PROVE  IndexInv'
<1>1. /\ IndexTypeOK /\ thread[t].todo \in Todos
      /\ thread[t].todo # <<>> /\ Head(thread[t].todo) = "close"
  BY DEF IndexInv, IndexTypeOK, ThreadRec, Close, Doing
<1>2. ~Owing(thread[t].todo)
  BY <1>1, TodoFacts
<1>3. After(t) \in ThreadRec /\ (After(t).todo # <<>> => Head(After(t).todo) # "store")
  BY <1>1, AfterFacts, TodoFacts
<1>4. \A u \in Threads : u # t =>
          \/ thread'[u] = thread[u]
          \/ thread'[u] = [thread[u] EXCEPT !.client = "closed"]
  BY DEF Close
<1>5. \A u \in Threads : u # t =>
          /\ thread'[u] \in ThreadRec
          /\ thread'[u].todo = thread[u].todo /\ thread'[u].g = thread[u].g
          /\ thread'[u].seen = thread[u].seen /\ thread'[u].late = thread[u].late
  <2>1. ASSUME NEW r \in ThreadRec, NEW s, s = [r EXCEPT !.client = "closed"]
        PROVE  /\ s \in ThreadRec /\ s.todo = r.todo /\ s.g = r.g
               /\ s.seen = r.seen /\ s.late = r.late
    BY <2>1 DEF ThreadRec
  <2>2. \A u \in Threads : thread[u] \in ThreadRec
    BY <1>1 DEF IndexTypeOK
  <2>. QED  BY <1>4, <2>1, <2>2
<1>6. thread'[t] = After(t) /\ UNCHANGED <<rows, corpus, left>>
  BY DEF Close
<1>7. IndexTypeOK'
  <2>1. thread' = [u \in Threads |-> thread'[u]]
    BY DEF Close
  <2>2. \A u \in Threads : thread'[u] \in ThreadRec
    BY <1>3, <1>5, <1>6
  <2>3. thread' \in [Threads -> ThreadRec]
    BY <2>1, <2>2
  <2>. QED  BY <1>1, <1>6, <2>3 DEF IndexTypeOK
<1>8. \A g \in Graphs : Covered(g) => Covered(g)'
  BY <1>2, <1>5, <1>6 DEF Covered
<1>9. \A g \in Graphs, u \in Threads : Unaware(u, g)' => Unaware(u, g)
  BY <1>3, <1>5, <1>6 DEF Unaware, Doing
<1>. QED  BY <1>6, <1>7, <1>8, <1>9 DEF IndexInv

LEMMA BuildIndex ==
    ASSUME IndexInv, NEW t \in Threads, Build(t)
    PROVE  IndexInv'
<1>1. /\ IndexTypeOK /\ thread[t].todo \in Todos /\ thread[t].g \in Graphs
      /\ thread[t].todo # <<>> /\ Head(thread[t].todo) = "build"
  BY DEF IndexInv, IndexTypeOK, ThreadRec, Build, Doing
<1>2. ~Owing(thread[t].todo) /\ Tail(thread[t].todo) = <<"store">> /\ Tail(thread[t].todo) # <<>>
  BY <1>1, TodoFacts
<1>3. UNCHANGED <<rows, corpus, left>>
  BY DEF Build
<1>4. CASE thread' = [thread EXCEPT ![t] = [After(t) EXCEPT !.seen = rows[thread[t].g]]]
  <2> DEFINE x == [After(t) EXCEPT !.seen = rows[thread[t].g]]
  <2>0. rows[thread[t].g] \in SUBSET Loads
    BY <1>1 DEF IndexTypeOK
  <2>1. After(t) \in ThreadRec /\ After(t).g = thread[t].g
    BY <1>1, <1>2, AfterFacts
  <2>2. x \in ThreadRec /\ x.g = thread[t].g /\ x.seen = rows[thread[t].g]
    BY <2>0, <2>1 DEF ThreadRec
  <2>3. thread' = [thread EXCEPT ![t] = x]
    BY <1>4
  <2>. HIDE DEF x
  <2>. QED  BY <1>2, <1>3, <2>2, <2>3, KeepsIndex
<1>5. CASE Abort(t)
  BY <1>2, <1>3, <1>5, AbortsIndex
<1>. QED  BY <1>4, <1>5 DEF Build

\* Entries that are already old are stored over an unpaid promise, or late.
LEMMA StoreIndex ==
    ASSUME IndexInv, NEW t \in Threads, Store(t)
    PROVE  IndexInv'
<1>1. /\ IndexTypeOK /\ thread[t].todo \in Todos /\ thread[t].g \in Graphs
      /\ thread[t].todo # <<>> /\ Head(thread[t].todo) = "store"
  BY DEF IndexInv, IndexTypeOK, ThreadRec, Store, Doing
<1>g. PICK g \in Graphs : g = thread[t].g
  BY <1>1
<1>2. ~Owing(thread[t].todo)
  BY <1>1, TodoFacts
<1>3. After(t) \in ThreadRec /\ (After(t).todo # <<>> => Head(After(t).todo) # "store")
  BY <1>1, AfterFacts, TodoFacts
<1>4. /\ UNCHANGED rows /\ corpus' = [corpus EXCEPT ![g] = {thread[t].seen}]
      /\ left \subseteq left' /\ (thread[t].late => g \in left')
      /\ thread' = [thread EXCEPT ![t] = After(t)]
  BY <1>g DEF Store, Proceed
<1>5. \A u \in Threads : thread'[u] = IF u = t THEN After(t) ELSE thread[u]
  BY <1>1, <1>4 DEF IndexTypeOK
<1>6. IndexTypeOK'
  BY <1>1, <1>3, <1>4 DEF IndexTypeOK
<1>7. \A h \in Graphs : Covered(h) => Covered(h)'
  BY <1>2, <1>4, <1>5 DEF Covered
<1>8. \A h \in Graphs, u \in Threads : Unaware(u, h)' => Unaware(u, h)
  BY <1>3, <1>4, <1>5 DEF Unaware, Doing
<1>9. corpus'[g] \notin {NoCorpus, {rows'[g]}} => Covered(g)'
  <2>1. corpus'[g] = {thread[t].seen} /\ rows'[g] = rows[g]
    BY <1>1, <1>4 DEF IndexTypeOK
  <2>2. CASE thread[t].seen = rows[g]
    BY <2>1, <2>2
  <2>3. CASE thread[t].late
    BY <1>4, <2>3 DEF Covered
  <2>4. CASE thread[t].seen # rows[g] /\ ~thread[t].late
    BY <1>1, <1>g, <1>7, <2>4 DEF IndexInv, Unaware, Doing
  <2>. QED  BY <2>2, <2>3, <2>4
<1>10. \A h \in Graphs : h # g => corpus'[h] = corpus[h] /\ rows'[h] = rows[h]
  BY <1>1, <1>4 DEF IndexTypeOK
<1>. QED  BY <1>6, <1>7, <1>8, <1>9, <1>10 DEF IndexInv

\* The promise is kept: no entries, and every search under way is told.
LEMMA RefreshIndex ==
    ASSUME IndexInv, NEW t \in Threads, Refresh(t)
    PROVE  IndexInv'
<1>1. /\ IndexTypeOK /\ thread[t].todo \in Todos /\ thread[t].g \in Graphs
      /\ thread[t].todo # <<>> /\ Head(thread[t].todo) = "refresh"
  BY DEF IndexInv, IndexTypeOK, ThreadRec, Refresh, Doing
<1>g. PICK g \in Graphs : g = thread[t].g
  BY <1>1
<1>2. After(t) \in ThreadRec /\ (After(t).todo # <<>> => Head(After(t).todo) # "store")
  BY <1>1, AfterFacts, TodoFacts
<1>3. /\ UNCHANGED rows /\ corpus' = [corpus EXCEPT ![g] = NoCorpus] /\ left' = left \ {g}
      /\ thread'[t] = After(t)
  BY <1>g DEF Refresh
<1>4. \A u \in Threads : u # t =>
          \/ thread'[u] = [thread[u] EXCEPT !.late = TRUE]
          \/ thread'[u] = thread[u] /\ ~(Doing(u, "store") /\ thread[u].g = g)
  BY <1>g DEF Refresh
<1>5. \A u \in Threads : u # t =>
          /\ thread'[u] \in ThreadRec
          /\ thread'[u].todo = thread[u].todo /\ thread'[u].g = thread[u].g
          /\ thread'[u].seen = thread[u].seen /\ (thread[u].late => thread'[u].late)
          /\ Doing(u, "store") /\ thread[u].g = g => thread'[u].late
  BY <1>1, <1>4 DEF IndexTypeOK, ThreadRec
<1>6. IndexTypeOK'
  <2>1. thread' = [u \in Threads |-> thread'[u]]
    BY <1>g DEF Refresh
  <2>2. \A u \in Threads : thread'[u] \in ThreadRec
    BY <1>2, <1>3, <1>5
  <2>3. thread' \in [Threads -> ThreadRec]
    BY <2>1, <2>2
  <2>. QED  BY <1>1, <1>3, <2>3 DEF IndexTypeOK
<1>7. \A h \in Graphs : h # g /\ Covered(h) => Covered(h)'
  BY <1>g, <1>3, <1>5 DEF Covered
<1>8. \A h \in Graphs, u \in Threads : Unaware(u, h)' => h # g /\ Unaware(u, h)
  BY <1>g, <1>2, <1>3, <1>5 DEF Unaware, Doing
<1>9. corpus'[g] = NoCorpus /\ \A h \in Graphs : h # g => corpus'[h] = corpus[h]
  BY <1>1, <1>3 DEF IndexTypeOK
<1>. QED  BY <1>3, <1>6, <1>7, <1>8, <1>9 DEF IndexInv

LEMMA RunImportIndex ==
    ASSUME IndexInv, NEW t \in Threads, RunImport(t)
    PROVE  IndexInv'
<1>1. /\ IndexTypeOK /\ thread[t] \in ThreadRec /\ thread[t].todo # <<>>
      /\ Head(thread[t].todo) \in Writing /\ UNCHANGED corpus
  BY DEF IndexInv, IndexTypeOK, RunImport, Doing, Writing
<1>2. ~Owing(thread[t].todo)
  BY <1>1, TodoFacts DEF ThreadRec
<1>3. Wrote(t) => /\ rows' \in [Graphs -> SUBSET Loads]
                  /\ \A h \in Graphs : h # thread[t].g => rows'[h] = rows[h]
  BY <1>1 DEF Wrote, IndexTypeOK, ThreadRec
<1>4. CASE Wrote(t) /\ Proceed(t) /\ UNCHANGED left
  BY <1>1, <1>3, <1>4, WritesIndex
<1>5. CASE Wrote(t) /\ Abort(t) /\ left' = left \cup {thread[t].g}
  BY <1>1, <1>3, <1>5, WritesIndex
<1>6. CASE Abort(t) /\ UNCHANGED <<rows, left>>
  BY <1>1, <1>2, <1>6, AbortsIndex
<1>. QED  BY <1>4, <1>5, <1>6 DEF RunImport

LEMMA WriteIndex ==
    ASSUME IndexInv, NEW t \in Threads, Write(t) \/ Erase(t)
    PROVE  IndexInv'
<1> DEFINE Erased == rows' = [rows EXCEPT ![thread[t].g] = @ \ thread[t].load]
<1>1. /\ IndexTypeOK /\ thread[t] \in ThreadRec /\ thread[t].todo # <<>>
      /\ Head(thread[t].todo) \in Writing /\ UNCHANGED corpus
  BY DEF IndexInv, IndexTypeOK, Write, Erase, Doing, Writing
<1>2. ~Owing(thread[t].todo)
  BY <1>1, TodoFacts DEF ThreadRec
<1>3. Wrote(t) \/ Erased => /\ rows' \in [Graphs -> SUBSET Loads]
                            /\ \A h \in Graphs : h # thread[t].g => rows'[h] = rows[h]
  BY <1>1 DEF Wrote, IndexTypeOK, ThreadRec
<1>4. CASE (Wrote(t) \/ Erased) /\ Proceed(t) /\ UNCHANGED left
  BY <1>1, <1>3, <1>4, WritesIndex
<1>5. CASE (Wrote(t) \/ Erased) /\ Abort(t) /\ left' = left \cup {thread[t].g}
  BY <1>1, <1>3, <1>5, WritesIndex
<1>6. CASE Abort(t) /\ UNCHANGED <<rows, left>>
  BY <1>1, <1>2, <1>6, AbortsIndex
<1>. QED  BY <1>4, <1>5, <1>6 DEF Write, Erase

LEMMA SchemaIndex ==
    ASSUME IndexInv, NEW t \in Threads, CheckSchema(t) \/ EnsureSchema(t)
    PROVE  IndexInv'
<1>1. /\ IndexTypeOK /\ thread[t] \in ThreadRec /\ thread[t].todo # <<>>
      /\ Head(thread[t].todo) \in {"schema", "ddl"} /\ UNCHANGED <<rows, corpus, left>>
      /\ CheckSchema(t) => Head(thread[t].todo) = "schema"
  BY DEF IndexInv, IndexTypeOK, CheckSchema, EnsureSchema, Doing
<1>2. ~Owing(thread[t].todo)
  BY <1>1, TodoFacts DEF ThreadRec
<1>3. CASE Head(thread[t].todo) = "schema" /\
           thread' = [thread EXCEPT ![t].todo = Tail(Tail(@))]
  <2> DEFINE x == [thread[t] EXCEPT !.todo = Tail(Tail(@))]
  <2>1. x \in ThreadRec /\ x.todo = Tail(Tail(thread[t].todo))
    BY <1>1, <1>3, TodoFacts DEF ThreadRec
  <2>2. Head(x.todo) # "store"
    BY <1>1, <1>3, <2>1, TodoFacts DEF ThreadRec
  <2>3. thread' = [thread EXCEPT ![t] = x]
    BY <1>3
  <2>. HIDE DEF x
  <2>. QED  BY <1>1, <1>2, <2>1, <2>2, <2>3, KeepsIndex
<1>4. CASE Proceed(t)
  BY <1>1, <1>4, ProceedsIndex DEF Writing
<1>5. CASE Abort(t)
  BY <1>1, <1>2, <1>5, AbortsIndex
<1>. QED  BY <1>1, <1>3, <1>4, <1>5 DEF CheckSchema, EnsureSchema

LEMMA CatalogueIndex ==
    ASSUME IndexInv, NEW t \in Threads,
           MakeSpace(t) \/ Forget(t) \/ Unregister(t) \/ Count(t) \/ Register(t)
    PROVE  IndexInv'
<1>1. /\ thread[t].todo # <<>>
      /\ Head(thread[t].todo) \in {"space", "forget", "unregister", "count", "register"}
      /\ Proceed(t) /\ UNCHANGED <<rows, corpus, left>>
  BY DEF MakeSpace, Forget, Unregister, Count, Register, Doing
<1>. QED  BY <1>1, ProceedsIndex DEF Writing

LEMMA RestartIndex ==
    ASSUME IndexInv, Restart
    PROVE  IndexInv'
<1>1. /\ UNCHANGED rows /\ corpus' = [g \in Graphs |-> NoCorpus]
      /\ thread' = [u \in Threads |-> Idle]
  BY DEF Restart
<1>2. IndexTypeOK'
  BY <1>1, IdleRec DEF IndexInv, IndexTypeOK
<1>3. \A g \in Graphs, u \in Threads : ~Unaware(u, g)'
  BY <1>1, IdleRec DEF Unaware, Doing
<1>. QED  BY <1>1, <1>2, <1>3 DEF IndexInv

LEMMA NextIndex == IndexInv /\ [Next]_vars => IndexInv'
<1>1. IndexInv /\ UNCHANGED vars => IndexInv'
  BY DEF vars, IndexInv, IndexTypeOK, Covered, Unaware, Doing
<1>2. ASSUME IndexInv, NEW t \in Threads, Step(t) PROVE IndexInv'
  BY <1>2, DropIndex, CloseIndex, BuildIndex, StoreIndex, RefreshIndex, RunImportIndex,
     WriteIndex, SchemaIndex, CatalogueIndex DEF Step
<1>. QED  BY <1>1, <1>2, RequestIndex, RestartIndex DEF Next

\* However searches, imports, evidences, approvals, deletions and restarts
\* interleave, a stored corpus that no longer is what the graph holds is one
\* of the exceptions IndexFresh names or about to be invalidated by the
\* thread that wrote (search/index.py, SearchIndex.search and invalidate).
THEOREM CorpusIsFresh == Spec => []IndexFresh
<1>1. IndexInv => IndexFresh
  <2>1. ASSUME NEW g \in Graphs, Covered(g)
        PROVE  \/ g \in left
               \/ \E t \in Threads :
                      Has(t, g, {"refresh"}) /\ ~Has(t, g, {"run", "write", "erase"})
    BY <2>1 DEF Covered, Owing, Writing, Has
  <2>. QED  BY <2>1 DEF IndexInv, IndexFresh
<1>. QED  BY <1>1, InitIndex, NextIndex, PTL DEF Spec

-----------------------------------------------------------------------------
(* The truth of the catalogue                                              *)

\* What threads do on a user's graph: no evidence is ingested there.
UserTodos ==
    {<<>>, <<"space">>,
     <<"drop", "close", "forget", "unregister">>, <<"close", "forget", "unregister">>,
     <<"forget", "unregister">>, <<"unregister">>,
     <<"build", "store">>, <<"store">>,
     <<"run", "count", "refresh">>, <<"count", "refresh">>, <<"refresh">>}

Making(t, g) == thread[t].g = g /\ thread[t].todo = <<"space">>
AfterDrop ==
    {<<"close", "forget", "unregister">>, <<"forget", "unregister">>, <<"unregister">>}
Dropped(t, g) == thread[t].g = g /\ thread[t].todo \in AfterDrop
Deleting(t, g) ==
    Dropped(t, g) \/ (thread[t].g = g /\ thread[t].todo = DeleteTodo)
Due(t, g) == thread[t].g = g /\ thread[t].todo = <<"count", "refresh">>

Owning == {"run", "write", "count"}
\* It is to write its load, or to count it.
Owner(t) == Range(thread[t].todo) \cap Owning # {}

\* A load is in the hands of one thread, which had it fresh.
OwnersInv ==
    /\ \A t \in Threads : thread[t].g \in UserGraphs =>
           thread[t].g \in used /\ thread[t].todo \in UserTodos
    /\ DOMAIN disk \cap UserGraphs \subseteq used
    /\ \A t \in Threads : Owner(t) => \E l \in Loads \cap used : thread[t].load = {l}
    /\ \A t, u \in Threads : Owner(t) /\ Owner(u) /\ thread[t].load = thread[u].load => t = u
    /\ \A g \in Graphs : rows[g] \subseteq used
    /\ \A t \in Threads : "run" \in Range(thread[t].todo) =>
           \A g \in Graphs : thread[t].load \cap rows[g] = {}

\* How the stages of a thread follow on each other.
LEMMA StageFacts ==
    ASSUME NEW todo \in Todos, todo # <<>>
    PROVE  /\ Range(Tail(todo)) \subseteq Range(todo) /\ Head(todo) \in Range(todo)
           /\ "run" \notin Range(Tail(todo)) /\ Tail(todo) # <<"space">>
           /\ Head(todo) = "count" => "count" \notin Range(Tail(todo))
           /\ Head(todo) = "schema" =>
                  /\ Range(Tail(Tail(todo))) \subseteq Range(todo)
                  /\ "run" \notin Range(Tail(Tail(todo)))
           /\ todo \in UserTodos =>
                  Tail(todo) \in UserTodos /\ Head(todo) \notin {"schema", "ddl", "write", "erase"}
<1>. USE DEF Todos, UserTodos, Range
<1>1. CASE todo \in {<<"space">>, <<"drop", "close", "forget", "unregister">>,
                     <<"close", "forget", "unregister">>, <<"forget", "unregister">>,
                     <<"unregister">>}
  <2>1. CASE todo = <<"space">>
    BY <2>1
  <2>2. CASE todo = <<"drop", "close", "forget", "unregister">>
    BY <2>2
  <2>3. CASE todo = <<"close", "forget", "unregister">>
    BY <2>3
  <2>4. CASE todo = <<"forget", "unregister">>
    BY <2>4
  <2>5. CASE todo = <<"unregister">>
    BY <2>5
  <2>. QED  BY <1>1, <2>1, <2>2, <2>3, <2>4, <2>5
<1>2. CASE todo \in {<<"build", "store">>, <<"store">>, <<"run", "count", "refresh">>,
                     <<"count", "refresh">>, <<"refresh">>}
  <2>1. CASE todo = <<"build", "store">>
    BY <2>1
  <2>2. CASE todo = <<"store">>
    BY <2>2
  <2>3. CASE todo = <<"run", "count", "refresh">>
    BY <2>3
  <2>4. CASE todo = <<"count", "refresh">>
    BY <2>4
  <2>5. CASE todo = <<"refresh">>
    BY <2>5
  <2>. QED  BY <1>2, <2>1, <2>2, <2>3, <2>4, <2>5
<1>3. CASE todo = <<"schema", "ddl", "write", "refresh", "register", "count">>
  BY <1>3
<1>4. CASE todo = <<"ddl", "write", "refresh", "register", "count">>
  BY <1>4
<1>5. CASE todo = <<"write", "refresh", "register", "count">>
  BY <1>5
<1>6. CASE todo = <<"refresh", "register", "count">>
  BY <1>6
<1>7. CASE todo = <<"register", "count">>
  BY <1>7
<1>8. CASE todo = <<"count">>
  BY <1>8
<1>9. CASE todo = <<"write", "refresh">>
  BY <1>9
<1>10. CASE todo = <<"erase", "refresh">>
  BY <1>10
<1>. QED  BY <1>1, <1>2, <1>3, <1>4, <1>5, <1>6, <1>7, <1>8, <1>9, <1>10

\* A thread of which a step of another changes at most what client it holds
\* and whether its entries are late.
Undisturbed(u) ==
    thread'[u].todo = thread[u].todo /\ thread'[u].g = thread[u].g
    /\ thread'[u].load = thread[u].load

\* The thread gives up or is through, or it goes on with the same load.
GoesOn(t) ==
    \/ thread'[t] = Idle
    \/ /\ thread'[t].g = thread[t].g /\ thread'[t].load = thread[t].load
       /\ \/ thread'[t].todo = Tail(thread[t].todo)
          \/ Head(thread[t].todo) = "schema" /\ thread'[t].todo = Tail(Tail(thread[t].todo))

LEMMA StepGoesOn ==
    ASSUME IndexTypeOK, NEW t \in Threads, Step(t)
    PROVE  /\ thread[t] \in ThreadRec /\ thread[t].todo \in Todos \ {<<>>}
           /\ GoesOn(t)
           /\ \A u \in Threads : u # t => Undisturbed(u)
<1>1. thread[t] \in ThreadRec /\ thread[t].todo \in Todos
  BY DEF IndexTypeOK, ThreadRec
<1>2. thread[t].todo # <<>>
  BY DEF Step, MakeSpace, Drop, Close, Forget, Unregister, Build, Store, RunImport, Count, Refresh,
         CheckSchema, EnsureSchema, Write, Erase, Register, Doing
<1>3. /\ After(t).todo = Tail(thread[t].todo) \/ After(t) = Idle
      /\ After(t) = Idle \/ (After(t).g = thread[t].g /\ After(t).load = thread[t].load)
  BY <1>1 DEF After, ThreadRec
<1>4. CASE Proceed(t)
  BY <1>1, <1>2, <1>3, <1>4 DEF Proceed, GoesOn, Undisturbed, IndexTypeOK
<1>5. CASE Abort(t)
  BY <1>1, <1>2, <1>5 DEF Abort, GoesOn, Undisturbed, IndexTypeOK
<1>6. CASE Close(t) \/ Refresh(t)
  <2>1. thread'[t] = After(t)
    BY <1>6 DEF Close, Refresh
  <2>2. \A u \in Threads : u # t =>
            \/ thread'[u] = thread[u]
            \/ thread'[u] = [thread[u] EXCEPT !.client = "closed"]
            \/ thread'[u] = [thread[u] EXCEPT !.late = TRUE]
    BY <1>6 DEF Close, Refresh
  <2>3. \A u \in Threads : u # t => Undisturbed(u)
    <3>. SUFFICES ASSUME NEW u \in Threads, u # t PROVE Undisturbed(u)
      OBVIOUS
    <3>1. thread[u] \in ThreadRec
      BY DEF IndexTypeOK
    <3>2. CASE thread'[u] = thread[u]
      BY <3>2 DEF Undisturbed
    <3>3. CASE thread'[u] = [thread[u] EXCEPT !.client = "closed"]
      BY <3>1, <3>3 DEF Undisturbed, ThreadRec
    <3>4. CASE thread'[u] = [thread[u] EXCEPT !.late = TRUE]
      BY <3>1, <3>4 DEF Undisturbed, ThreadRec
    <3>. QED  BY <2>2, <3>2, <3>3, <3>4
  <2>. QED  BY <1>1, <1>2, <1>3, <2>1, <2>3 DEF GoesOn
<1>7. CASE thread' = [thread EXCEPT ![t] = [After(t) EXCEPT !.seen = rows[thread[t].g]]]
           /\ Head(thread[t].todo) = "build"
  <2>1. Tail(thread[t].todo) # <<>>
    BY <1>1, <1>2, <1>7, TodoFacts
  <2>2. After(t) = [thread[t] EXCEPT !.todo = Tail(thread[t].todo)]
    BY <2>1 DEF After
  <2>3. /\ thread'[t].todo = Tail(thread[t].todo) /\ thread'[t].g = thread[t].g
        /\ thread'[t].load = thread[t].load
    BY <1>1, <1>7, <2>2 DEF IndexTypeOK, ThreadRec
  <2>. QED  BY <1>1, <1>2, <1>7, <2>3 DEF GoesOn, Undisturbed, IndexTypeOK
<1>8. CASE Head(thread[t].todo) = "schema"
           /\ thread' = [thread EXCEPT ![t].todo = Tail(Tail(@))]
  BY <1>1, <1>2, <1>8 DEF GoesOn, Undisturbed, IndexTypeOK, ThreadRec
<1>. QED  BY <1>4, <1>5, <1>6, <1>7, <1>8
          DEF Step, MakeSpace, Drop, Forget, Unregister, Build, Store, RunImport, Count,
              CheckSchema, EnsureSchema, Write, Erase, Register, Doing

\* What the steps of a thread do to the stores: they draw no name, list no
\* graph but Intel, and add to the rows only what the thread owns.
LEMMA StepKeepsNames ==
    ASSUME IndexTypeOK, MemoryIsSaved, NEW t \in Threads, Step(t)
    PROVE  /\ used' = used
           /\ DOMAIN disk' \subseteq DOMAIN disk \cup {Intel}
           /\ \/ \A g \in Graphs : rows'[g] \subseteq rows[g]
              \/ /\ Owner(t)
                 /\ \A g \in Graphs : rows'[g] \subseteq rows[g] \cup thread[t].load
<1>1. used' = used
  BY DEF Step, MakeSpace, Drop, Close, Forget, Unregister, Build, Store, RunImport, Count, Refresh,
         CheckSchema, EnsureSchema, Write, Erase, Register
<1>2. DOMAIN disk' \subseteq DOMAIN disk \cup {Intel}
  <2>1. CASE Unregister(t)
    BY <2>1 DEF Unregister, Without, Saved, MemoryIsSaved
  <2>2. CASE Count(t)
    BY <2>2 DEF Count, Counted, Saved, MemoryIsSaved
  <2>3. CASE Register(t)
    BY <2>3 DEF Register, WithIntel, Saved, MemoryIsSaved
  <2>4. CASE \/ MakeSpace(t) \/ Drop(t) \/ Close(t) \/ Forget(t) \/ Build(t) \/ Store(t)
             \/ RunImport(t) \/ Refresh(t) \/ CheckSchema(t) \/ EnsureSchema(t) \/ Write(t)
             \/ Erase(t)
    BY <2>4 DEF MakeSpace, Drop, Close, Forget, Build, Store, RunImport, Refresh, CheckSchema,
                EnsureSchema, Write, Erase
  <2>. QED  BY <2>1, <2>2, <2>3, <2>4 DEF Step
<1>3. CASE RunImport(t) \/ Write(t)
  <2>1. thread[t].todo \in Todos /\ Head(thread[t].todo) \in Range(thread[t].todo)
    BY <1>3, StageFacts DEF RunImport, Write, Doing, IndexTypeOK, ThreadRec
  <2>2. Owner(t)
    BY <1>3, <2>1 DEF RunImport, Write, Doing, Owner, Owning
  <2>3. \A g \in Graphs : rows'[g] \subseteq rows[g] \cup thread[t].load
    BY <1>3 DEF RunImport, Write, Wrote, IndexTypeOK
  <2>. QED  BY <1>1, <1>2, <2>2, <2>3
<1>4. CASE Drop(t) \/ Erase(t)
  <2>1. \A g \in Graphs : rows'[g] \subseteq rows[g]
    BY <1>4 DEF Drop, Erase, IndexTypeOK
  <2>. QED  BY <1>1, <1>2, <2>1
<1>5. CASE \/ MakeSpace(t) \/ Close(t) \/ Forget(t) \/ Unregister(t) \/ Build(t) \/ Store(t)
           \/ Count(t) \/ Refresh(t) \/ CheckSchema(t) \/ EnsureSchema(t) \/ Register(t)
  <2>1. rows' = rows
    BY <1>5 DEF MakeSpace, Close, Forget, Unregister, Build, Store, Count, Refresh, CheckSchema,
                EnsureSchema, Register
  <2>. QED  BY <1>1, <1>2, <2>1
<1>. QED  BY <1>3, <1>4, <1>5 DEF Step

LEMMA StepOwners ==
    ASSUME IndexTypeOK, MemoryIsSaved, OwnersInv, NEW t \in Threads, Step(t)
    PROVE  OwnersInv'
<1>1. /\ thread[t].todo \in Todos \ {<<>>}
      /\ GoesOn(t)
      /\ \A u \in Threads : u # t => Undisturbed(u)
  BY StepGoesOn
<1>2. /\ used' = used
      /\ DOMAIN disk' \subseteq DOMAIN disk \cup {Intel}
      /\ \/ \A g \in Graphs : rows'[g] \subseteq rows[g]
         \/ /\ Owner(t)
            /\ \A g \in Graphs : rows'[g] \subseteq rows[g] \cup thread[t].load
  BY StepKeepsNames
<1>3. Intel \notin UserGraphs
  BY CatalogAssumption
<1>4. /\ thread'[t].g \in UserGraphs => thread'[t].todo \in UserTodos /\ thread'[t].g = thread[t].g
      /\ Owner(t)' => Owner(t) /\ thread'[t].load = thread[t].load
      /\ "run" \notin Range(thread'[t].todo)
  <2>1. CASE thread'[t] = Idle
    BY <1>3, <2>1 DEF Idle, Owner, Range
  <2>2. CASE thread'[t] # Idle
    BY <1>1, <2>2, StageFacts DEF OwnersInv, GoesOn, Owner
  <2>. QED  BY <2>1, <2>2
<1>5. \A u \in Threads : u # t =>
          /\ Owner(u)' <=> Owner(u)
          /\ thread'[u].todo = thread[u].todo /\ thread'[u].g = thread[u].g
          /\ thread'[u].load = thread[u].load
  BY <1>1 DEF Undisturbed, Owner
<1>6. \A u \in Threads : Owner(u)' => Owner(u) /\ thread'[u].load = thread[u].load
  BY <1>4, <1>5
<1>7. \A u \in Threads : thread'[u].g \in UserGraphs =>
          thread'[u].g \in used' /\ thread'[u].todo \in UserTodos
  BY <1>2, <1>4, <1>5 DEF OwnersInv
<1>8. DOMAIN disk' \cap UserGraphs \subseteq used'
  BY <1>2, <1>3 DEF OwnersInv
<1>9. /\ \A u \in Threads : Owner(u)' => \E l \in Loads \cap used' : thread'[u].load = {l}
      /\ \A u, v \in Threads :
             Owner(u)' /\ Owner(v)' /\ thread'[u].load = thread'[v].load => u = v
  BY <1>2, <1>6 DEF OwnersInv
<1>10. \A g \in Graphs : rows'[g] \subseteq used'
  BY <1>2 DEF OwnersInv
<1>11. ASSUME NEW u \in Threads, "run" \in Range(thread'[u].todo), NEW g \in Graphs
       PROVE  thread'[u].load \cap rows'[g] = {}
  <2>1. u # t /\ "run" \in Range(thread[u].todo) /\ thread'[u].load = thread[u].load
    BY <1>4, <1>5, <1>11
  <2>2. Owner(u)
    BY <2>1 DEF Owner, Owning
  <2>3. Owner(t) => thread[u].load \cap thread[t].load = {}
    BY <2>1, <2>2 DEF OwnersInv
  <2>. QED  BY <1>2, <2>1, <2>3 DEF OwnersInv
<1>. QED  BY <1>7, <1>8, <1>9, <1>10, <1>11 DEF OwnersInv

\* What a request makes of its thread; the others go on as they were.
LEMMA Begins ==
    ASSUME IndexTypeOK, NEW t \in Threads, NEW todo, NEW g, NEW load, NEW client,
           Begin(t, todo, g, load, client)
    PROVE  /\ thread[t].todo = <<>>
           /\ thread'[t].todo = todo /\ thread'[t].g = g /\ thread'[t].load = load
           /\ \A u \in Threads : u # t => thread'[u] = thread[u]
BY DEF Begin, Idle, IndexTypeOK

\* A thread takes up a load nobody ever had, or one that it will not write.
LEMMA BeginOwners ==
    ASSUME IndexTypeOK, OwnersInv, NEW t \in Threads, NEW todo \in Todos, NEW g \in Graphs,
           NEW load \in SUBSET Loads, NEW client, Begin(t, todo, g, load, client),
           used \subseteq used', rows' = rows,
           DOMAIN disk' \cap UserGraphs \subseteq used',
           g \in UserGraphs => g \in used' /\ todo \in UserTodos,
           \/ Range(todo) \cap Owning = {}
           \/ \E l \in Loads \cap used' : l \notin used /\ load = {l}
    PROVE  OwnersInv'
<1>1. /\ thread'[t].todo = todo /\ thread'[t].g = g /\ thread'[t].load = load
      /\ \A u \in Threads : u # t => thread'[u] = thread[u]
  BY Begins
<1>2. Owner(t)' => \E l \in Loads \cap used' : l \notin used /\ load = {l}
  BY <1>1 DEF Owner
<1>3. \A u \in Threads : u # t => (Owner(u)' <=> Owner(u))
  BY <1>1 DEF Owner
<1>4. \A u \in Threads : u # t /\ Owner(u) /\ Owner(t)' => thread[u].load # load
  BY <1>2 DEF OwnersInv
<1>5. /\ \A u \in Threads : Owner(u)' => \E l \in Loads \cap used' : thread'[u].load = {l}
      /\ \A u, v \in Threads :
             Owner(u)' /\ Owner(v)' /\ thread'[u].load = thread'[v].load => u = v
  BY <1>1, <1>2, <1>3, <1>4 DEF OwnersInv
<1>6. ASSUME NEW u \in Threads, "run" \in Range(thread'[u].todo), NEW h \in Graphs
      PROVE  thread'[u].load \cap rows'[h] = {}
  <2>1. CASE u = t
    <3>1. Owner(t)'
      BY <1>6, <2>1 DEF Owner, Owning
    <3>. QED  BY <1>1, <1>2, <2>1, <3>1 DEF OwnersInv
  <2>2. CASE u # t
    BY <1>1, <1>6, <2>2 DEF OwnersInv
  <2>. QED  BY <2>1, <2>2
<1>. QED  BY <1>1, <1>5, <1>6 DEF OwnersInv

LEMMA TodoBegins ==
    /\ <<"space">> \in Todos \cap UserTodos /\ Range(<<"space">>) \cap Owning = {}
    /\ DeleteTodo \in Todos \cap UserTodos /\ Range(DeleteTodo) \cap Owning = {}
    /\ <<"build", "store">> \in Todos \cap UserTodos
    /\ Range(<<"build", "store">>) \cap Owning = {}
    /\ <<"run", "count", "refresh">> \in Todos \cap UserTodos
    /\ <<"write", "refresh">> \in Todos
    /\ <<"erase", "refresh">> \in Todos /\ Range(<<"erase", "refresh">>) \cap Owning = {}
    /\ <<"schema", "ddl", "write", "refresh", "register", "count">> \in Todos
BY DEF Todos, UserTodos, DeleteTodo, Range, Owning

LEMMA RequestOwners ==
    ASSUME IndexTypeOK, MemoryIsSaved, OwnersInv, NEW t \in Threads, Request(t)
    PROVE  OwnersInv'
<1>1. Intel \in Graphs /\ Intel \notin UserGraphs /\ UserGraphs \subseteq Graphs
  BY CatalogAssumption DEF Graphs
<1>2. ASSUME NEW g \in UserGraphs, Create(t, g) PROVE OwnersInv'
  <2>1. DOMAIN disk' = DOMAIN disk \cup {g} /\ used' = used \cup {g} /\ rows' = rows
    BY <1>2 DEF Create, Saved, MemoryIsSaved
  <2>2. DOMAIN disk' \cap UserGraphs \subseteq used' /\ used \subseteq used'
    BY <2>1 DEF OwnersInv
  <2>. QED  BY <1>1, <1>2, <2>1, <2>2, BeginOwners, TodoBegins DEF Create
<1>3. ASSUME NEW g \in Graphs, Delete(t, g) \/ Search(t, g) PROVE OwnersInv'
  <2>1. UNCHANGED <<used, rows, disk>> /\ (g \in UserGraphs => g \in used)
    BY <1>3 DEF Delete, Search, MemoryIsSaved, OwnersInv
  <2>2. DOMAIN disk' \cap UserGraphs \subseteq used' /\ used \subseteq used'
    BY <2>1 DEF OwnersInv
  <2>. QED  BY <1>3, <2>1, <2>2, BeginOwners, TodoBegins DEF Delete, Search
<1>4. ASSUME NEW g \in Graphs, NEW l \in Loads, StartImport(t, g, l) PROVE OwnersInv'
  <2>1. /\ UNCHANGED <<rows, disk>> /\ used' = used \cup {l} /\ l \notin used
        /\ g \in UserGraphs => g \in used
    BY <1>4 DEF StartImport, MemoryIsSaved, OwnersInv
  <2>2. DOMAIN disk' \cap UserGraphs \subseteq used' /\ used \subseteq used' /\ l \in used'
    BY <2>1 DEF OwnersInv
  <2>. QED  BY <1>4, <2>1, <2>2, BeginOwners, TodoBegins DEF StartImport
<1>5. ASSUME NEW l \in Loads, Ingest(t, l) \/ Approve(t, l) PROVE OwnersInv'
  <2>1. UNCHANGED <<rows, disk>> /\ used' = used \cup {l} /\ l \notin used
    BY <1>5 DEF Ingest, Approve
  <2>2. DOMAIN disk' \cap UserGraphs \subseteq used' /\ used \subseteq used' /\ l \in used'
    BY <2>1 DEF OwnersInv
  <2>. QED  BY <1>1, <1>5, <2>1, <2>2, BeginOwners, TodoBegins DEF Ingest, Approve
<1>6. ASSUME NEW l \in Loads, Cleanup(t, l) PROVE OwnersInv'
  <2>1. UNCHANGED <<rows, disk, used>>
    BY <1>6 DEF Cleanup
  <2>2. DOMAIN disk' \cap UserGraphs \subseteq used' /\ used \subseteq used'
    BY <2>1 DEF OwnersInv
  <2>. QED  BY <1>1, <1>6, <2>1, <2>2, BeginOwners, TodoBegins DEF Cleanup
<1>. QED  BY <1>2, <1>3, <1>4, <1>5, <1>6 DEF Request

LEMMA InitOwners == Init => OwnersInv
<1>. SUFFICES ASSUME Init PROVE OwnersInv
  OBVIOUS
<1>1. Range(Idle.todo) = {} /\ Idle.g \notin UserGraphs
  BY CatalogAssumption DEF Idle, Range
<1>2. \A t \in Threads : thread[t] = Idle /\ ~Owner(t)
  BY <1>1 DEF Init, Owner
<1>3. DOMAIN disk \cap UserGraphs = {} /\ \A g \in Graphs : rows[g] = {}
  BY CatalogAssumption DEF Init
<1>. QED  BY <1>1, <1>2, <1>3 DEF OwnersInv

LEMMA NextOwners == IndexTypeOK /\ MemoryIsSaved /\ OwnersInv /\ [Next]_vars => OwnersInv'
<1>. SUFFICES ASSUME IndexTypeOK, MemoryIsSaved, OwnersInv, [Next]_vars PROVE OwnersInv'
  OBVIOUS
<1>1. CASE Restart
  <2>1. /\ thread' = [t \in Threads |-> Idle] /\ UNCHANGED <<rows, used>>
        /\ DOMAIN disk' \subseteq DOMAIN disk \cup {Intel}
    BY <1>1 DEF Restart, Saved, WithIntel
  <2>2. DOMAIN disk' \cap UserGraphs \subseteq used' /\ \A g \in Graphs : rows'[g] \subseteq used'
    BY <2>1, CatalogAssumption DEF OwnersInv
  <2>3. Range(Idle.todo) = {} /\ Idle.g \notin UserGraphs
    BY CatalogAssumption DEF Idle, Range
  <2>4. \A t \in Threads : thread'[t] = Idle /\ ~Owner(t)'
    BY <2>1, <2>3 DEF Owner
  <2>. QED  BY <2>2, <2>3, <2>4 DEF OwnersInv
<1>2. CASE UNCHANGED vars
  BY <1>2 DEF vars, OwnersInv, Owner
<1>. QED  BY <1>1, <1>2, StepOwners, RequestOwners DEF Next

\* The loads that are still to be counted for a graph.
Pending(g) == {l \in Loads : \E t \in Threads : Has(t, g, {"count"}) /\ thread[t].load = {l}}

\* No load is counted twice: what a graph counts and what it will count are
\* among the loads that were ever started.
BoundInv ==
    /\ DOMAIN memory \subseteq Graphs
    /\ \A g \in DOMAIN memory :
           memory[g] \in Nat /\ memory[g] + Cardinality(Pending(g)) <= Cardinality(Loads \cap used)

LEMMA StartedIsFinite ==
    /\ IsFiniteSet(Loads \cap used) /\ Cardinality(Loads \cap used) \in Nat
    /\ Cardinality(Loads \cap used) <= Cardinality(Loads)
BY CatalogAssumption, FS_Intersection, FS_CardinalityType

LEMMA PendingIsStarted ==
    ASSUME OwnersInv, NEW g
    PROVE  /\ Pending(g) \subseteq Loads \cap used /\ IsFiniteSet(Pending(g))
           /\ Cardinality(Pending(g)) \in Nat
           /\ Cardinality(Pending(g)) <= Cardinality(Loads \cap used)
<1>1. Pending(g) \subseteq Loads \cap used
  BY DEF OwnersInv, Pending, Has, Owner, Owning
<1>. QED  BY <1>1, StartedIsFinite, FS_Subset, FS_CardinalityType

\* A step leaves nothing to count that was not to be counted before.
LEMMA PendingFalls ==
    ASSUME IndexTypeOK, NEW t \in Threads, Step(t), NEW g
    PROVE  Pending(g)' \subseteq Pending(g)
<1>1. /\ thread[t].todo \in Todos \ {<<>>} /\ GoesOn(t)
      /\ \A u \in Threads : u # t => Undisturbed(u)
  BY StepGoesOn
<1>2. Has(t, g, {"count"})' => Has(t, g, {"count"}) /\ thread'[t].load = thread[t].load
  <2>1. CASE thread'[t] = Idle
    BY <2>1 DEF Idle, Has, Range
  <2>2. CASE thread'[t] # Idle
    BY <1>1, <2>2, StageFacts DEF GoesOn, Has
  <2>. QED  BY <2>1, <2>2
<1>. QED  BY <1>1, <1>2 DEF Undisturbed, Has, Pending

LEMMA StepBound ==
    ASSUME IndexTypeOK, MemoryIsSaved, OwnersInv, BoundInv, OwnersInv', NEW t \in Threads, Step(t)
    PROVE  BoundInv'
<1>1. used' = used
  BY StepKeepsNames
<1>2. \A g : /\ Cardinality(Pending(g)') \in Nat /\ Cardinality(Pending(g)) \in Nat
             /\ Cardinality(Pending(g)') <= Cardinality(Pending(g))
             /\ Cardinality(Pending(g)') <= Cardinality(Loads \cap used)
  <2>. SUFFICES ASSUME NEW g
                PROVE  /\ Cardinality(Pending(g)') \in Nat /\ Cardinality(Pending(g)) \in Nat
                       /\ Cardinality(Pending(g)') <= Cardinality(Pending(g))
                       /\ Cardinality(Pending(g)') <= Cardinality(Loads \cap used)
    OBVIOUS
  <2>1. IsFiniteSet(Pending(g)) /\ Cardinality(Pending(g)) \in Nat
        /\ Cardinality(Pending(g)) <= Cardinality(Loads \cap used)
    BY PendingIsStarted
  <2>2. IsFiniteSet(Pending(g)') /\ Cardinality(Pending(g)') <= Cardinality(Pending(g))
    BY <2>1, PendingFalls, FS_Subset
  <2>. QED  BY <2>1, <2>2, FS_CardinalityType, StartedIsFinite
<1>3. Cardinality(Loads \cap used) \in Nat
  BY StartedIsFinite
<1>. DEFINE Fits(g) == memory'[g] \in Nat
                       /\ memory'[g] + Cardinality(Pending(g)') <= Cardinality(Loads \cap used)
<1>f. ASSUME DOMAIN memory' \subseteq Graphs, \A g \in DOMAIN memory' : Fits(g) PROVE BoundInv'
  BY <1>1, <1>f DEF BoundInv
<1>g. ASSUME NEW g \in DOMAIN memory, memory'[g] = memory[g] PROVE Fits(g)
  <2>1. memory[g] \in Nat /\ memory[g] + Cardinality(Pending(g)) <= Cardinality(Loads \cap used)
    BY DEF BoundInv
  <2>2. /\ Cardinality(Pending(g)') \in Nat /\ Cardinality(Pending(g)) \in Nat
        /\ Cardinality(Pending(g)') <= Cardinality(Pending(g))
    BY <1>2
  <2>. QED  BY <1>3, <1>g, <2>1, <2>2
<1>4. CASE memory' = memory
  BY <1>4, <1>f, <1>g DEF BoundInv
<1>5. CASE Unregister(t)
  BY <1>5, <1>f, <1>g DEF Unregister, Without, Saved, BoundInv
<1>6. CASE Register(t)
  <2>1. CASE Intel \in DOMAIN memory
    BY <1>4, <1>6, <2>1 DEF Register
  <2>2. CASE Intel \notin DOMAIN memory
    <3>1. memory' = WithIntel(memory)
      BY <1>6, <2>2 DEF Register, Saved
    <3>2. Fits(Intel)
      <4>1. memory'[Intel] = 0
        BY <2>2, <3>1 DEF WithIntel
      <4>2. /\ Cardinality(Pending(Intel)') \in Nat
            /\ Cardinality(Pending(Intel)') <= Cardinality(Loads \cap used)
        BY <1>2
      <4>. QED  BY <4>1, <4>2
    <3>3. DOMAIN memory' = DOMAIN memory \cup {Intel}
          /\ \A g \in DOMAIN memory : memory'[g] = memory[g]
      BY <3>1 DEF WithIntel
    <3>. HIDE DEF Fits
    <3>. QED  BY <1>f, <1>g, <3>2, <3>3 DEF BoundInv, Graphs
  <2>. QED  BY <2>1, <2>2
<1>7. CASE Count(t) /\ thread[t].g \in DOMAIN memory
  <2>0. thread[t].todo \in Todos \ {<<>>} /\ GoesOn(t)
    BY StepGoesOn
  <2>3. PICK h : h = thread[t].g
    OBVIOUS
  <2>1. /\ Has(t, h, {"count"}) /\ Owner(t) /\ "count" \notin Range(Tail(thread[t].todo))
    BY <1>7, <2>0, <2>3, StageFacts DEF Count, Doing, Has, Owner, Owning
  <2>2. PICK l \in Loads \cap used : thread[t].load = {l}
    BY <2>1 DEF OwnersInv
  <2>4. l \in Pending(h)
    BY <2>1, <2>2 DEF Pending
  <2>5. ~Has(t, h, {"count"})'
    <3>1. CASE thread'[t] = Idle
      BY <3>1 DEF Idle, Has, Range
    <3>2. CASE thread'[t] # Idle
      BY <1>7, <2>0, <2>1, <3>2 DEF GoesOn, Has, Count, Doing
    <3>. QED  BY <3>1, <3>2
  <2>6. \A u \in Threads : u # t /\ Has(u, h, {"count"})' => thread'[u].load # {l}
    <3>. SUFFICES ASSUME NEW u \in Threads, u # t, Has(u, h, {"count"})' PROVE thread'[u].load # {l}
      OBVIOUS
    <3>1. Undisturbed(u)
      BY StepGoesOn
    <3>2. Owner(u)
      BY <3>1 DEF Undisturbed, Has, Owner, Owning
    <3>. QED  BY <2>1, <2>2, <3>1, <3>2 DEF Undisturbed, OwnersInv
  <2>7. l \notin Pending(h)'
    BY <2>5, <2>6 DEF Pending
  <2>8. Cardinality(Pending(h)') <= Cardinality(Pending(h)) - 1
    <3>1. IsFiniteSet(Pending(h) \ {l})
          /\ Cardinality(Pending(h) \ {l}) = Cardinality(Pending(h)) - 1
      BY <2>4, PendingIsStarted, FS_RemoveElement
    <3>2. Pending(h)' \subseteq Pending(h) \ {l}
      BY <2>7, PendingFalls
    <3>. QED  BY <3>1, <3>2, FS_Subset
  <2>9. memory' = [memory EXCEPT ![h] = @ + 1] /\ h \in DOMAIN memory
    BY <1>7, <2>3 DEF Count, Counted, Saved
  <2>10. Fits(h)
    <3>1. memory[h] \in Nat /\ memory[h] + Cardinality(Pending(h)) <= Cardinality(Loads \cap used)
      BY <2>9 DEF BoundInv
    <3>2. memory'[h] = memory[h] + 1
      BY <2>9
    <3>3. Cardinality(Pending(h)') \in Nat /\ Cardinality(Pending(h)) \in Nat
      BY <1>2
    <3>. QED  BY <1>3, <2>8, <3>1, <3>2, <3>3
  <2>11. /\ DOMAIN memory' = DOMAIN memory
         /\ \A g \in DOMAIN memory : g # h => memory'[g] = memory[g]
    BY <2>9
  <2>. HIDE DEF Fits
  <2>. QED  BY <1>f, <1>g, <2>10, <2>11 DEF BoundInv
<1>8. memory' = memory \/ Unregister(t) \/ Register(t) \/ (Count(t) /\ thread[t].g \in DOMAIN memory)
  BY DEF Step, MakeSpace, Drop, Close, Forget, Build, Store, RunImport, Refresh, CheckSchema,
         EnsureSchema, Write, Erase, Count, Counted
<1>. QED  BY <1>4, <1>5, <1>6, <1>7, <1>8

\* A request draws a fresh load, or leaves nothing more to count than before.
LEMMA RequestBound ==
    ASSUME IndexTypeOK, MemoryIsSaved, OwnersInv, BoundInv, OwnersInv', NEW t \in Threads,
           Request(t)
    PROVE  BoundInv'
<1>1. ASSUME NEW L \in SUBSET Loads, L \cap used = {}, Loads \cap used' = (Loads \cap used) \cup L,
             L = {} \/ \E l : L = {l},
             \A g : Pending(g)' \subseteq Pending(g) \cup L,
             DOMAIN memory' \subseteq Graphs,
             \A g \in DOMAIN memory' :
                 \/ g \in DOMAIN memory /\ memory'[g] = memory[g]
                 \/ memory'[g] = 0
      PROVE  BoundInv'
  <2>1. /\ Cardinality(Loads \cap used') = Cardinality(Loads \cap used) + Cardinality(L)
        /\ Cardinality(L) \in Nat
    <3>1. CASE L = {}
      BY <1>1, <3>1, FS_EmptySet, StartedIsFinite
    <3>2. ASSUME NEW l, L = {l}
          PROVE  /\ Cardinality(Loads \cap used') = Cardinality(Loads \cap used) + Cardinality(L)
                 /\ Cardinality(L) \in Nat
      <4>1. Cardinality(L) = 1
        BY <3>2, FS_Singleton
      <4>2. Cardinality((Loads \cap used) \cup {l}) = Cardinality(Loads \cap used) + 1
        BY <1>1, <3>2, FS_AddElement, StartedIsFinite
      <4>. QED  BY <1>1, <3>2, <4>1, <4>2
    <3>. QED  BY <1>1, <3>1, <3>2
  <2>2. ASSUME NEW g \in DOMAIN memory'
        PROVE  /\ memory'[g] \in Nat
               /\ memory'[g] + Cardinality(Pending(g)') <= Cardinality(Loads \cap used')
    <3>1. /\ IsFiniteSet(Pending(g)) /\ Cardinality(Pending(g)) \in Nat
          /\ Cardinality(Pending(g)) <= Cardinality(Loads \cap used)
      BY PendingIsStarted
    <3>2. IsFiniteSet(L) /\ Cardinality(L) \in Nat
      BY CatalogAssumption, FS_Subset, FS_CardinalityType
    <3>3. /\ IsFiniteSet(Pending(g) \cup L)
          /\ Cardinality(Pending(g) \cup L) <= Cardinality(Pending(g)) + Cardinality(L)
          /\ Cardinality(Pending(g) \cup L) \in Nat
      <4>1. /\ IsFiniteSet(Pending(g) \cup L)
            /\ Cardinality(Pending(g) \cup L)
                  = Cardinality(Pending(g)) + Cardinality(L) - Cardinality(Pending(g) \cap L)
        BY <3>1, <3>2, FS_Union
      <4>2. Cardinality(Pending(g) \cap L) \in Nat
        BY <3>1, FS_Intersection, FS_CardinalityType
      <4>3. Cardinality(Pending(g) \cup L) \in Nat
        BY <4>1, FS_CardinalityType
      <4>. QED  BY <3>1, <3>2, <4>1, <4>2, <4>3
    <3>4. /\ Cardinality(Pending(g)') \in Nat
          /\ Cardinality(Pending(g)') <= Cardinality(Pending(g) \cup L)
      BY <1>1, <3>3, FS_Subset, FS_CardinalityType
    <3>5. Cardinality(Loads \cap used) \in Nat
      BY StartedIsFinite
    <3>6. CASE g \in DOMAIN memory /\ memory'[g] = memory[g]
      <4>1. memory[g] \in Nat /\ memory[g] + Cardinality(Pending(g)) <= Cardinality(Loads \cap used)
        BY <3>6 DEF BoundInv
      <4>. QED  BY <2>1, <3>1, <3>3, <3>4, <3>5, <3>6, <4>1
    <3>7. CASE memory'[g] = 0
      BY <2>1, <3>1, <3>3, <3>4, <3>5, <3>7
    <3>. QED  BY <1>1, <3>6, <3>7
  <2>. QED  BY <1>1, <2>2 DEF BoundInv
<1>2. ASSUME NEW todo, NEW g, NEW load, NEW client, Begin(t, todo, g, load, client), NEW h
      PROVE  /\ "count" \notin Range(todo) => Pending(h)' \subseteq Pending(h)
             /\ Pending(h)' \subseteq Pending(h) \cup load
  <2>1. /\ thread'[t].todo = todo /\ thread'[t].load = load
        /\ \A u \in Threads : u # t => thread'[u] = thread[u]
    BY <1>2, Begins
  <2>. QED  BY <2>1 DEF Pending, Has
<1>3. /\ "count" \notin Range(<<"space">>) /\ "count" \notin Range(DeleteTodo)
      /\ "count" \notin Range(<<"build", "store">>) /\ "count" \notin Range(<<"write", "refresh">>)
      /\ "count" \notin Range(<<"erase", "refresh">>)
  BY DEF Range, DeleteTodo
<1>4. ASSUME NEW g \in UserGraphs, Create(t, g) PROVE BoundInv'
  <2>1. \A h : Pending(h)' \subseteq Pending(h) \cup {}
    BY <1>2, <1>3, <1>4 DEF Create
  <2>2. used' = used \cup {g} /\ memory' = [h \in DOMAIN memory \cup {g} |-> IF h = g THEN 0 ELSE memory[h]]
    BY <1>4 DEF Create, Saved
  <2>3. CASE g \notin Loads
    <3>1. Loads \cap used' = (Loads \cap used) \cup {}
      BY <2>2, <2>3
    <3>2. {} \in SUBSET Loads /\ {} \cap used = {}
      OBVIOUS
    <3>3. /\ DOMAIN memory' \subseteq Graphs
          /\ \A h \in DOMAIN memory' :
                 (h \in DOMAIN memory /\ memory'[h] = memory[h]) \/ memory'[h] = 0
      BY <2>2 DEF BoundInv, Graphs
    <3>. QED  BY <1>1, <2>1, <3>1, <3>2, <3>3
  <2>4. CASE g \in Loads
    <3>1. /\ Loads \cap used' = (Loads \cap used) \cup {g} /\ {g} \cap used = {}
          /\ {g} \in SUBSET Loads /\ \A h : Pending(h)' \subseteq Pending(h) \cup {g}
      BY <1>4, <2>1, <2>2, <2>4 DEF Create
    <3>. QED  BY <1>1, <2>2, <3>1 DEF BoundInv, Graphs
  <2>. QED  BY <2>3, <2>4
<1>5. CASE \/ \E g \in Graphs : Delete(t, g) \/ Search(t, g)
           \/ \E l \in Loads : Cleanup(t, l)
  <2>1. \A h : Pending(h)' \subseteq Pending(h) \cup {}
    BY <1>2, <1>3, <1>5 DEF Delete, Search, Cleanup
  <2>2. used' = used /\ memory' = memory
    BY <1>5 DEF Delete, Search, Cleanup
  <2>3. {} \in SUBSET Loads /\ {} \cap used = {} /\ Loads \cap used' = (Loads \cap used) \cup {}
    BY <2>2
  <2>. QED  BY <1>1, <2>1, <2>2, <2>3 DEF BoundInv
<1>6. ASSUME NEW l \in Loads,
             (\E g \in Graphs : StartImport(t, g, l)) \/ Ingest(t, l) \/ Approve(t, l)
      PROVE  BoundInv'
  <2>1. \A h : Pending(h)' \subseteq Pending(h) \cup {l}
    BY <1>2, <1>6 DEF StartImport, Ingest, Approve
  <2>2. used' = used \cup {l} /\ memory' = memory /\ l \notin used
    BY <1>6 DEF StartImport, Ingest, Approve
  <2>3. Loads \cap used' = (Loads \cap used) \cup {l} /\ {l} \cap used = {} /\ {l} \in SUBSET Loads
    BY <2>2
  <2>. QED  BY <1>1, <2>1, <2>2, <2>3 DEF BoundInv
<1>. QED  BY <1>4, <1>5, <1>6 DEF Request

\* A restart forgets what was to be counted.
LEMMA NextBound ==
    IndexTypeOK /\ MemoryIsSaved /\ OwnersInv /\ BoundInv /\ OwnersInv' /\ [Next]_vars => BoundInv'
<1>. SUFFICES ASSUME IndexTypeOK, MemoryIsSaved, OwnersInv, BoundInv, OwnersInv', [Next]_vars
              PROVE  BoundInv'
  OBVIOUS
<1>1. CASE Restart
  <2>1. \A g : Pending(g)' = {}
    BY <1>1 DEF Restart, Idle, Pending, Has, Range
  <2>2. /\ memory' \in {disk, WithIntel(disk)} /\ used' = used
    BY <1>1 DEF Restart, Saved
  <2>3. /\ DOMAIN memory' \subseteq DOMAIN memory \cup {Intel}
        /\ \A g \in DOMAIN memory' : memory'[g] = 0 \/ (g \in DOMAIN memory /\ memory'[g] = memory[g])
    BY <2>2 DEF WithIntel, MemoryIsSaved
  <2>4. ASSUME NEW g \in DOMAIN memory'
        PROVE  /\ memory'[g] \in Nat
               /\ memory'[g] + Cardinality(Pending(g)') <= Cardinality(Loads \cap used')
    <3>1. Cardinality(Pending(g)') = 0 /\ Cardinality(Loads \cap used) \in Nat
      BY <2>1, FS_EmptySet, StartedIsFinite
    <3>2. CASE memory'[g] = 0
      BY <2>2, <3>1, <3>2
    <3>3. CASE g \in DOMAIN memory /\ memory'[g] = memory[g]
      <4>1. memory[g] \in Nat /\ memory[g] + Cardinality(Pending(g)) <= Cardinality(Loads \cap used)
        BY <3>3 DEF BoundInv
      <4>2. Cardinality(Pending(g)) \in Nat
        BY PendingIsStarted
      <4>. QED  BY <2>2, <3>1, <3>3, <4>1, <4>2
    <3>. QED  BY <2>3, <3>2, <3>3
  <2>. QED  BY <2>3, <2>4 DEF BoundInv, Graphs
<1>2. CASE UNCHANGED vars
  BY <1>2 DEF vars, BoundInv, Pending, Has
<1>. QED  BY <1>1, <1>2, StepBound, RequestBound DEF Next

\* What creations and deletions, past, cut or under way, say of the space of
\* a user's graph: the inductive strengthening of RegisteredHasSpace and
\* SpaceIsRegistered.
SpaceOf(g) ==
    /\ space[g] # "none" => g \in DOMAIN disk \cup crossed
    /\ g \in DOMAIN disk /\ space[g] = "none" =>
           g \in cut \/ \E t \in Threads : Making(t, g) \/ Dropped(t, g)
    /\ \A t \in Threads : Making(t, g) =>
           /\ space[g] = "none" /\ g \in DOMAIN disk \cup crossed
           /\ \A u \in Threads : Making(u, g) => u = t
           /\ \A u \in Threads : Deleting(u, g) => g \in crossed
    /\ \A t \in Threads : Dropped(t, g) => space[g] = "none" \/ g \in crossed

SpaceInv ==
    /\ DOMAIN space = Graphs /\ crossed \cap UserGraphs \subseteq used
    /\ \A g \in UserGraphs : SpaceOf(g)

\* Where creations, deletions and imports come from, and where they go on to.
LEMMA StageOrder ==
    ASSUME NEW todo \in Todos, todo # <<>>
    PROVE  /\ Tail(todo) \notin {<<"space">>, DeleteTodo}
           /\ Tail(todo) \in AfterDrop => todo \in AfterDrop \cup {DeleteTodo}
           /\ Tail(todo) = <<"count", "refresh">> => todo = <<"run", "count", "refresh">>
           /\ Head(todo) = "schema" =>
                  Tail(Tail(todo)) \notin AfterDrop \cup {<<"space">>, DeleteTodo, <<"count", "refresh">>}
           /\ todo \in AfterDrop /\ Head(todo) # "unregister" => Tail(todo) \in AfterDrop
           /\ Head(todo) = "unregister" <=> todo = <<"unregister">>
           /\ Head(todo) = "space" <=> todo = <<"space">>
           /\ Head(todo) = "drop" <=> todo = DeleteTodo
           /\ Head(todo) = "run" <=> todo = <<"run", "count", "refresh">>
           /\ Tail(DeleteTodo) \in AfterDrop
<1>. USE DEF Todos, AfterDrop, DeleteTodo
<1>1. CASE todo \in {<<"space">>, <<"drop", "close", "forget", "unregister">>,
                     <<"close", "forget", "unregister">>, <<"forget", "unregister">>,
                     <<"unregister">>}
  <2>1. CASE todo = <<"space">>
    BY <2>1
  <2>2. CASE todo = <<"drop", "close", "forget", "unregister">>
    BY <2>2
  <2>3. CASE todo = <<"close", "forget", "unregister">>
    BY <2>3
  <2>4. CASE todo = <<"forget", "unregister">>
    BY <2>4
  <2>5. CASE todo = <<"unregister">>
    BY <2>5
  <2>. QED  BY <1>1, <2>1, <2>2, <2>3, <2>4, <2>5
<1>2. CASE todo \in {<<"build", "store">>, <<"store">>, <<"run", "count", "refresh">>,
                     <<"count", "refresh">>, <<"refresh">>}
  <2>1. CASE todo = <<"build", "store">>
    BY <2>1
  <2>2. CASE todo = <<"store">>
    BY <2>2
  <2>3. CASE todo = <<"run", "count", "refresh">>
    BY <2>3
  <2>4. CASE todo = <<"count", "refresh">>
    BY <2>4
  <2>5. CASE todo = <<"refresh">>
    BY <2>5
  <2>. QED  BY <1>2, <2>1, <2>2, <2>3, <2>4, <2>5
<1>3. CASE todo = <<"schema", "ddl", "write", "refresh", "register", "count">>
  BY <1>3
<1>4. CASE todo = <<"ddl", "write", "refresh", "register", "count">>
  BY <1>4
<1>5. CASE todo = <<"write", "refresh", "register", "count">>
  BY <1>5
<1>6. CASE todo = <<"refresh", "register", "count">>
  BY <1>6
<1>7. CASE todo = <<"register", "count">>
  BY <1>7
<1>8. CASE todo = <<"count">>
  BY <1>8
<1>9. CASE todo = <<"write", "refresh">>
  BY <1>9
<1>10. CASE todo = <<"erase", "refresh">>
  BY <1>10
<1>. QED  BY <1>1, <1>2, <1>3, <1>4, <1>5, <1>6, <1>7, <1>8, <1>9, <1>10

\* How a step of a thread moves creations and deletions on.
LEMMA StepStages ==
    ASSUME IndexTypeOK, NEW t \in Threads, Step(t), NEW g \in UserGraphs
    PROVE  /\ ~Making(t, g)'
           /\ Making(t, g) => MakeSpace(t)
           /\ Dropped(t, g)' => Dropped(t, g) \/ (thread[t].g = g /\ Drop(t))
           /\ Dropped(t, g) /\ ~Unregister(t) => Dropped(t, g)'
           /\ Deleting(t, g)' => Deleting(t, g)
           /\ \A u \in Threads : u # t => /\ Making(u, g)' <=> Making(u, g)
                                          /\ Dropped(u, g)' <=> Dropped(u, g)
                                          /\ Deleting(u, g)' <=> Deleting(u, g)
<1>1. /\ thread[t] \in ThreadRec /\ thread[t].todo \in Todos \ {<<>>}
      /\ GoesOn(t)
      /\ \A u \in Threads : u # t => Undisturbed(u)
  BY StepGoesOn
<1>2. g # Intel
  BY CatalogAssumption
<1>3. \A u \in Threads : u # t => /\ Making(u, g)' <=> Making(u, g)
                                  /\ Dropped(u, g)' <=> Dropped(u, g)
                                  /\ Deleting(u, g)' <=> Deleting(u, g)
  BY <1>1 DEF Undisturbed, Making, Dropped, Deleting
<1>4. ~Making(t, g)' /\ (Deleting(t, g)' => Deleting(t, g)) /\ ~(thread'[t].todo = DeleteTodo /\ thread'[t].g = g)
  <2>1. CASE thread'[t] = Idle
    BY <1>2, <2>1 DEF Idle, Making, Dropped, Deleting
  <2>2. CASE thread'[t] # Idle
    <3>1. /\ thread'[t].g = thread[t].g
          /\ thread'[t].todo \notin {<<"space">>, DeleteTodo}
          /\ thread'[t].todo \in AfterDrop => thread[t].todo \in AfterDrop \cup {DeleteTodo}
      <4>1. CASE thread'[t].todo = Tail(thread[t].todo)
        BY <1>1, <2>2, <4>1, StageOrder DEF GoesOn
      <4>2. CASE /\ Head(thread[t].todo) = "schema"
                 /\ thread'[t].todo = Tail(Tail(thread[t].todo))
        <5>1. thread'[t].todo \notin AfterDrop \cup {<<"space">>, DeleteTodo}
          BY <1>1, <4>2, StageOrder
        <5>. QED  BY <1>1, <2>2, <5>1 DEF GoesOn
      <4>. QED  BY <1>1, <2>2, <4>1, <4>2 DEF GoesOn
    <3>. QED  BY <3>1 DEF Making, Dropped, Deleting
  <2>. QED  BY <2>1, <2>2
<1>5. Making(t, g) => MakeSpace(t)
  BY DEF Making, Step, MakeSpace, Drop, Close, Forget, Unregister, Build, Store, RunImport, Count,
         Refresh, CheckSchema, EnsureSchema, Write, Erase, Register, Doing
<1>6. thread[t].todo = DeleteTodo => Drop(t)
  BY DEF DeleteTodo, Step, MakeSpace, Drop, Close, Forget, Unregister, Build, Store, RunImport,
         Count, Refresh, CheckSchema, EnsureSchema, Write, Erase, Register, Doing
<1>7. Dropped(t, g)' => Dropped(t, g) \/ (thread[t].g = g /\ Drop(t))
  <2>1. CASE thread'[t] = Idle
    BY <1>2, <2>1 DEF Idle, Dropped
  <2>2. CASE thread'[t] # Idle
    BY <1>1, <1>6, <2>2, StageOrder DEF GoesOn, Dropped
  <2>. QED  BY <2>1, <2>2
<1>8. Dropped(t, g) /\ ~Unregister(t) => Dropped(t, g)'
  <2>. SUFFICES ASSUME Dropped(t, g), ~Unregister(t) PROVE Dropped(t, g)'
    OBVIOUS
  <2>1. Head(thread[t].todo) \in {"close", "forget", "unregister"}
    BY DEF Dropped, AfterDrop
  <2>2. Close(t) \/ Forget(t)
    BY <2>1 DEF Step, MakeSpace, Drop, Close, Forget, Unregister, Build, Store, RunImport, Count,
         Refresh, CheckSchema, EnsureSchema, Write, Erase, Register, Doing
  <2>3. thread'[t] = After(t)
    BY <2>2 DEF Close, Forget, Proceed, IndexTypeOK
  <2>4. Head(thread[t].todo) # "unregister"
    BY <2>2 DEF Close, Forget, Doing
  <2>5. Tail(thread[t].todo) \in AfterDrop
    BY <1>1, <2>4, StageOrder DEF Dropped
  <2>6. Tail(thread[t].todo) # <<>>
    BY <2>5 DEF AfterDrop
  <2>. QED  BY <1>1, <2>3, <2>5, <2>6 DEF After, ThreadRec, Dropped
<1>. QED  BY <1>3, <1>4, <1>5, <1>7, <1>8

LEMMA MakeSpaceKeeps ==
    ASSUME IndexTypeOK, SpaceInv, NEW t \in Threads, MakeSpace(t), NEW g \in UserGraphs
    PROVE  SpaceOf(g)'
<1>1. SpaceOf(g) /\ g \in Graphs /\ DOMAIN space = Graphs
  BY DEF SpaceInv, Graphs
<1>2. Step(t)
  BY DEF Step
<1>3. /\ ~Making(t, g)' /\ (Dropped(t, g)' => Dropped(t, g)) /\ (Dropped(t, g) => Dropped(t, g)')
      /\ Deleting(t, g)' => Deleting(t, g)
      /\ \A u \in Threads : u # t => /\ Making(u, g)' <=> Making(u, g)
                                     /\ Dropped(u, g)' <=> Dropped(u, g)
                                     /\ Deleting(u, g)' <=> Deleting(u, g)
  <2>1. ~Unregister(t) /\ ~Drop(t)
    BY DEF MakeSpace, Unregister, Drop, Doing
  <2>. QED  BY <1>2, <2>1, StepStages
<1>4. UNCHANGED <<disk, crossed>>
  BY DEF MakeSpace
<1>5. CASE thread[t].g # g
  <2>1. space'[g] = space[g] /\ (g \in cut' <=> g \in cut)
    BY <1>1, <1>5 DEF MakeSpace
  <2>2. ~Making(t, g)
    BY <1>5 DEF Making
  <2>. QED  BY <1>1, <1>3, <1>4, <2>1, <2>2 DEF SpaceOf
<1>6. CASE thread[t].g = g
  <2>1. Making(t, g)
    <3>1. thread[t].todo \in Todos /\ thread[t].todo # <<>> /\ Head(thread[t].todo) = "space"
      BY DEF MakeSpace, Doing, IndexTypeOK, ThreadRec
    <3>. QED  BY <1>6, <3>1, StageOrder DEF Making
  <2>2. /\ g \in DOMAIN disk \cup crossed /\ space[g] = "none"
        /\ \A u \in Threads : ~Making(u, g)'
        /\ \A u \in Threads : Deleting(u, g) => g \in crossed
    BY <1>1, <1>3, <2>1 DEF SpaceOf
  <2>3. space'[g] # "none" \/ g \in cut'
    BY <1>1, <1>6 DEF MakeSpace
  <2>4. \A u \in Threads : Dropped(u, g)' => g \in crossed'
    BY <1>3, <1>4, <2>2 DEF Deleting
  <2>. QED  BY <1>4, <2>2, <2>3, <2>4 DEF SpaceOf
<1>. QED  BY <1>5, <1>6

LEMMA DropKeeps ==
    ASSUME IndexTypeOK, SpaceInv, NEW t \in Threads, Drop(t), NEW g \in UserGraphs
    PROVE  SpaceOf(g)'
<1>1. SpaceOf(g) /\ g \in Graphs /\ DOMAIN space = Graphs
  BY DEF SpaceInv, Graphs
<1>2. Step(t) /\ ~MakeSpace(t) /\ ~Unregister(t)
  BY DEF Step, Drop, MakeSpace, Unregister, Doing
<1>3. /\ ~Making(t, g) /\ ~Making(t, g)'
      /\ Dropped(t, g) => Dropped(t, g)'
      /\ Dropped(t, g)' => Dropped(t, g) \/ thread[t].g = g
      /\ Deleting(t, g)' => Deleting(t, g)
      /\ \A u \in Threads : u # t => /\ Making(u, g)' <=> Making(u, g)
                                     /\ Dropped(u, g)' <=> Dropped(u, g)
                                     /\ Deleting(u, g)' <=> Deleting(u, g)
  BY <1>2, StepStages
<1>4. UNCHANGED <<disk, crossed, cut>>
  BY DEF Drop
<1>5. CASE thread[t].g # g
  <2>1. space'[g] = space[g]
    BY <1>1, <1>5 DEF Drop
  <2>. QED  BY <1>1, <1>3, <1>4, <1>5, <2>1 DEF SpaceOf
<1>6. CASE thread[t].g = g /\ space' = space /\ Abort(t)
  <2>1. ~Dropped(t, g)'
    BY <1>6, CatalogAssumption DEF Abort, Idle, Dropped, IndexTypeOK
  <2>. QED  BY <1>1, <1>3, <1>4, <1>6, <2>1 DEF SpaceOf
<1>7. CASE thread[t].g = g /\ space' = [space EXCEPT ![thread[t].g] = "none"] /\ Proceed(t)
  <2>1. space'[g] = "none"
    BY <1>1, <1>7
  <2>2. Dropped(t, g)'
    <3>1. thread[t] \in ThreadRec /\ thread[t].todo = DeleteTodo
      BY StageOrder DEF Drop, Doing, IndexTypeOK, ThreadRec
    <3>2. Tail(thread[t].todo) \in AfterDrop /\ Tail(thread[t].todo) # <<>>
      BY <3>1 DEF DeleteTodo, AfterDrop
    <3>3. thread'[t] = After(t)
      BY <1>7 DEF Proceed, IndexTypeOK
    <3>. QED  BY <1>7, <3>1, <3>2, <3>3 DEF After, ThreadRec, Dropped
  <2>. QED  BY <1>1, <1>3, <1>4, <2>1, <2>2 DEF SpaceOf
<1>. QED  BY <1>5, <1>6, <1>7 DEF Drop

LEMMA UnregisterKeeps ==
    ASSUME IndexTypeOK, MemoryIsSaved, SpaceInv, NEW t \in Threads, Unregister(t),
           NEW g \in UserGraphs
    PROVE  SpaceOf(g)'
<1>1. SpaceOf(g)
  BY DEF SpaceInv
<1>2. Step(t) /\ ~MakeSpace(t) /\ ~Drop(t)
  BY DEF Step, Drop, MakeSpace, Unregister, Doing
<1>3. /\ ~Making(t, g) /\ ~Making(t, g)'
      /\ Dropped(t, g)' => Dropped(t, g)
      /\ Deleting(t, g)' => Deleting(t, g)
      /\ \A u \in Threads : u # t => /\ Making(u, g)' <=> Making(u, g)
                                     /\ Dropped(u, g)' <=> Dropped(u, g)
                                     /\ Deleting(u, g)' <=> Deleting(u, g)
  BY <1>2, StepStages
<1>4. /\ UNCHANGED <<space, crossed, cut>>
      /\ DOMAIN disk' = DOMAIN disk \ {thread[t].g}
  BY DEF Unregister, Without, Saved, MemoryIsSaved
<1>5. CASE thread[t].g # g
  <2>1. ~Dropped(t, g) /\ (g \in DOMAIN disk' <=> g \in DOMAIN disk)
    BY <1>4, <1>5 DEF Dropped
  <2>. QED  BY <1>1, <1>3, <1>4, <2>1 DEF SpaceOf
<1>6. CASE thread[t].g = g
  <2>1. Dropped(t, g) /\ g \notin DOMAIN disk'
    <3>1. thread[t].todo = <<"unregister">>
      BY StageOrder DEF Unregister, Doing, IndexTypeOK, ThreadRec
    <3>. QED  BY <1>4, <1>6, <3>1 DEF Dropped, AfterDrop
  <2>2. /\ space[g] = "none" \/ g \in crossed
        /\ \A u \in Threads : Making(u, g) => g \in crossed
    BY <1>1, <2>1 DEF SpaceOf, Deleting
  <2>. QED  BY <1>1, <1>3, <1>4, <2>1, <2>2 DEF SpaceOf
<1>. QED  BY <1>5, <1>6

LEMMA StepSpace ==
    ASSUME IndexTypeOK, MemoryIsSaved, SpaceInv, NEW t \in Threads, Step(t)
    PROVE  SpaceInv'
<1>1. DOMAIN space' = Graphs
  BY DEF SpaceInv, Step, MakeSpace, Drop, Close, Forget, Unregister, Build, Store, RunImport, Count,
         Refresh, CheckSchema, EnsureSchema, Write, Erase, Register
<1>2. crossed' = crossed /\ used' = used
  BY DEF Step, MakeSpace, Drop, Close, Forget, Unregister, Build, Store, RunImport, Count,
         Refresh, CheckSchema, EnsureSchema, Write, Erase, Register
<1>3. CASE MakeSpace(t) \/ Drop(t) \/ Unregister(t)
  BY <1>1, <1>2, <1>3, MakeSpaceKeeps, DropKeeps, UnregisterKeeps DEF SpaceInv
<1>4. ASSUME ~MakeSpace(t), ~Drop(t), ~Unregister(t), NEW g \in UserGraphs PROVE SpaceOf(g)'
  <2>1. SpaceOf(g) /\ g # Intel /\ g \in Graphs /\ DOMAIN space = Graphs
    BY CatalogAssumption DEF SpaceInv, Graphs
  <2>2. cut' = cut /\ space'[g] = space[g]
    <3>1. CASE \/ Close(t) \/ Forget(t) \/ Build(t) \/ Store(t) \/ RunImport(t) \/ Refresh(t)
               \/ Write(t) \/ Erase(t) \/ Count(t) \/ Register(t)
      BY <3>1 DEF Close, Forget, Build, Store, RunImport, Refresh, Write, Erase, Count, Register
    <3>2. CASE CheckSchema(t)
      BY <2>1, <3>2 DEF CheckSchema
    <3>3. CASE EnsureSchema(t)
      BY <2>1, <3>3 DEF EnsureSchema
    <3>. QED  BY <1>4, <3>1, <3>2, <3>3 DEF Step
  <2>3. g \in DOMAIN disk' <=> g \in DOMAIN disk
    <3>1. CASE \/ Close(t) \/ Forget(t) \/ Build(t) \/ Store(t) \/ RunImport(t) \/ Refresh(t)
               \/ Write(t) \/ Erase(t) \/ CheckSchema(t) \/ EnsureSchema(t)
      BY <3>1 DEF Close, Forget, Build, Store, RunImport, Refresh, Write, Erase, CheckSchema,
                  EnsureSchema
    <3>2. CASE Count(t)
      BY <3>2 DEF Count, Counted, Saved, MemoryIsSaved
    <3>3. CASE Register(t)
      BY <2>1, <3>3 DEF Register, WithIntel, Saved, MemoryIsSaved
    <3>. QED  BY <1>4, <3>1, <3>2, <3>3 DEF Step
  <2>4. \A u \in Threads : /\ Making(u, g)' <=> Making(u, g)
                           /\ Dropped(u, g)' <=> Dropped(u, g)
                           /\ Deleting(u, g)' => Deleting(u, g)
    BY <1>4, StepStages
  <2>. QED  BY <1>2, <2>1, <2>2, <2>3, <2>4 DEF SpaceOf
<1>. QED  BY <1>1, <1>2, <1>3, <1>4 DEF SpaceInv

\* A request may begin to make a graph nobody had, or to delete one.
LEMMA RequestSpace ==
    ASSUME IndexTypeOK, MemoryIsSaved, OwnersInv, SpaceInv, NEW t \in Threads, Request(t)
    PROVE  SpaceInv'
<1>1. space' = space /\ cut' = cut /\ used \subseteq used'
  BY DEF Request, Create, Delete, Search, StartImport, Ingest, Approve, Cleanup
<1>2. ASSUME NEW todo, NEW g, NEW load, NEW client, Begin(t, todo, g, load, client), g \in Graphs,
             todo \notin AfterDrop, NEW h \in UserGraphs
      PROVE  /\ ~Making(t, h) /\ ~Dropped(t, h) /\ ~Deleting(t, h) /\ ~Dropped(t, h)'
             /\ Making(t, h)' => todo = <<"space">> /\ h = g
             /\ Deleting(t, h)' => todo = DeleteTodo /\ h = g
             /\ \A u \in Threads : u # t => /\ Making(u, h)' <=> Making(u, h)
                                            /\ Dropped(u, h)' <=> Dropped(u, h)
                                            /\ Deleting(u, h)' <=> Deleting(u, h)
  <2>1. /\ thread[t].todo = <<>>
        /\ thread'[t].todo = todo /\ thread'[t].g = g
        /\ \A u \in Threads : u # t => thread'[u] = thread[u]
    BY <1>2, Begins
  <2>2. <<>> \notin AfterDrop \cup {<<"space">>, DeleteTodo}
    BY DEF AfterDrop, DeleteTodo
  <2>. QED  BY <1>2, <2>1, <2>2 DEF Making, Dropped, Deleting
<1>3. /\ <<"space">> \notin AfterDrop /\ DeleteTodo \notin AfterDrop /\ DeleteTodo # <<"space">>
      /\ \A todo \in {<<"build", "store">>, <<"run", "count", "refresh">>, <<"write", "refresh">>,
                      <<"erase", "refresh">>,
                      <<"schema", "ddl", "write", "refresh", "register", "count">>} :
             todo \notin AfterDrop \cup {<<"space">>, DeleteTodo}
  BY DEF AfterDrop, DeleteTodo
<1>4. ASSUME NEW g \in UserGraphs, Create(t, g) PROVE SpaceInv'
  <2>1. /\ g \notin used /\ DOMAIN disk' = DOMAIN disk \cup {g} /\ used' = used \cup {g}
        /\ Begin(t, <<"space">>, g, {}, "cached") /\ crossed' = crossed
    BY <1>4 DEF Create, Saved, MemoryIsSaved
  <2>2. ASSUME NEW h \in UserGraphs PROVE SpaceOf(h)'
    <3>1. SpaceOf(h) /\ g \in Graphs
      BY DEF SpaceInv, Graphs
    <3>2. /\ ~Making(t, h) /\ ~Dropped(t, h) /\ ~Deleting(t, h) /\ ~Dropped(t, h)'
          /\ ~Deleting(t, h)'
          /\ Making(t, h)' => h = g
          /\ \A u \in Threads : u # t => /\ Making(u, h)' <=> Making(u, h)
                                         /\ Dropped(u, h)' <=> Dropped(u, h)
                                         /\ Deleting(u, h)' <=> Deleting(u, h)
      BY <1>2, <1>3, <2>1, <3>1
    <3>3. CASE h = g
      <4>1. \A u \in Threads : thread[u].g # g
        BY <2>1 DEF OwnersInv
      <4>2. \A u \in Threads : ~Making(u, g) /\ ~Dropped(u, g) /\ ~Deleting(u, g)
        BY <4>1 DEF Making, Dropped, Deleting
      <4>3. space[g] = "none"
        BY <2>1, <3>1, <3>3 DEF SpaceOf, SpaceInv, OwnersInv
      <4>4. Making(t, g)'
        <5>1. thread'[t].todo = <<"space">> /\ thread'[t].g = g
          BY <2>1, Begins
        <5>. QED  BY <5>1 DEF Making
      <4>. QED  BY <1>1, <2>1, <3>2, <3>3, <4>2, <4>3, <4>4 DEF SpaceOf
    <3>4. CASE h # g
      BY <1>1, <2>1, <3>1, <3>2, <3>4 DEF SpaceOf
    <3>. QED  BY <3>3, <3>4
  <2>. QED  BY <1>1, <2>1, <2>2 DEF SpaceInv
<1>5. ASSUME NEW g \in Graphs, Delete(t, g) PROVE SpaceInv'
  <2>1. /\ g \in DOMAIN disk /\ disk' = disk /\ used' = used
        /\ Begin(t, DeleteTodo, g, {}, "cached")
        /\ crossed \subseteq crossed' /\ crossed' \subseteq crossed \cup {g}
    BY <1>5 DEF Delete, MemoryIsSaved
  <2>2. \A u \in Threads : Making(u, g) => g \in crossed'
    BY <1>5 DEF Delete, Busy, Has, Making, Range
  <2>3. crossed' \cap UserGraphs \subseteq used'
    BY <2>1 DEF SpaceInv, OwnersInv
  <2>4. ASSUME NEW h \in UserGraphs PROVE SpaceOf(h)'
    <3>1. SpaceOf(h)
      BY DEF SpaceInv
    <3>2. /\ ~Making(t, h) /\ ~Dropped(t, h) /\ ~Deleting(t, h) /\ ~Dropped(t, h)'
          /\ ~Making(t, h)'
          /\ Deleting(t, h)' => h = g
          /\ \A u \in Threads : u # t => /\ Making(u, h)' <=> Making(u, h)
                                         /\ Dropped(u, h)' <=> Dropped(u, h)
                                         /\ Deleting(u, h)' <=> Deleting(u, h)
      BY <1>2, <1>3, <2>1
    <3>. QED  BY <1>1, <2>1, <2>2, <3>1, <3>2 DEF SpaceOf
  <2>. QED  BY <1>1, <2>3, <2>4 DEF SpaceInv
<1>6. ASSUME NEW g \in Graphs, NEW load, NEW client,
             NEW todo \in {<<"build", "store">>, <<"run", "count", "refresh">>,
                           <<"write", "refresh">>, <<"erase", "refresh">>,
                           <<"schema", "ddl", "write", "refresh", "register", "count">>},
             Begin(t, todo, g, load, client), UNCHANGED <<disk, crossed>>
      PROVE  SpaceInv'
  <2>1. ASSUME NEW h \in UserGraphs PROVE SpaceOf(h)'
    <3>1. SpaceOf(h)
      BY DEF SpaceInv
    <3>2. \A u \in Threads : /\ Making(u, h)' <=> Making(u, h)
                             /\ Dropped(u, h)' <=> Dropped(u, h)
                             /\ Deleting(u, h)' <=> Deleting(u, h)
      BY <1>2, <1>3, <1>6
    <3>. QED  BY <1>1, <1>6, <3>1, <3>2 DEF SpaceOf
  <2>. QED  BY <1>1, <1>6, <2>1 DEF SpaceInv
<1>7. CASE \/ \E g \in Graphs : Search(t, g)
           \/ \E g \in Graphs, l \in Loads : StartImport(t, g, l)
           \/ \E l \in Loads : Ingest(t, l) \/ Approve(t, l) \/ Cleanup(t, l)
  <2>1. Intel \in Graphs
    BY DEF Graphs
  <2>. QED  BY <1>6, <1>7, <2>1 DEF Search, StartImport, Ingest, Approve, Cleanup
<1>. QED  BY <1>4, <1>5, <1>7 DEF Request

LEMMA InitSpace == Init => SpaceInv
<1>. SUFFICES ASSUME Init PROVE SpaceInv
  OBVIOUS
<1>1. \A g \in UserGraphs : g \in Graphs /\ g # Intel
  BY CatalogAssumption DEF Graphs
<1>2. \A t \in Threads, g \in UserGraphs : ~Making(t, g) /\ ~Dropped(t, g)
  BY <1>1 DEF Init, Idle, Making, Dropped
<1>3. \A g \in UserGraphs : space[g] = "none" /\ g \notin DOMAIN disk
  BY <1>1 DEF Init
<1>. QED  BY <1>2, <1>3 DEF Init, SpaceInv, SpaceOf

\* A restart cuts short what was being made or deleted.
LEMMA NextSpace ==
    IndexTypeOK /\ MemoryIsSaved /\ OwnersInv /\ SpaceInv /\ [Next]_vars => SpaceInv'
<1>. SUFFICES ASSUME IndexTypeOK, MemoryIsSaved, OwnersInv, SpaceInv, [Next]_vars PROVE SpaceInv'
  OBVIOUS
<1>1. CASE Restart
  <2>1. /\ DOMAIN space' = Graphs /\ crossed' = crossed /\ used' = used /\ cut \subseteq cut'
        /\ thread' = [t \in Threads |-> Idle]
    BY <1>1 DEF Restart, SpaceInv
  <2>2. ASSUME NEW g \in UserGraphs PROVE SpaceOf(g)'
    <3>1. SpaceOf(g) /\ g \in Graphs /\ g # Intel /\ DOMAIN space = Graphs
      BY CatalogAssumption DEF SpaceInv, Graphs
    <3>2. space'[g] = space[g] /\ (g \in DOMAIN disk' <=> g \in DOMAIN disk)
      BY <1>1, <3>1 DEF Restart, Saved, WithIntel
    <3>3. \A t \in Threads : ~Making(t, g)' /\ ~Dropped(t, g)'
      BY <2>1, <3>1 DEF Idle, Making, Dropped
    <3>4. ASSUME NEW t \in Threads, Making(t, g) \/ Dropped(t, g) PROVE g \in cut'
      <4>1. CASE Making(t, g)
        <5>1. Busy(g, {"space"})
          BY <4>1 DEF Making, Busy, Has, Range
        <5>. QED  BY <1>1, <3>1, <5>1 DEF Restart
      <4>2. CASE Dropped(t, g)
        <5>1. "unregister" \in Range(thread[t].todo) /\ Head(thread[t].todo) # "drop"
          BY <4>2 DEF Dropped, AfterDrop, Range
        <5>2. Has(t, g, {"unregister"}) /\ ~Doing(t, "drop")
          BY <4>2, <5>1 DEF Dropped, Has, Doing
        <5>. QED  BY <1>1, <3>1, <5>2 DEF Restart
      <4>. QED  BY <3>4, <4>1, <4>2
    <3>. QED  BY <2>1, <3>1, <3>2, <3>3, <3>4 DEF SpaceOf
  <2>. QED  BY <2>1, <2>2 DEF SpaceInv
<1>2. CASE UNCHANGED vars
  <2>1. UNCHANGED <<space, disk, crossed, cut, used, thread>>
    BY <1>2 DEF vars
  <2>2. \A g \in UserGraphs : SpaceOf(g)'
    <3>. SUFFICES ASSUME NEW g \in UserGraphs PROVE SpaceOf(g)'
      OBVIOUS
    <3>1. \A u \in Threads : /\ Making(u, g)' <=> Making(u, g)
                             /\ Dropped(u, g)' <=> Dropped(u, g)
                             /\ Deleting(u, g)' <=> Deleting(u, g)
      BY <2>1 DEF Making, Dropped, Deleting
    <3>2. SpaceOf(g)
      BY DEF SpaceInv
    <3>. QED  BY <2>1, <3>1, <3>2 DEF SpaceOf
  <2>. QED  BY <2>1, <2>2 DEF SpaceInv
<1>. QED  BY <1>1, <1>2, StepSpace, RequestSpace DEF Next

\* The types of what a graph, a job and the process keep.
KeptOK ==
    /\ space \in [Graphs -> {"none", "bare", "ready"}]
    /\ corpus \in [Graphs -> {NoCorpus} \cup {{built} : built \in SUBSET Loads}]
    /\ ensured \in BOOLEAN
    /\ job \in [Loads -> {"none", "running", "done", "failed"}]
    /\ restarts \in 0 .. MaxRestarts

LEMMA StepKept ==
    ASSUME IndexTypeOK, KeptOK, NEW t \in Threads, Step(t)
    PROVE  KeptOK'
<1>1. thread[t].g \in Graphs /\ thread[t].seen \in SUBSET Loads /\ Intel \in Graphs
  BY DEF IndexTypeOK, ThreadRec, Graphs
<1>2. restarts' = restarts
  BY DEF Step, MakeSpace, Drop, Close, Forget, Unregister, Build, Store, RunImport, Count,
         Refresh, CheckSchema, EnsureSchema, Write, Erase, Register
<1>3. CASE MakeSpace(t) \/ Drop(t)
  BY <1>1, <1>2, <1>3 DEF MakeSpace, Drop, KeptOK
<1>4. CASE Store(t) \/ Refresh(t)
  BY <1>1, <1>2, <1>4 DEF Store, Refresh, KeptOK
<1>5. CASE RunImport(t)
  BY <1>1, <1>2, <1>5 DEF RunImport, KeptOK
<1>6. CASE CheckSchema(t)
  BY <1>1, <1>2, <1>6 DEF CheckSchema, Forgotten, KeptOK
<1>7. CASE EnsureSchema(t) \/ Forget(t)
  BY <1>1, <1>2, <1>7 DEF EnsureSchema, Forget, KeptOK
<1>8. CASE \/ Close(t) \/ Unregister(t) \/ Build(t) \/ Count(t) \/ Write(t) \/ Erase(t)
           \/ Register(t)
  <2>1. UNCHANGED <<space, corpus, ensured, job>>
    BY <1>8 DEF Close, Unregister, Build, Count, Write, Erase, Register
  <2>. QED  BY <1>2, <2>1 DEF KeptOK
<1>. QED  BY <1>3, <1>4, <1>5, <1>6, <1>7, <1>8 DEF Step

LEMMA NextKept == IndexTypeOK /\ KeptOK /\ [Next]_vars => KeptOK'
<1>. SUFFICES ASSUME IndexTypeOK, KeptOK, [Next]_vars PROVE KeptOK'
  OBVIOUS
<1>1. ASSUME NEW t \in Threads, Request(t) PROVE KeptOK'
  <2>1. /\ UNCHANGED <<space, corpus, ensured, restarts>>
        /\ job' \in [Loads -> {"none", "running", "done", "failed"}]
    BY <1>1 DEF Request, Create, Delete, Search, StartImport, Ingest, Approve, Cleanup, KeptOK
  <2>. QED  BY <2>1 DEF KeptOK
<1>2. CASE Restart
  <2>1. space' \in [Graphs -> {"none", "bare", "ready"}]
    BY <1>2 DEF Restart, KeptOK, Graphs
  <2>2. restarts' \in 0 .. MaxRestarts
    BY <1>2, CatalogAssumption DEF Restart, KeptOK
  <2>. QED  BY <1>2, <2>1, <2>2 DEF Restart, KeptOK
<1>3. CASE UNCHANGED vars
  BY <1>3 DEF vars, KeptOK
<1>. QED  BY <1>1, <1>2, <1>3, StepKept DEF Next

LEMMA InitKept == Init => KeptOK
  BY CatalogAssumption DEF Init, KeptOK, Graphs

\* The loads that are in a graph and that its thread is about to count.
DueLoads(g) == {l \in Loads : \E t \in Threads : Due(t, g) /\ thread[t].load = {l}}
\* The loads that the count of a graph is to show.
Shown(g) == {l \in rows[g] : job[l] = "done" /\ l \notin DueLoads(g)}

\* The count of a user's graph: the inductive strengthening of
\* CountedWereWritten.  A graph that is being made has nothing to count, and
\* one without a space has no rows.
CountOf(g) ==
    /\ space[g] = "none" => rows[g] = {}
    /\ \A t \in Threads : Making(t, g) =>
           /\ g \in DOMAIN memory => memory[g] = 0
           /\ \A u \in Threads : ~Due(u, g)
    /\ space[g] # "none" => \A t \in Threads : Due(t, g) =>
           thread[t].load \subseteq rows[g] /\ \A l \in thread[t].load : job[l] = "done"
    /\ space[g] # "none" /\ g \in DOMAIN memory =>
           /\ memory[g] + Cardinality(DueLoads(g)) <= Cardinality(rows[g])
           /\ restarts = 0 => memory[g] = Cardinality(Shown(g))

CountInv == \A g \in UserGraphs : CountOf(g)

\* What is in a graph and is to be counted there is due.
LEMMA ShownIsCounted ==
    ASSUME IndexTypeOK, OwnersInv, NEW g \in UserGraphs
    PROVE  Shown(g) = {l \in rows[g] :
               /\ job[l] = "done"
               /\ ~\E t \in Threads : Has(t, g, {"count"}) /\ thread[t].load = {l}}
<1>1. g \in Graphs
  BY DEF Graphs
<1>2. ASSUME NEW l \in rows[g], NEW t \in Threads, thread[t].load = {l}
      PROVE  Has(t, g, {"count"}) <=> Due(t, g)
  <2>1. "run" \notin Range(thread[t].todo)
    BY <1>1, <1>2 DEF OwnersInv
  <2>2. CASE Has(t, g, {"count"})
    <3>1. thread[t].g = g /\ thread[t].todo \in UserTodos /\ "count" \in Range(thread[t].todo)
      BY <2>2 DEF Has, OwnersInv
    <3>2. thread[t].todo = <<"count", "refresh">>
      BY <2>1, <3>1 DEF UserTodos, Range
    <3>. QED  BY <2>2, <3>1, <3>2 DEF Due
  <2>3. CASE Due(t, g)
    BY <2>3 DEF Due, Has, Range
  <2>. QED  BY <2>2, <2>3
<1>3. rows[g] \subseteq Loads
  BY <1>1 DEF IndexTypeOK
<1>. QED  BY <1>2, <1>3 DEF Shown, DueLoads

\* How the steps of a thread move imports on.
LEMMA StepDue ==
    ASSUME IndexTypeOK, NEW t \in Threads, Step(t), NEW g \in UserGraphs
    PROVE  /\ Due(t, g)' => RunImport(t) /\ thread[t].g = g /\ thread'[t].load = thread[t].load
           /\ Due(t, g) => Count(t)
           /\ \A u \in Threads : u # t => /\ Due(u, g)' <=> Due(u, g)
                                          /\ thread'[u].load = thread[u].load
<1>1. /\ thread[t] \in ThreadRec /\ thread[t].todo \in Todos \ {<<>>}
      /\ GoesOn(t)
      /\ \A u \in Threads : u # t => Undisturbed(u)
  BY StepGoesOn
<1>2. g # Intel
  BY CatalogAssumption
<1>3. \A u \in Threads : u # t => /\ Due(u, g)' <=> Due(u, g)
                                  /\ thread'[u].load = thread[u].load
  BY <1>1 DEF Undisturbed, Due
<1>4. Due(t, g) => Count(t)
  BY DEF Due, Step, MakeSpace, Drop, Close, Forget, Unregister, Build, Store, RunImport, Count,
         Refresh, CheckSchema, EnsureSchema, Write, Erase, Register, Doing
<1>5. thread[t].todo = <<"run", "count", "refresh">> => RunImport(t)
  BY DEF Step, MakeSpace, Drop, Close, Forget, Unregister, Build, Store, RunImport, Count,
         Refresh, CheckSchema, EnsureSchema, Write, Erase, Register, Doing
<1>6. ASSUME Due(t, g)'
      PROVE  RunImport(t) /\ thread[t].g = g /\ thread'[t].load = thread[t].load
  <2>1. thread'[t].g = g /\ thread'[t].todo = <<"count", "refresh">>
    BY <1>6 DEF Due
  <2>2. thread'[t] # Idle
    BY <1>2, <2>1 DEF Idle
  <2>3. thread[t].todo = <<"run", "count", "refresh">>
    <3>1. CASE thread'[t].todo = Tail(thread[t].todo)
      <4>1. thread[t].todo \in Todos \ {<<>>}
        BY <1>1
      <4>2. Tail(thread[t].todo) = <<"count", "refresh">>
        BY <2>1, <3>1
      <4>. QED  BY <4>1, <4>2, StageOrder
    <3>2. CASE /\ Head(thread[t].todo) = "schema"
               /\ thread'[t].todo = Tail(Tail(thread[t].todo))
      <4>1. thread'[t].todo # <<"count", "refresh">>
        BY <1>1, <3>2, StageOrder
      <4>. QED  BY <2>1, <4>1
    <3>. QED  BY <1>1, <2>2, <3>1, <3>2 DEF GoesOn
  <2>. QED  BY <1>1, <1>5, <2>1, <2>2, <2>3 DEF GoesOn
<1>. QED  BY <1>3, <1>4, <1>6

\* Where nothing of a graph changes, its count is what it was.
LEMMA SameCount ==
    ASSUME NEW g \in UserGraphs, CountOf(g), space'[g] = space[g], rows'[g] = rows[g],
           g \in DOMAIN memory' => g \in DOMAIN memory /\ memory'[g] = memory[g],
           \A u \in Threads : Making(u, g)' => Making(u, g),
           \A u \in Threads : Due(u, g)' <=> Due(u, g),
           \A u \in Threads : Due(u, g) => thread'[u].load = thread[u].load,
           restarts' = restarts, \A l \in rows[g] : job'[l] = job[l]
    PROVE  CountOf(g)'
<1>1. DueLoads(g)' = DueLoads(g)
  BY DEF DueLoads
<1>2. Shown(g)' = Shown(g)
  BY <1>1 DEF Shown
<1>3. /\ space'[g] = "none" => rows'[g] = {}
      /\ \A t \in Threads : Making(t, g)' =>
             /\ g \in DOMAIN memory' => memory'[g] = 0
             /\ \A u \in Threads : ~Due(u, g)'
  BY DEF CountOf
<1>4. space'[g] # "none" => \A t \in Threads : Due(t, g)' =>
          thread'[t].load \subseteq rows'[g] /\ \A l \in thread'[t].load : job'[l] = "done"
  BY DEF CountOf
<1>5. space'[g] # "none" /\ g \in DOMAIN memory' =>
          /\ memory'[g] + Cardinality(DueLoads(g)') <= Cardinality(rows'[g])
          /\ restarts' = 0 => memory'[g] = Cardinality(Shown(g)')
  BY <1>1, <1>2 DEF CountOf
<1>. QED  BY <1>3, <1>4, <1>5 DEF CountOf

\* The sets that are counted are finite.
LEMMA CountedAreFinite ==
    ASSUME IndexTypeOK, NEW g \in Graphs
    PROVE  /\ IsFiniteSet(rows[g]) /\ Cardinality(rows[g]) \in Nat /\ rows[g] \subseteq Loads
           /\ IsFiniteSet(DueLoads(g)) /\ Cardinality(DueLoads(g)) \in Nat
           /\ IsFiniteSet(Shown(g)) /\ Cardinality(Shown(g)) \in Nat
<1>1. rows[g] \subseteq Loads /\ DueLoads(g) \subseteq Loads /\ Shown(g) \subseteq rows[g]
  BY DEF IndexTypeOK, DueLoads, Shown
<1>. QED  BY <1>1, CatalogAssumption, FS_Subset, FS_CardinalityType

\* A graph whose space was just made counts nothing and holds nothing.
LEMMA MakeSpaceCount ==
    ASSUME IndexTypeOK, SpaceInv, CountInv, NEW t \in Threads, MakeSpace(t), NEW g \in UserGraphs,
           thread[t].g = g
    PROVE  CountOf(g)'
<1>1. SpaceOf(g) /\ CountOf(g) /\ g \in Graphs /\ DOMAIN space = Graphs
  BY DEF SpaceInv, CountInv, Graphs
<1>2. Step(t) /\ ~RunImport(t) /\ ~Count(t)
  BY DEF Step, MakeSpace, RunImport, Count, Doing
<1>3. Making(t, g)
  <2>1. thread[t].todo \in Todos /\ thread[t].todo # <<>> /\ Head(thread[t].todo) = "space"
    BY DEF MakeSpace, Doing, IndexTypeOK, ThreadRec
  <2>. QED  BY <2>1, StageOrder DEF Making
<1>4. /\ \A u \in Threads : ~Due(u, g)
      /\ g \in DOMAIN memory => memory[g] = 0
      /\ rows[g] = {}
      /\ \A u \in Threads : Making(u, g) => u = t
  BY <1>1, <1>3 DEF SpaceOf, CountOf
<1>5. /\ \A u \in Threads : ~Due(u, g)'
      /\ \A u \in Threads : ~Making(u, g)'
  BY <1>2, <1>4, StepDue, StepStages
<1>6. UNCHANGED <<memory, rows>>
  BY DEF MakeSpace
<1>7. Cardinality(DueLoads(g)') = 0 /\ Cardinality(Shown(g)') = 0 /\ Cardinality(rows'[g]) = 0
  <2>1. DueLoads(g)' = {} /\ Shown(g)' = {} /\ rows'[g] = {}
    BY <1>4, <1>5, <1>6 DEF DueLoads, Shown
  <2>. QED  BY <2>1, FS_EmptySet
<1>. QED  BY <1>4, <1>5, <1>6, <1>7 DEF CountOf

LEMMA DropCount ==
    ASSUME IndexTypeOK, SpaceInv, CountInv, NEW t \in Threads, Drop(t), NEW g \in UserGraphs,
           thread[t].g = g, space' # space
    PROVE  CountOf(g)'
<1>1. CountOf(g) /\ g \in Graphs /\ DOMAIN space = Graphs
  BY DEF SpaceInv, CountInv, Graphs
<1>2. Step(t) /\ ~RunImport(t) /\ ~Count(t)
  BY DEF Step, Drop, RunImport, Count, Doing
<1>3. /\ \A u \in Threads : Due(u, g)' => Due(u, g)
      /\ \A u \in Threads : Making(u, g)' => Making(u, g)
  BY <1>2, StepDue, StepStages
<1>4. space'[g] = "none" /\ rows'[g] = {} /\ memory' = memory
  BY <1>1 DEF Drop, IndexTypeOK
<1>. QED  BY <1>1, <1>3, <1>4 DEF CountOf

\* An import that is done is due, and adds itself to the rows.
LEMMA ImportCount ==
    ASSUME IndexTypeOK, OwnersInv, BoundInv, SpaceInv, CountInv, NEW t \in Threads, RunImport(t),
           NEW g \in UserGraphs, thread[t].g = g, Reaches(t), Wrote(t)
    PROVE  CountOf(g)'
<1>1. CountOf(g) /\ g \in Graphs /\ space[g] # "none" /\ SpaceOf(g)
  BY DEF CountInv, SpaceInv, Graphs, Reaches
<1>2. Step(t) /\ ~Count(t)
  BY DEF Step, RunImport, Count, Doing
<1>3. thread[t].todo = <<"run", "count", "refresh">>
  <2>1. thread[t].todo \in Todos /\ thread[t].todo # <<>> /\ Head(thread[t].todo) = "run"
    BY DEF RunImport, Doing, IndexTypeOK, ThreadRec
  <2>. QED  BY <2>1, StageOrder
<1>4. PICK l \in Loads \cap used : thread[t].load = {l}
  BY <1>3 DEF OwnersInv, Owner, Owning, Range
<1>5. l \notin rows[g]
  BY <1>1, <1>3, <1>4 DEF OwnersInv, Range
<1>6. UNCHANGED <<space, memory, restarts>> /\ rows'[g] = rows[g] \cup {l}
  BY <1>1, <1>4 DEF RunImport, Wrote, IndexTypeOK
<1>7. \A u \in Threads : ~Making(u, g) /\ ~Making(u, g)'
  BY <1>1, <1>2, StepStages DEF SpaceOf
<1>8. \A k \in Loads : k # l => job'[k] = job[k]
  BY <1>4 DEF RunImport
<1>9. /\ ~Due(t, g)
      /\ \A u \in Threads : u # t => /\ Due(u, g)' <=> Due(u, g)
                                     /\ thread'[u].load = thread[u].load
      /\ Due(t, g)' => thread'[t].load = {l}
  BY <1>2, <1>4, StepDue
<1>10. /\ IsFiniteSet(rows[g]) /\ Cardinality(rows[g]) \in Nat /\ rows[g] \subseteq Loads
       /\ IsFiniteSet(DueLoads(g)) /\ Cardinality(DueLoads(g)) \in Nat
       /\ IsFiniteSet(Shown(g)) /\ Cardinality(Shown(g)) \in Nat
  BY <1>1, CountedAreFinite
<1>11. Cardinality(rows'[g]) = Cardinality(rows[g]) + 1
  BY <1>5, <1>6, <1>10, FS_AddElement
<1>12. DueLoads(g) \subseteq rows[g]
  BY <1>1 DEF CountOf, DueLoads
<1>13. CASE Proceed(t) /\ job' = [k \in Loads |-> IF {k} = thread[t].load THEN "done" ELSE job[k]]
  <2>1. Due(t, g)'
    <3>1. Tail(thread[t].todo) = <<"count", "refresh">>
      BY <1>3
    <3>2. thread'[t] = [thread[t] EXCEPT !.todo = <<"count", "refresh">>]
      <4>1. <<"count", "refresh">> # <<>>
        OBVIOUS
      <4>2. thread'[t] = After(t)
        BY <1>13 DEF Proceed, IndexTypeOK
      <4>. QED  BY <3>1, <4>1, <4>2 DEF After
    <3>. QED  BY <3>2 DEF Due, IndexTypeOK, ThreadRec
  <2>2. DueLoads(g)' = DueLoads(g) \cup {l}
    BY <1>4, <1>9, <2>1 DEF DueLoads
  <2>3. Cardinality(DueLoads(g)') = Cardinality(DueLoads(g)) + 1
    BY <1>5, <1>10, <1>12, <2>2, FS_AddElement
  <2>4. Shown(g)' = Shown(g)
    BY <1>5, <1>6, <1>8, <1>10, <2>2 DEF Shown
  <2>5. job'[l] = "done"
    BY <1>4, <1>13
  <2>6. \A u \in Threads : Due(u, g)' =>
            thread'[u].load \subseteq rows'[g] /\ \A k \in thread'[u].load : job'[k] = "done"
    BY <1>1, <1>6, <1>8, <1>9, <1>10, <2>5 DEF CountOf
  <2>7. g \in DOMAIN memory' =>
            /\ memory'[g] + Cardinality(DueLoads(g)') <= Cardinality(rows'[g])
            /\ restarts' = 0 => memory'[g] = Cardinality(Shown(g)')
    <3>. SUFFICES ASSUME g \in DOMAIN memory
                  PROVE  /\ memory[g] + Cardinality(DueLoads(g)') <= Cardinality(rows'[g])
                         /\ restarts = 0 => memory[g] = Cardinality(Shown(g)')
      BY <1>6
    <3>1. /\ memory[g] + Cardinality(DueLoads(g)) <= Cardinality(rows[g])
          /\ restarts = 0 => memory[g] = Cardinality(Shown(g))
      BY <1>1 DEF CountOf
    <3>2. memory[g] \in Nat
      BY DEF BoundInv
    <3>. QED  BY <1>10, <1>11, <2>3, <2>4, <3>1, <3>2
  <2>. QED  BY <1>1, <1>6, <1>7, <2>6, <2>7 DEF CountOf
<1>14. CASE Abort(t) /\ job' = [k \in Loads |-> IF {k} = thread[t].load THEN "failed" ELSE job[k]]
  <2>1. ~Due(t, g)'
    BY <1>14 DEF Abort, Idle, Due, IndexTypeOK
  <2>2. DueLoads(g)' = DueLoads(g)
    BY <1>9, <2>1 DEF DueLoads
  <2>3. job'[l] = "failed"
    BY <1>4, <1>14
  <2>4. Shown(g)' = Shown(g)
    BY <1>5, <1>6, <1>8, <1>10, <2>2, <2>3 DEF Shown
  <2>6. \A u \in Threads : Due(u, g)' =>
            thread'[u].load \subseteq rows'[g] /\ \A k \in thread'[u].load : job'[k] = "done"
    BY <1>1, <1>5, <1>6, <1>8, <1>9, <1>10, <2>1 DEF CountOf
  <2>7. g \in DOMAIN memory' =>
            /\ memory'[g] + Cardinality(DueLoads(g)') <= Cardinality(rows'[g])
            /\ restarts' = 0 => memory'[g] = Cardinality(Shown(g)')
    <3>. SUFFICES ASSUME g \in DOMAIN memory
                  PROVE  /\ memory[g] + Cardinality(DueLoads(g)') <= Cardinality(rows'[g])
                         /\ restarts = 0 => memory[g] = Cardinality(Shown(g)')
      BY <1>6
    <3>1. /\ memory[g] + Cardinality(DueLoads(g)) <= Cardinality(rows[g])
          /\ restarts = 0 => memory[g] = Cardinality(Shown(g))
      BY <1>1 DEF CountOf
    <3>2. memory[g] \in Nat
      BY DEF BoundInv
    <3>. QED  BY <1>10, <1>11, <2>2, <2>4, <3>1, <3>2
  <2>. QED  BY <1>1, <1>6, <1>7, <2>6, <2>7 DEF CountOf
<1>15. \/ Proceed(t) /\ job' = [k \in Loads |-> IF {k} = thread[t].load THEN "done" ELSE job[k]]
       \/ Abort(t) /\ job' = [k \in Loads |-> IF {k} = thread[t].load THEN "failed" ELSE job[k]]
  BY DEF RunImport
<1>. QED  BY <1>13, <1>14, <1>15

\* A thread counts its load, once.
LEMMA CountCount ==
    ASSUME IndexTypeOK, OwnersInv, BoundInv, SpaceInv, CountInv, NEW t \in Threads, Count(t),
           NEW g \in UserGraphs, thread[t].g = g
    PROVE  CountOf(g)'
<1>1. CountOf(g) /\ g \in Graphs
  BY DEF CountInv, Graphs
<1>2. Step(t) /\ ~RunImport(t)
  BY DEF Step, RunImport, Count, Doing
<1>3. Due(t, g)
  <2>1. thread[t].todo \in UserTodos /\ Head(thread[t].todo) = "count" /\ thread[t].todo # <<>>
    BY DEF OwnersInv, Count, Doing
  <2>2. thread[t].todo = <<"count", "refresh">>
    BY <2>1 DEF UserTodos
  <2>. QED  BY <2>2 DEF Due
<1>4. Owner(t)
  BY <1>3 DEF Due, Owner, Owning, Range
<1>5. PICK l \in Loads \cap used : thread[t].load = {l}
  BY <1>4 DEF OwnersInv
<1>6. UNCHANGED <<space, rows, job, restarts>>
  BY DEF Count
<1>7. \A u \in Threads : ~Making(u, g) /\ ~Making(u, g)'
  BY <1>1, <1>2, <1>3, StepStages DEF CountOf
<1>8. /\ ~Due(t, g)'
      /\ \A u \in Threads : u # t => (Due(u, g)' <=> Due(u, g))
      /\ \A u \in Threads : u # t => thread'[u].load = thread[u].load
  BY <1>2, StepDue
<1>9. \A u \in Threads : u # t /\ Due(u, g) => thread[u].load # {l}
  <2>1. \A u \in Threads : Due(u, g) => Owner(u)
    BY DEF Due, Owner, Owning, Range
  <2>. QED  BY <1>4, <1>5, <2>1 DEF OwnersInv
<1>10. DueLoads(g)' = DueLoads(g) \ {l} /\ l \in DueLoads(g)
  BY <1>3, <1>5, <1>8, <1>9 DEF DueLoads
<1>11. /\ IsFiniteSet(rows[g]) /\ Cardinality(rows[g]) \in Nat /\ rows[g] \subseteq Loads
       /\ IsFiniteSet(DueLoads(g)) /\ Cardinality(DueLoads(g)) \in Nat
       /\ IsFiniteSet(Shown(g)) /\ Cardinality(Shown(g)) \in Nat
  BY <1>1, CountedAreFinite
<1>12. Cardinality(DueLoads(g)') = Cardinality(DueLoads(g)) - 1
  <2>1. Cardinality(DueLoads(g) \ {l}) = IF l \in DueLoads(g) THEN Cardinality(DueLoads(g)) - 1
                                         ELSE Cardinality(DueLoads(g))
    <3>1. IsFiniteSet(DueLoads(g))
      BY <1>11
    <3>. QED  BY ONLY <3>1, FS_RemoveElement
  <2>. QED  BY <1>10, <2>1
<1>13. space'[g] # "none" => \A u \in Threads : Due(u, g)' =>
           thread'[u].load \subseteq rows'[g] /\ \A k \in thread'[u].load : job'[k] = "done"
  BY <1>1, <1>6, <1>8 DEF CountOf
<1>14. ASSUME space[g] # "none", g \in DOMAIN memory'
       PROVE  /\ memory'[g] + Cardinality(DueLoads(g)') <= Cardinality(rows'[g])
              /\ restarts' = 0 => memory'[g] = Cardinality(Shown(g)')
  <2>1. g \in DOMAIN memory /\ memory'[g] = memory[g] + 1
    BY <1>14 DEF Count, Counted, Saved
  <2>2. /\ memory[g] \in Nat
        /\ memory[g] + Cardinality(DueLoads(g)) <= Cardinality(rows[g])
        /\ restarts = 0 => memory[g] = Cardinality(Shown(g))
    BY <1>1, <1>14, <2>1 DEF CountOf, BoundInv
  <2>3. l \in rows[g] /\ job[l] = "done"
    BY <1>1, <1>3, <1>5, <1>14 DEF CountOf
  <2>4. Shown(g)' = Shown(g) \cup {l} /\ l \notin Shown(g)
    BY <1>6, <1>10, <2>3 DEF Shown
  <2>5. Cardinality(Shown(g)') = Cardinality(Shown(g)) + 1
    BY <1>11, <2>4, FS_AddElement
  <2>. QED  BY <1>6, <1>11, <1>12, <2>1, <2>2, <2>5
<1>. QED  BY <1>1, <1>6, <1>7, <1>13, <1>14 DEF CountOf

LEMMA StepCount ==
    ASSUME IndexTypeOK, KeptOK, MemoryIsSaved, OwnersInv, BoundInv, SpaceInv, CountInv,
           NEW t \in Threads, Step(t)
    PROVE  CountInv'
<1>. SUFFICES ASSUME NEW g \in UserGraphs PROVE CountOf(g)'
  BY DEF CountInv
<1>1. CountOf(g) /\ g \in Graphs /\ g # Intel /\ DOMAIN space = Graphs
  BY CatalogAssumption DEF CountInv, SpaceInv, Graphs
<1>2. CASE /\ thread[t].g = g
           /\ \/ MakeSpace(t) \/ (Drop(t) /\ space' # space) \/ (RunImport(t) /\ Reaches(t) /\ Wrote(t))
              \/ Count(t)
  BY <1>2, MakeSpaceCount, DropCount, ImportCount, CountCount
<1>3. CASE ~ /\ thread[t].g = g
             /\ \/ MakeSpace(t) \/ (Drop(t) /\ space' # space)
                \/ (RunImport(t) /\ Reaches(t) /\ Wrote(t))
                \/ Count(t)
  <2>1. \A u \in Threads : Making(u, g)' => Making(u, g)
    BY StepStages
  <2>2. restarts' = restarts
    BY DEF Step, MakeSpace, Drop, Close, Forget, Unregister, Build, Store, RunImport, Count,
           Refresh, CheckSchema, EnsureSchema, Write, Erase, Register
  <2>3. CASE /\ thread[t].g # g
             /\ MakeSpace(t) \/ Drop(t) \/ RunImport(t) \/ Count(t) \/ Unregister(t)
    <3>1. space'[g] = space[g] /\ rows'[g] = rows[g]
      BY <1>1, <2>3 DEF MakeSpace, Drop, RunImport, Wrote, Count, Unregister, IndexTypeOK
    <3>2. g \in DOMAIN memory' => g \in DOMAIN memory /\ memory'[g] = memory[g]
      BY <2>3 DEF MakeSpace, Drop, RunImport, Count, Counted, Unregister, Without, Saved
    <3>3. /\ \A u \in Threads : Due(u, g)' <=> Due(u, g)
          /\ \A u \in Threads : Due(u, g) => thread'[u].load = thread[u].load
      BY <2>3, StepDue DEF Due
    <3>4. \A l \in rows[g] : job'[l] = job[l]
      <4>1. CASE RunImport(t)
        <5>1. "run" \in Range(thread[t].todo)
          BY <4>1, StageFacts DEF RunImport, Doing, IndexTypeOK, ThreadRec
        <5>2. thread[t].load \cap rows[g] = {} /\ rows[g] \subseteq Loads
          BY <1>1, <5>1 DEF OwnersInv, IndexTypeOK
        <5>. QED  BY <4>1, <5>2 DEF RunImport
      <4>2. CASE ~RunImport(t)
        BY <2>3, <4>2 DEF MakeSpace, Drop, Count, Unregister
      <4>. QED  BY <4>1, <4>2
    <3>. QED  BY <1>1, <2>1, <2>2, <3>1, <3>2, <3>3, <3>4, SameCount
  <2>4. CASE \/ Drop(t) /\ space' = space
             \/ RunImport(t) /\ ~(Reaches(t) /\ Wrote(t))
    <3>1. space' = space /\ memory' = memory
      BY <2>4 DEF Drop, RunImport
    <3>2. rows'[g] = rows[g]
      <4>1. CASE Drop(t) /\ space' = space
        <5>1. CASE rows' = rows
          BY <5>1
        <5>2. CASE space' = [space EXCEPT ![thread[t].g] = "none"]
                   /\ rows' = [rows EXCEPT ![thread[t].g] = {}]
          <6>1. CASE thread[t].g # g
            BY <1>1, <5>2, <6>1 DEF IndexTypeOK
          <6>2. CASE thread[t].g = g
            BY <1>1, <4>1, <5>2, <6>2 DEF CountOf, IndexTypeOK
          <6>. QED  BY <6>1, <6>2
        <5>. QED  BY <4>1, <5>1, <5>2 DEF Drop
      <4>2. CASE RunImport(t) /\ ~(Reaches(t) /\ Wrote(t))
        BY <4>2 DEF RunImport
      <4>. QED  BY <2>4, <4>1, <4>2
    <3>3. CASE RunImport(t)
      <4>1. Abort(t) /\ "run" \in Range(thread[t].todo)
        <5>1. "run" \in Range(thread[t].todo)
          BY <3>3, StageFacts DEF RunImport, Doing, IndexTypeOK, ThreadRec
        <5>2. ~Drop(t)
          BY <3>3 DEF RunImport, Drop, Doing
        <5>. QED  BY <2>4, <5>1, <5>2 DEF RunImport
      <4>2. ~Due(t, g)' /\ ~Due(t, g)
        <5>1. ~Due(t, g)'
          BY <1>1, <4>1 DEF Abort, Idle, Due, IndexTypeOK
        <5>. QED  BY <4>1, <5>1 DEF Due, Range
      <4>3. /\ \A u \in Threads : Due(u, g)' <=> Due(u, g)
            /\ \A u \in Threads : Due(u, g) => thread'[u].load = thread[u].load
        BY <4>2, StepDue
      <4>4. thread[t].load \cap rows[g] = {} /\ rows[g] \subseteq Loads
        BY <1>1, <4>1 DEF OwnersInv, IndexTypeOK
      <4>5. \A l \in rows[g] : job'[l] = job[l]
        BY <3>3, <4>4 DEF RunImport
      <4>. QED  BY <1>1, <2>1, <2>2, <3>1, <3>2, <4>3, <4>5, SameCount
    <3>4. CASE ~RunImport(t)
      <4>1. /\ \A u \in Threads : Due(u, g)' <=> Due(u, g)
            /\ \A u \in Threads : Due(u, g) => thread'[u].load = thread[u].load
        <5>1. ~Count(t)
          BY <2>4, <3>4 DEF Drop, Count, Doing
        <5>. QED  BY <3>4, <5>1, StepDue
      <4>2. job' = job
        BY <2>4, <3>4 DEF Drop
      <4>. QED  BY <1>1, <2>1, <2>2, <3>1, <3>2, <4>1, <4>2, SameCount
    <3>. QED  BY <3>3, <3>4
  <2>5. CASE \/ Close(t) \/ Forget(t) \/ Build(t) \/ Store(t) \/ Refresh(t) \/ CheckSchema(t)
             \/ EnsureSchema(t) \/ Write(t) \/ Erase(t) \/ Register(t)
             \/ (Unregister(t) /\ thread[t].g = g)
    <3>1. job' = job /\ ~RunImport(t) /\ ~Count(t)
      BY <2>5 DEF Close, Forget, Build, Store, Refresh, CheckSchema, EnsureSchema, Write, Erase,
                  Register, Unregister, RunImport, Count, Doing
    <3>2. /\ \A u \in Threads : Due(u, g)' <=> Due(u, g)
          /\ \A u \in Threads : Due(u, g) => thread'[u].load = thread[u].load
      BY <3>1, StepDue
    <3>3. space'[g] = space[g]
      <4>1. CASE CheckSchema(t)
        BY <1>1, <4>1 DEF CheckSchema
      <4>2. CASE EnsureSchema(t)
        BY <1>1, <4>2 DEF EnsureSchema
      <4>. QED  BY <2>5, <4>1, <4>2 DEF Close, Forget, Build, Store, Refresh, Write, Erase,
                  Register, Unregister
    <3>4. rows'[g] = rows[g]
      <4>1. CASE Write(t) \/ Erase(t)
        <5>1. thread[t].g # g
          <6>1. Head(thread[t].todo) \in {"write", "erase"} /\ thread[t].todo # <<>>
            BY <4>1 DEF Write, Erase, Doing
          <6>2. thread[t].todo \notin UserTodos
            BY <6>1, StageFacts DEF IndexTypeOK, ThreadRec
          <6>. QED  BY <6>2 DEF OwnersInv
        <5>. QED  BY <1>1, <4>1, <5>1 DEF Write, Wrote, Erase, IndexTypeOK
      <4>2. CASE ~Write(t) /\ ~Erase(t)
        BY <2>5, <4>2 DEF Close, Forget, Build, Store, Refresh, CheckSchema, EnsureSchema,
                  Register, Unregister
      <4>. QED  BY <4>1, <4>2
    <3>5. g \in DOMAIN memory' => g \in DOMAIN memory /\ memory'[g] = memory[g]
      <4>1. CASE Register(t)
        BY <1>1, <4>1 DEF Register, WithIntel, Saved
      <4>2. CASE Unregister(t)
        BY <4>2 DEF Unregister, Without, Saved
      <4>. QED  BY <2>5, <4>1, <4>2 DEF Close, Forget, Build, Store, Refresh, CheckSchema,
                  EnsureSchema, Write, Erase
    <3>. QED  BY <1>1, <2>1, <2>2, <3>1, <3>2, <3>3, <3>4, <3>5, SameCount
  <2>. QED  BY <1>3, <2>3, <2>4, <2>5 DEF Step
<1>. QED  BY <1>2, <1>3

\* A request counts nothing, and a new graph begins with nothing to count.
LEMMA RequestCount ==
    ASSUME IndexTypeOK, KeptOK, MemoryIsSaved, OwnersInv, SpaceInv, CountInv,
           NEW t \in Threads, Request(t)
    PROVE  CountInv'
<1>. SUFFICES ASSUME NEW h \in UserGraphs PROVE CountOf(h)'
  BY DEF CountInv
<1>1. CountOf(h) /\ SpaceOf(h) /\ h \in Graphs
  BY DEF CountInv, SpaceInv, Graphs
<1>2. UNCHANGED <<space, rows, restarts>>
  BY DEF Request, Create, Delete, Search, StartImport, Ingest, Approve, Cleanup
<1>3. /\ <<>> # <<"count", "refresh">>
      /\ \A todo \in {<<"space">>, DeleteTodo, <<"build", "store">>, <<"run", "count", "refresh">>,
                      <<"write", "refresh">>, <<"erase", "refresh">>,
                      <<"schema", "ddl", "write", "refresh", "register", "count">>} :
             todo # <<"count", "refresh">>
  BY DEF DeleteTodo
<1>4. ASSUME NEW todo, NEW g, NEW load, NEW client, Begin(t, todo, g, load, client),
             todo # <<"count", "refresh">>
      PROVE  /\ \A u \in Threads : Due(u, h)' <=> Due(u, h)
             /\ \A u \in Threads : Due(u, h) => thread'[u].load = thread[u].load
             /\ \A u \in Threads : Making(u, h)' =>
                    Making(u, h) \/ (u = t /\ todo = <<"space">> /\ h = g)
  <2>1. /\ thread[t].todo = <<>>
        /\ thread'[t].todo = todo /\ thread'[t].g = g
        /\ \A u \in Threads : u # t => thread'[u] = thread[u]
    BY <1>4, Begins
  <2>. QED  BY <1>3, <1>4, <2>1 DEF Due, Making
<1>5. ASSUME NEW g \in UserGraphs, Create(t, g) PROVE CountOf(h)'
  <2>1. /\ Begin(t, <<"space">>, g, {}, "cached") /\ g \notin used /\ job' = job
        /\ memory' = [k \in DOMAIN memory \cup {g} |-> IF k = g THEN 0 ELSE memory[k]]
    BY <1>5 DEF Create, Saved
  <2>2. /\ \A u \in Threads : Due(u, h)' <=> Due(u, h)
        /\ \A u \in Threads : Due(u, h) => thread'[u].load = thread[u].load
        /\ \A u \in Threads : Making(u, h)' => Making(u, h) \/ h = g
    BY <1>3, <1>4, <2>1
  <2>3. CASE h = g
    <3>1. \A u \in Threads : thread[u].g # h
      BY <2>1, <2>3 DEF OwnersInv
    <3>2. \A u \in Threads : ~Due(u, h)
      BY <3>1 DEF Due
    <3>3. space[h] = "none"
      BY <1>1, <2>1, <2>3 DEF SpaceOf, SpaceInv, OwnersInv
    <3>4. rows[h] = {} /\ memory'[h] = 0
      BY <1>1, <2>1, <2>3, <3>3 DEF CountOf
    <3>. QED  BY <1>2, <2>2, <3>2, <3>3, <3>4 DEF CountOf
  <2>4. CASE h # g
    <3>1. h \in DOMAIN memory' => h \in DOMAIN memory /\ memory'[h] = memory[h]
      BY <2>1, <2>4
    <3>2. \A u \in Threads : Making(u, h)' => Making(u, h)
      BY <2>2, <2>4
    <3>. QED  BY <1>1, <1>2, <2>1, <2>2, <3>1, <3>2, SameCount
  <2>. QED  BY <2>3, <2>4
<1>6. ASSUME NEW g, NEW load, NEW client,
             NEW todo \in {DeleteTodo, <<"build", "store">>, <<"run", "count", "refresh">>,
                           <<"write", "refresh">>, <<"erase", "refresh">>,
                           <<"schema", "ddl", "write", "refresh", "register", "count">>},
             Begin(t, todo, g, load, client), memory' = memory,
             \A k \in rows[h] : job'[k] = job[k]
      PROVE  CountOf(h)'
  <2>1. todo # <<"space">>
    BY DEF DeleteTodo
  <2>2. /\ \A u \in Threads : Due(u, h)' <=> Due(u, h)
        /\ \A u \in Threads : Due(u, h) => thread'[u].load = thread[u].load
        /\ \A u \in Threads : Making(u, h)' => Making(u, h)
    BY <1>3, <1>4, <1>6, <2>1
  <2>. QED  BY <1>1, <1>2, <1>6, <2>2, SameCount
<1>7. ASSUME NEW g \in Graphs, NEW l \in Loads, StartImport(t, g, l) PROVE CountOf(h)'
  <2>1. rows[h] \subseteq Loads /\ l \notin rows[h]
    BY <1>1, <1>7 DEF StartImport, OwnersInv, IndexTypeOK
  <2>2. \A k \in rows[h] : job'[k] = job[k]
    BY <1>7, <2>1 DEF StartImport, KeptOK
  <2>. QED  BY <1>6, <1>7, <2>2 DEF StartImport
<1>8. CASE \/ \E g \in Graphs : Delete(t, g) \/ Search(t, g)
           \/ \E l \in Loads : Ingest(t, l) \/ Approve(t, l) \/ Cleanup(t, l)
  BY <1>6, <1>8 DEF Delete, Search, Ingest, Approve, Cleanup
<1>. QED  BY <1>5, <1>7, <1>8 DEF Request

LEMMA InitCount == Init => CountInv
<1>. SUFFICES ASSUME Init, NEW g \in UserGraphs PROVE CountOf(g)
  BY DEF CountInv
<1>1. g \in Graphs /\ g # Intel
  BY CatalogAssumption DEF Graphs
<1>2. space[g] = "none" /\ rows[g] = {} /\ \A t \in Threads : ~Making(t, g)
  BY <1>1 DEF Init, Idle, Making
<1>. QED  BY <1>2 DEF CountOf

\* A restart forgets the jobs, and with them what was still to be counted.
LEMMA NextCount ==
    /\ IndexTypeOK /\ KeptOK /\ MemoryIsSaved /\ OwnersInv /\ BoundInv /\ SpaceInv /\ CountInv
    /\ [Next]_vars
    => CountInv'
<1>. SUFFICES ASSUME IndexTypeOK, KeptOK, MemoryIsSaved, OwnersInv, BoundInv, SpaceInv, CountInv,
                     [Next]_vars
              PROVE  CountInv'
  OBVIOUS
<1>1. ASSUME Restart, NEW g \in UserGraphs PROVE CountOf(g)'
  <2>1. CountOf(g) /\ g \in Graphs /\ g # Intel /\ DOMAIN space = Graphs
    BY CatalogAssumption DEF CountInv, SpaceInv, Graphs
  <2>2. /\ space'[g] = space[g] /\ rows' = rows
        /\ g \in DOMAIN memory' => g \in DOMAIN memory /\ memory'[g] = memory[g]
    BY <1>1, <2>1 DEF Restart, Saved, WithIntel, MemoryIsSaved
  <2>3. \A t \in Threads : ~Making(t, g)' /\ ~Due(t, g)'
    BY <1>1, <2>1 DEF Restart, Idle, Making, Due
  <2>4. restarts' # 0
    BY <1>1, CatalogAssumption DEF Restart, KeptOK
  <2>5. Cardinality(DueLoads(g)') = 0
    <3>1. DueLoads(g)' = {}
      BY <2>3 DEF DueLoads
    <3>. QED  BY <3>1, FS_EmptySet
  <2>6. ASSUME space[g] # "none", g \in DOMAIN memory
        PROVE  memory[g] + 0 <= Cardinality(rows[g])
    <3>1. memory[g] \in Nat /\ memory[g] + Cardinality(DueLoads(g)) <= Cardinality(rows[g])
      BY <2>1, <2>6 DEF CountOf, BoundInv
    <3>2. Cardinality(DueLoads(g)) \in Nat /\ Cardinality(rows[g]) \in Nat
      BY <2>1, CountedAreFinite
    <3>. QED  BY <3>1, <3>2
  <2>. QED  BY <2>1, <2>2, <2>3, <2>4, <2>5, <2>6 DEF CountOf
<1>2. ASSUME UNCHANGED vars, NEW g \in UserGraphs PROVE CountOf(g)'
  <2>1. UNCHANGED <<space, rows, memory, restarts, job, thread>> /\ CountOf(g)
    BY <1>2 DEF vars, CountInv
  <2>2. \A u \in Threads : (Making(u, g)' <=> Making(u, g)) /\ (Due(u, g)' <=> Due(u, g))
    BY <2>1 DEF Making, Due
  <2>. QED  BY <2>1, <2>2, SameCount
<1>3. CASE Restart \/ UNCHANGED vars
  BY <1>1, <1>2, <1>3 DEF CountInv
<1>. QED  BY <1>3, StepCount, RequestCount DEF Next

CatalogInv ==
    /\ IndexTypeOK /\ KeptOK /\ MemoryIsSaved
    /\ OwnersInv /\ BoundInv /\ SpaceInv /\ CountInv

LEMMA CatalogTypes == CatalogInv => TypeOK
<1>. SUFFICES ASSUME CatalogInv PROVE TypeOK
  OBVIOUS
<1>1. \A g \in DOMAIN memory : memory[g] \in 0 .. Cardinality(Loads)
  <2>. SUFFICES ASSUME NEW g \in DOMAIN memory PROVE memory[g] \in 0 .. Cardinality(Loads)
    OBVIOUS
  <2>1. memory[g] \in Nat /\ memory[g] + Cardinality(Pending(g)) <= Cardinality(Loads \cap used)
    BY DEF CatalogInv, BoundInv
  <2>2. Cardinality(Pending(g)) \in Nat
    BY PendingIsStarted DEF CatalogInv
  <2>3. Cardinality(Loads) \in Nat
    BY CatalogAssumption, FS_CardinalityType
  <2>. QED  BY <2>1, <2>2, <2>3, StartedIsFinite
<1>2. \A t \in Threads : /\ Range(thread[t].todo) \subseteq Steps
                         /\ thread[t].g \in Graphs
                         /\ thread[t].load \subseteq Loads
                         /\ thread[t].client \in {"cached", "own", "closed"}
                         /\ thread[t].seen \subseteq Loads
                         /\ thread[t].late \in BOOLEAN
  <2>. SUFFICES ASSUME NEW t \in Threads
                PROVE  /\ Range(thread[t].todo) \subseteq Steps
                       /\ thread[t].g \in Graphs
                       /\ thread[t].load \subseteq Loads
                       /\ thread[t].client \in {"cached", "own", "closed"}
                       /\ thread[t].seen \subseteq Loads
                       /\ thread[t].late \in BOOLEAN
    OBVIOUS
  <2>1. thread[t] \in ThreadRec
    BY DEF CatalogInv, IndexTypeOK
  <2>2. \A todo \in Todos : Range(todo) \subseteq Steps
    BY DEF Todos, Range, Steps
  <2>. QED  BY <2>1, <2>2 DEF ThreadRec
<1>. QED  BY <1>1, <1>2 DEF TypeOK, CatalogInv, IndexTypeOK, KeptOK, MemoryIsSaved, BoundInv

LEMMA SpacesAreListed == CatalogInv => RegisteredHasSpace /\ SpaceIsRegistered
<1>. SUFFICES ASSUME CatalogInv, NEW g \in UserGraphs
              PROVE  /\ g \in DOMAIN disk /\ space[g] = "none" =>
                            g \in cut \/ Busy(g, {"space", "unregister"})
                     /\ space[g] # "none" => g \in DOMAIN disk \cup crossed
  BY DEF RegisteredHasSpace, SpaceIsRegistered
<1>1. \A t \in Threads : Making(t, g) \/ Dropped(t, g) => Has(t, g, {"space", "unregister"})
  BY DEF Making, Dropped, AfterDrop, Has, Range
<1>. QED  BY <1>1 DEF CatalogInv, SpaceInv, SpaceOf, Busy

LEMMA CountsAreTrue == CatalogInv => CountedWereWritten
<1>. SUFFICES ASSUME CatalogInv, NEW g \in UserGraphs, g \in DOMAIN memory, space[g] # "none"
              PROVE  /\ memory[g] <= Cardinality(rows[g])
                     /\ restarts = 0 =>
                          memory[g] = Cardinality({l \in rows[g] :
                            /\ job[l] = "done"
                            /\ ~\E t \in Threads : Has(t, g, {"count"}) /\ thread[t].load = {l}})
  BY DEF CountedWereWritten
<1>1. /\ memory[g] \in Nat /\ memory[g] + Cardinality(DueLoads(g)) <= Cardinality(rows[g])
      /\ restarts = 0 => memory[g] = Cardinality(Shown(g))
  BY DEF CatalogInv, CountInv, CountOf, BoundInv
<1>2. Cardinality(DueLoads(g)) \in Nat /\ Cardinality(rows[g]) \in Nat
  BY CountedAreFinite DEF CatalogInv, Graphs
<1>3. Shown(g) = {l \in rows[g] :
          /\ job[l] = "done"
          /\ ~\E t \in Threads : Has(t, g, {"count"}) /\ thread[t].load = {l}}
  BY ShownIsCounted DEF CatalogInv
<1>. QED  BY <1>1, <1>2, <1>3

\* Whatever creations, deletions, imports, searches, failures and restarts
\* run into each other, the catalogue tells the truth: a graph it lists has
\* its space and a space of a user is listed, but for the creations and
\* deletions that were cut short or overlapped, and the count it shows is
\* that of the imports that are done (routers/graphs.py, ingest/jobs.py).
THEOREM CatalogueTellsTheTruth == Spec => []RegistryIsTrue
<1>1. Init => IndexInv /\ CatalogInv
  <2>1. ASSUME Init PROVE BoundInv
    <3>1. Pending(Intel) = {}
      BY <2>1 DEF Init, Idle, Pending, Has, Range
    <3>2. Cardinality(Pending(Intel)) = 0 /\ Cardinality(Loads \cap used) \in Nat
      BY <3>1, FS_EmptySet, StartedIsFinite
    <3>. QED  BY <2>1, <3>2 DEF Init, BoundInv, Graphs
  <2>2. Init => MemoryIsSaved
    BY DEF Init, MemoryIsSaved
  <2>. QED  BY <2>1, <2>2, InitIndex, InitKept, InitOwners, InitSpace, InitCount
            DEF CatalogInv, IndexInv
<1>2. IndexInv /\ CatalogInv /\ [Next]_vars => IndexInv' /\ CatalogInv'
  <2>1. IndexInv /\ CatalogInv /\ [Next]_vars => IndexInv' /\ MemoryIsSaved' /\ OwnersInv' /\ KeptOK'
    BY NextIndex, NextAdds, NextOwners, NextKept DEF CatalogInv
  <2>. QED  BY <2>1, NextBound, NextSpace, NextCount DEF CatalogInv, IndexInv
<1>3. CatalogInv => RegistryIsTrue
  BY CatalogTypes, SpacesAreListed, CountsAreTrue DEF RegistryIsTrue
<1>. QED  BY <1>1, <1>2, <1>3, PTL DEF Spec
=============================================================================
