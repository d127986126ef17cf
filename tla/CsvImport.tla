---- MODULE CsvImport ----
(*********************************************************************)
(* Importing a CSV file into a graph: inspect a sample of the rows,  *)
(* infer what the columns are, create the tag and the edge types,    *)
(* drop repeated rows, write in batches, report.  Every import runs  *)
(* on a thread of its own; two may write into the same space.        *)
(*                                                                   *)
(* A header is known by what the inference looks at (Facts), a cell  *)
(* is its text, "" when it is blank or the row is too short.         *)
(*********************************************************************)
EXTENDS Naturals, FiniteSets, Sequences, Functions

CONSTANTS Imports,    \* import jobs of one graph
          Files,      \* the files they may be given
          Facts,      \* header -> [words, typed, id, stem, valid]
          KindOf,     \* cell -> "bool", "int", "float" or "string"
          NameOf,     \* cell -> the edge type it names, "" when no letter or digit is left
          SampleRows, \* SAMPLE_ROWS
          BatchSize,  \* BATCH_SIZE
          MaxDelay,   \* attempts a new tag or edge type may stay unwritable
          Faults      \* a statement may fail for good

ASSUME ImportAssumption ==
  /\ SampleRows \in Nat \ {0} /\ BatchSize \in Nat \ {0}
  /\ MaxDelay \in Nat /\ Faults \in BOOLEAN
  /\ \A f \in Files :
       f.rows \in Seq([{f.headers[k] : k \in DOMAIN f.headers} -> DOMAIN KindOf \cup {""}])

Null == "null"

(*************** csv_inspector.py ***************)
Sample(file) == SubSeq(file.rows, 1, IF Len(file.rows) < SampleRows THEN Len(file.rows)
                                     ELSE SampleRows)
SampleCells(file, h) == {i \in DOMAIN Sample(file) : file.rows[i][h] # ""}

\* _infer_type(): from the sample alone.
TypeOf(file, h) ==
  LET kinds == {KindOf[file.rows[i][h]] : i \in SampleCells(file, h)}
  IN  CASE kinds = {} -> "string"
        [] kinds = {"bool"} -> "bool"
        [] kinds = {"int"} -> "int"
        [] kinds # {"int"} /\ kinds # {} /\ kinds \subseteq {"int", "float"} -> "float"
        [] OTHER -> "string"

\* distinct_ratio, as a numerator and a denominator.
Ratio(file, h) ==
  LET cells == SampleCells(file, h)
  IN  IF cells = {} THEN <<0, 1>>
      ELSE <<Cardinality({file.rows[i][h] : i \in cells}), Cardinality(cells)>>
Exceeds(r, s) == r[1] * s[2] > s[1] * r[2]

(*************** structure_inference.py ***************)
PairPatterns == <<<<"source", "target">>, <<"src", "dst">>, <<"from", "to">>,
                  <<"sender", "receiver">>, <<"start", "end">>, <<"node1", "node2">>,
                  <<"entity1", "entity2">>, <<"person1", "person2">>>>

Headers(file) == Range(file.headers)
Position(file, h) == CHOOSE i \in DOMAIN file.headers : file.headers[i] = h
Leftmost(file, hs) == CHOOSE h \in hs : \A g \in hs : Position(file, h) <= Position(file, g)
Mentions(file, word) == {h \in Headers(file) : word \in Facts[h].words}

\* What a pattern matches, when it matches one header on each side.
Sides(file, p) ==
  LET left == Mentions(file, PairPatterns[p][1])
      right == Mentions(file, PairPatterns[p][2]) \ left
  IN  IF Cardinality(left) = 1 /\ Cardinality(right) = 1 THEN left \X right ELSE {}

\* _find_pair(): the first pattern that matches.
NamedPairs(file) ==
  LET fitting == {p \in DOMAIN PairPatterns : Sides(file, p) # {}}
  IN  IF fitting = {} THEN {}
      ELSE Sides(file, CHOOSE p \in fitting : \A q \in fitting : p <= q)

\* _cardinality_fallback_pair(): the two columns that repeat the least, of
\* those that do repeat; in a tie the one further to the left.
Before(file, g, h) ==
  \/ Exceeds(Ratio(file, g), Ratio(file, h))
  \/ /\ ~Exceeds(Ratio(file, h), Ratio(file, g))
     /\ Position(file, g) < Position(file, h)
FallbackPairs(file) ==
  LET repeating == {h \in Headers(file) :
                      /\ Ratio(file, h)[1] > 0 /\ Exceeds(<<98, 100>>, Ratio(file, h))
                      /\ ~(Facts[h].id /\ Exceeds(Ratio(file, h), <<9, 10>>))}
      ahead(h) == {g \in repeating : Before(file, g, h)}
  IN  {p \in repeating \X repeating : ahead(p[1]) = {} /\ ahead(p[2]) = {p[1]}}

\* _find_type_column(), as a set of at most one header.
TypeColumns(file, pair) ==
  LET hinted == {h \in Headers(file) \ Range(pair) : Facts[h].typed}
  IN  IF hinted = {} THEN {} ELSE {Leftmost(file, hinted)}

\* _find_id_column()
IdColumn(file) ==
  LET hinted == {h \in Headers(file) : Facts[h].id}
      widest == {h \in Headers(file) :
                   \A g \in Headers(file) : ~Exceeds(Ratio(file, g), Ratio(file, h))}
  IN  Leftmost(file, IF hinted # {} THEN hinted ELSE widest)

Typed(file, hs) == [h \in hs |-> TypeOf(file, h)]

\* infer_structure(): EdgeListStructure or NodeTableStructure.  ends are the
\* columns a row must fill; the tag is _common_entity_name() or "entity".
Structure(file) ==
  LET named == NamedPairs(file)
      pairs == IF named # {} THEN named ELSE FallbackPairs(file)
  IN  IF pairs # {}
      THEN LET pair == CHOOSE p \in pairs : TRUE
               typed == TypeColumns(file, pair)
           IN  [kind |-> "edge_list", ends |-> pair, typed |-> typed,
                props |-> Typed(file, Headers(file) \ (Range(pair) \cup typed)),
                tag |-> IF Facts[pair[1]].stem = Facts[pair[2]].stem
                          THEN Facts[pair[1]].stem ELSE "entity"]
      ELSE LET id == IdColumn(file)
           IN  [kind |-> "node_table", ends |-> <<id>>, typed |-> {},
                props |-> Typed(file, Headers(file) \ {id}), tag |-> file.stem]

(*************** pipeline.py: from rows to what is written ***************)
\* A mutated coerce_value() that blanks what it cannot parse and says it fits.
CoerceQuietly(cell, type) ==
  IF cell = "" \/ (type \in {"int", "float"} /\ KindOf[cell] \notin {"int", type})
  THEN <<Null, TRUE>>
  ELSE <<IF type = "bool" THEN (IF cell = "yes" THEN "true" ELSE "false") ELSE cell, TRUE>>

\* coerce_value(): the value and whether the cell fitted.
Coerce(cell, type) ==
  IF cell = "" THEN <<Null, TRUE>>
  ELSE IF type \in {"int", "float"} /\ KindOf[cell] \notin {"int", type} THEN <<Null, FALSE>>
  ELSE <<IF type = "bool" THEN (IF cell = "yes" THEN "true" ELSE "false") ELSE cell, TRUE>>

Props(s, row) == [h \in DOMAIN s.props |-> Coerce(row[h], s.props[h])[1]]

\* A row without its id, or without one of its endpoints, is skipped.
Complete(s, row) == \A k \in DOMAIN s.ends : row[s.ends[k]] # ""
Kept(s, file) == {i \in DOMAIN file.rows : Complete(s, file.rows[i])}

\* Where a row's edge goes: its type, else the file's name, and its ends.
EdgeTypeOf(s, file, row) ==
  LET named == {h \in s.typed : row[h] # "" /\ NameOf[row[h]] # ""}
  IN  IF named = {} THEN file.stem ELSE NameOf[row[CHOOSE h \in named : TRUE]]
EdgeOf(s, row) == <<row[s.ends[1]], row[s.ends[2]]>>

\* vertex_rows and edges_by_type: what is to be written, by the row it is from
\* and its place there, under the key that it gets in the space.
NoProps == [h \in {} |-> Null]
VertexRows(s, file) ==
  [p \in Kept(s, file) \X DOMAIN s.ends |->
     [key |-> <<s.tag, file.rows[p[1]][s.ends[p[2]]]>>,
      props |-> IF s.kind = "edge_list" THEN NoProps ELSE Props(s, file.rows[p[1]])]]
EdgeRows(s, file) ==
  [p \in (IF s.kind = "edge_list" THEN Kept(s, file) ELSE {}) \X {1} |->
     [key |-> <<EdgeTypeOf(s, file, file.rows[p[1]]), EdgeOf(s, file.rows[p[1]])>>,
      props |-> Props(s, file.rows[p[1]])]]

(*************** writer.py ***************)
\* Pairs of numbers in their order.
Ahead(p, q) == p[1] < q[1] \/ (p[1] = q[1] /\ p[2] < q[2])

\* A mutated dedupe that compares a row with the one before it only.
UniqueNeighbours(rows) ==
  {p \in DOMAIN rows : \A q \in DOMAIN rows :
     Ahead(q, p) /\ rows[q].key = rows[p].key
       => \E r \in DOMAIN rows : Ahead(q, r) /\ Ahead(r, p)}

\* write_vertices(), write_edges(): the first row of a key wins.
Unique(rows) ==
  {p \in DOMAIN rows : \A q \in DOMAIN rows : Ahead(q, p) => rows[q].key # rows[p].key}

\* _write_batches() of the rows of one type: only the first batch is tried
\* again.  Calls are executed in the order of their places.
Inserts(on, name, turn, rows) ==
  LET mine == {p \in Unique(rows) : rows[p].key[1] = name}
      batch(p) == Cardinality({q \in mine : Ahead(q, p)}) \div BatchSize
  IN  {[kind |-> "insert", on |-> on, name |-> name, place |-> <<turn, 2 + b>>,
        rows |-> {rows[p] : p \in {q \in mine : batch(q) = b}}, patient |-> b = 0]
         : b \in {batch(p) : p \in mine}}

Creation(on, name, turn) ==
  [kind |-> "create", on |-> on, name |-> name, place |-> <<turn, 0>>, rows |-> {},
   patient |-> FALSE]
Indexing(name) ==
  [kind |-> "index", on |-> "tag", name |-> name, place |-> <<0, 1>>, rows |-> {},
   patient |-> TRUE]

VertexCalls(s, file) ==
  {Creation("tag", s.tag, 0), Indexing(s.tag)} \cup Inserts("tag", s.tag, 0, VertexRows(s, file))

\* edges_by_type: the types take turns in the order their first rows come in.
EdgeCalls(s, file) ==
  LET rows == EdgeRows(s, file)
      of(type) == {p[1] : p \in {q \in DOMAIN rows : rows[q].key[1] = type}}
      turn(type) == CHOOSE i \in of(type) : \A j \in of(type) : i <= j
  IN  UNION {{Creation("edge", type, turn(type))} \cup Inserts("edge", type, turn(type), rows)
               : type \in {rows[p].key[1] : p \in DOMAIN rows}}

\* A mutated run that writes the edges first.
EdgesFirst(s, file) ==
  EdgeCalls(s, file) \cup {[c EXCEPT !.place[1] = Len(file.rows) + 1] : c \in VertexCalls(s, file)}

\* What _run_node_table() or _run_edge_list() asks of the graph.
Calls(s, file) == VertexCalls(s, file) \cup EdgeCalls(s, file)

\* The columns a tag or an edge type is created with.
Columns(s, on) == IF s.kind = "edge_list" /\ on = "tag" THEN [h \in {} |-> "string"] ELSE s.props

\* The report of an import that got to its end.
Report(s, file) ==
  LET kept == Kept(s, file)
      repeated(rows) == Cardinality(DOMAIN rows \ Unique(rows))
  IN  [rows_read |-> Len(file.rows),
       vertices_created |-> Cardinality(Unique(VertexRows(s, file))),
       edges_created |-> Cardinality(Unique(EdgeRows(s, file))),
       duplicates_skipped |-> repeated(VertexRows(s, file)) + repeated(EdgeRows(s, file)),
       skipped |-> DOMAIN file.rows \ kept,
       unparsed |-> {p \in kept \X DOMAIN s.props :
                       ~Coerce(file.rows[p[1]][p[2]], s.props[p[2]])[2]}]

NoPlan == [structure |-> "none", calls |-> {}]
\* run_import() up to its first statement; a file without headers has no
\* column to take for an id and fails before that.
Plan(file) ==
  IF file.headers = <<>> THEN NoPlan
  ELSE LET s == Structure(file)
       IN  [structure |-> s, calls |-> Calls(s, file), report |-> Report(s, file)]

(*************** the running imports ***************)
VARIABLES
  file,      \* what each import was given
  plan,      \* what run_import() makes of that file: see Plan
  calls,     \* what it still asks of the graph
  tries,     \* failed attempts of the current call
  status,    \* "pending", "running", "done" or "failed"
  cause,     \* why it failed
  report,    \* the report of a done import
  schema,    \* <<on, name>> -> its columns, for every tag and edge type created
  delay,     \* <<on, name>> -> attempts for which it is not writable yet
  vertices,  \* <<tag, vid>> -> properties
  edges      \* <<type, <<src, dst>>>> -> properties

vars == <<file, plan, calls, tries, status, cause, report, schema, delay, vertices, edges>>
NoReport == [rows_read |-> 0]

\* inspect_csv() and infer_structure(); a file without headers has no
\* column to take for an id and fails there.
Start(i) ==
  /\ status[i] = "pending"
  /\ IF plan[i] = NoPlan
       THEN /\ status' = [status EXCEPT ![i] = "failed"]
            /\ cause' = [cause EXCEPT ![i] = "empty"]
            /\ UNCHANGED calls
       ELSE /\ status' = [status EXCEPT ![i] = "running"]
            /\ calls' = [calls EXCEPT ![i] = plan[i].calls]
            /\ UNCHANGED cause
  /\ UNCHANGED <<file, plan, tries, report, schema, delay, vertices, edges>>

\* The call an import is at.
Current(i) == CHOOSE c \in calls[i] : \A d \in calls[i] : ~Ahead(d.place, c.place)
Calling(i, kind) == status[i] = "running" /\ calls[i] # {} /\ Current(i).kind = kind
Target(i) == <<Current(i).on, Current(i).name>>
Proceed(i) == /\ calls' = [calls EXCEPT ![i] = @ \ {Current(i)}]
              /\ tries' = [tries EXCEPT ![i] = 0]
              /\ UNCHANGED <<status, cause>>
Fail(i, why) == /\ status' = [status EXCEPT ![i] = "failed"]
                /\ cause' = [cause EXCEPT ![i] = why]
                /\ calls' = [calls EXCEPT ![i] = {}]
                /\ UNCHANGED tries

\* ensure_tag(), ensure_edge_type(): IF NOT EXISTS, so the columns of the
\* first import stay; a header is used as a column name as it is.
CreateSchema(i) ==
  /\ Calling(i, "create")
  /\ LET cols == Columns(plan[i].structure, Current(i).on)
     IN  IF \E h \in DOMAIN cols : ~Facts[h].valid
         THEN Fail(i, "name") /\ UNCHANGED <<schema, delay>>
         ELSE /\ Proceed(i)
              /\ IF Target(i) \in DOMAIN schema THEN UNCHANGED <<schema, delay>>
                 ELSE \E d \in 0 .. MaxDelay :
                        /\ schema' = [x \in DOMAIN schema \cup {Target(i)} |->
                             IF x = Target(i) THEN cols ELSE schema[x]]
                        /\ delay' = [x \in DOMAIN delay \cup {Target(i)} |->
                             IF x = Target(i) THEN d ELSE delay[x]]
  /\ UNCHANGED <<file, plan, report, vertices, edges>>

\* A mutated write_with_retry() that gives up one attempt early.
AttemptsFewer == 4
\* write_with_retry(): at once and after 1, 2, 4 and 8 seconds.
Attempts == 5

\* A statement that failed: the next attempt, or the end of the import.
TryAgain(i, why) ==
  IF Current(i).patient /\ tries[i] + 1 < Attempts
  THEN tries' = [tries EXCEPT ![i] = @ + 1] /\ UNCHANGED <<calls, status, cause>>
  ELSE Fail(i, why)

\* The type is not propagated yet; the attempt fails.
TooEarly(i) ==
  /\ delay[Target(i)] > 0
  /\ delay' = [delay EXCEPT ![Target(i)] = @ - 1]
  /\ TryAgain(i, "delay")
  /\ UNCHANGED <<vertices, edges>>

Index(i) ==
  /\ Calling(i, "index")
  /\ \/ TooEarly(i)
     \/ delay[Target(i)] = 0 /\ Proceed(i) /\ UNCHANGED <<delay, vertices, edges>>
  /\ UNCHANGED <<file, plan, report, schema>>

\* The rows of a batch name columns of the type, with values of their types.
Matches(i) ==
  LET cols == Columns(plan[i].structure, Current(i).on)
  IN  \A r \in Current(i).rows, h \in DOMAIN cols :
        /\ h \in DOMAIN schema[Target(i)]
        /\ r.props[h] = Null \/ cols[h] = schema[Target(i)][h]

\* INSERT replaces the properties of what is there already.
Put(graph, rows) ==
  LET new == {r.key : r \in rows}
  IN  [x \in DOMAIN graph \cup new |->
         IF x \in new THEN (CHOOSE r \in rows : r.key = x).props ELSE graph[x]]

Insert(i) ==
  /\ Calling(i, "insert")
  /\ LET call == Current(i)
     IN  \/ TooEarly(i)
         \/ /\ delay[Target(i)] = 0 /\ Matches(i)
            /\ IF call.on = "tag"
                 THEN vertices' = Put(vertices, call.rows) /\ UNCHANGED edges
                 ELSE edges' = Put(edges, call.rows) /\ UNCHANGED vertices
            /\ Proceed(i) /\ UNCHANGED delay
         \/ /\ delay[Target(i)] = 0 /\ ~Matches(i)
            /\ TryAgain(i, "schema") /\ UNCHANGED <<delay, vertices, edges>>
  /\ UNCHANGED <<file, plan, report, schema>>

\* The connection breaks, which is no QueryExecutionError and is never tried
\* again; or the process ends and the thread with it.
Break(i) ==
  /\ Faults /\ status[i] = "running" /\ calls[i] # {}
  /\ Fail(i, "fault")
  /\ UNCHANGED <<file, plan, report, schema, delay, vertices, edges>>

Finish(i) ==
  /\ status[i] = "running" /\ calls[i] = {}
  /\ status' = [status EXCEPT ![i] = "done"]
  /\ report' = [report EXCEPT ![i] = plan[i].report]
  /\ UNCHANGED <<file, plan, calls, tries, cause, schema, delay, vertices, edges>>

Init ==
  /\ file \in [Imports -> Files]
  /\ plan = [i \in Imports |-> Plan(file[i])]
  /\ calls = [i \in Imports |-> {}]
  /\ tries = [i \in Imports |-> 0]
  /\ status = [i \in Imports |-> "pending"]
  /\ cause = [i \in Imports |-> ""]
  /\ report = [i \in Imports |-> NoReport]
  /\ schema = [x \in {} |-> ""] /\ delay = [x \in {} |-> 0]
  /\ vertices = [x \in {} |-> ""] /\ edges = [x \in {} |-> ""]

Work(i) == Start(i) \/ CreateSchema(i) \/ Index(i) \/ Insert(i) \/ Finish(i)
Next == \E i \in Imports : Work(i) \/ Break(i)
Spec == Init /\ [][Next]_vars /\ \A i \in Imports : WF_vars(Work(i))
----
(*************** properties ***************)
\* Types: an import uses up its attempts before it fails (write_with_retry).
TypeOK ==
  /\ file \in [Imports -> Files]
  /\ tries \in [Imports -> 0 .. Attempts - 1]
  /\ status \in [Imports -> {"pending", "running", "done", "failed"}]
  /\ cause \in [Imports -> {"", "empty", "name", "delay", "schema", "fault"}]
  /\ DOMAIN delay = DOMAIN schema
  /\ \A x \in DOMAIN delay : delay[x] \in 0 .. MaxDelay
  /\ \A i \in Imports : calls[i] # {} => status[i] = "running"

\* Wherever an import stops or another one runs into it, both ends of every
\* edge in the space are vertices: the graph never shows a dangling edge
\* (pipeline.py, _run_edge_list writes the vertices first).
EndpointsExist ==
  \A x \in DOMAIN edges, k \in 1 .. 2 :
    \E y \in DOMAIN vertices : y[2] = x[2][k]

\* Whatever stops an import, what it leaves is a graph.
GraphIsSound == TypeOK /\ EndpointsExist

Touched(j) == {<<c.on, c.name>> : c \in plan[j].calls}
\* Import i is done, and no import of another file writes its types.
DoneAlone(i) ==
  /\ status[i] = "done"
  /\ \A j \in Imports \ {i} : file[j] = file[i] \/ Touched(j) \cap Touched(i) = {}

\* What the report of a finished import counts is what the space shows when
\* nobody else writes those types: every row is created, a duplicate or
\* skipped, and the two ends of an edge row are each one or the other
\* (report.py, write_vertices, write_edges).
ReportAddsUp ==
  \A i \in Imports : DoneAlone(i) =>
    LET r == report[i]
        mine(graph, on) == {x \in DOMAIN graph : <<on, x[1]>> \in Touched(i)}
        kept == r.rows_read - Cardinality(r.skipped)
    IN  /\ r.vertices_created = Cardinality(mine(vertices, "tag"))
        /\ r.edges_created = Cardinality(mine(edges, "edge"))
        /\ r.vertices_created + r.edges_created + r.duplicates_skipped
             = IF plan[i].structure.kind = "edge_list" THEN 3 * kept ELSE kept

\* A cell of a finished import is in the space as it was read, or its row
\* was skipped or repeats an earlier one, or it is reported as not fitting:
\* nothing is lost in silence.  A column taken for a boolean is excepted:
\* there a word past the sample that is none becomes false, and no error
\* says so (writer.py, coerce_value).
NothingSilentlyLost ==
  \A i \in Imports : DoneAlone(i) =>
    LET s == plan[i].structure
        rows == file[i].rows
        isEdge == s.kind = "edge_list"
        graph == IF isEdge THEN edges ELSE vertices
        key(row) == IF isEdge THEN <<EdgeTypeOf(s, file[i], row), EdgeOf(s, row)>>
                    ELSE <<s.tag, row[s.ends[1]]>>
    IN  \A n \in DOMAIN rows \ report[i].skipped, h \in DOMAIN s.props :
          \/ rows[n][h] = "" \/ s.props[h] = "bool"
          \/ <<n, h>> \in report[i].unparsed
          \/ \E m \in 1 .. n - 1 : m \notin report[i].skipped /\ key(rows[m]) = key(rows[n])
          \/ key(rows[n]) \in DOMAIN graph /\ graph[key(rows[n])][h] = rows[n][h]

\* Every import ends (ingest/jobs.py): it is done, or it failed for a broken
\* connection, a bad name, an empty file or a clash of schemas.  A new tag or
\* edge type that takes up to four attempts to become writable fails none,
\* whichever of the two imports created it (writer.py, write_with_retry).
ImportsEnd ==
  \A i \in Imports :
    <>(status[i] = "done" \/ (status[i] = "failed" /\ cause[i] # "delay"))
====
