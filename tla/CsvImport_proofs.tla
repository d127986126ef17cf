-------------------------- MODULE CsvImport_proofs --------------------------
(***************************************************************************)
(* What the imports of any files leave in a space, and what they report.   *)
(*                                                                         *)
(* Two facts carry the proofs: what an import has sent so far is in the    *)
(* space (Sent), and all that is in the space was sent by an import, with  *)
(* the properties it has (Origin).  That the ends of an edge are there     *)
(* follows from the first and the order of the calls, that counts and      *)
(* values are right when nobody else writes the same types, from both.     *)
(***************************************************************************)
EXTENDS CsvImport, Integers, FiniteSetTheorems, WellFoundedInduction, TLAPS

-----------------------------------------------------------------------------
(* Numbers and places                                                      *)

LEMMA LessIsWellFounded == IsWellFoundedOn({p \in Nat \X Nat : p[1] < p[2]}, Nat)
  BY NatLessThanWellFounded DEF OpToRel

\* Of some numbers one is the least.
LEMMA LeastNumber ==
    ASSUME NEW T, T \subseteq Nat, T # {}
    PROVE  \E x \in T : \A y \in T : x <= y
<1>. DEFINE R == {p \in Nat \X Nat : p[1] < p[2]}
<1>1. PICK x \in T : \A y \in T : ~(<<y, x>> \in R)
  <2>. HIDE DEF R
  <2>. QED  BY LessIsWellFounded, WFMin DEF R
<1>2. ASSUME NEW y \in T PROVE x <= y
  <2>1. x \in Nat /\ y \in Nat /\ ~(<<y, x>> \in R)
    BY <1>1
  <2>2. ~(y < x)
    BY <2>1
  <2>. QED  BY <2>1, <2>2
<1>. QED  BY <1>2

\* Of some places none of the others is ahead of one.
LEMMA LeastPlace ==
    ASSUME NEW T, T \subseteq Nat \X Nat, T # {}
    PROVE  \E p \in T : \A q \in T : ~Ahead(q, p)
<1>1. PICK a \in {p[1] : p \in T} : \A b \in {p[1] : p \in T} : a <= b
  <2>1. {p[1] : p \in T} \subseteq Nat /\ {p[1] : p \in T} # {}
    OBVIOUS
  <2>. QED  BY <2>1, LeastNumber
<1>. DEFINE S == {p \in T : p[1] = a}
<1>2. PICK c \in {p[2] : p \in S} : \A d \in {p[2] : p \in S} : c <= d
  <2>1. {p[2] : p \in S} \subseteq Nat /\ {p[2] : p \in S} # {}
    BY <1>1
  <2>. QED  BY <2>1, LeastNumber
<1>3. PICK p \in S : p[2] = c
  BY <1>2
<1>4. ASSUME NEW q \in T PROVE ~Ahead(q, p)
  <2>1. a <= q[1] /\ (q[1] = a => c <= q[2])
    BY <1>1, <1>2
  <2>2. q[1] \in Nat /\ q[2] \in Nat /\ a \in Nat /\ c \in Nat
    BY <1>3
  <2>. QED  BY <1>3, <2>1, <2>2 DEF Ahead
<1>. QED  BY <1>3, <1>4

-----------------------------------------------------------------------------
(* The rows to write                                                       *)

\* Every key has a first row.
LEMMA KeyHasFirst ==
    ASSUME NEW rows, DOMAIN rows \subseteq Nat \X Nat, NEW p \in DOMAIN rows
    PROVE  \E q \in Unique(rows) : rows[q].key = rows[p].key
<1>. DEFINE T == {q \in DOMAIN rows : rows[q].key = rows[p].key}
<1>1. PICK q \in T : \A r \in T : ~Ahead(r, q)
  BY LeastPlace
<1>. QED  BY <1>1 DEF Unique

\* A key has one first row.
LEMMA FirstIsOne ==
    ASSUME NEW rows, DOMAIN rows \subseteq Nat \X Nat, NEW p \in Unique(rows), NEW q \in Unique(rows),
           rows[p].key = rows[q].key
    PROVE  p = q
<1>1. p \in Nat \X Nat /\ q \in Nat \X Nat /\ ~Ahead(p, q) /\ ~Ahead(q, p)
  BY DEF Unique
<1>2. p[1] = q[1] /\ p[2] = q[2]
  BY <1>1 DEF Ahead
<1>. QED  BY <1>1, <1>2

\* The rows of one kind that an import has to write.
RowsOf(s, f, on) == IF on = "tag" THEN VertexRows(s, f) ELSE EdgeRows(s, f)

\* What is inferred of a file has one end, or two.
LEMMA StructureHasEnds ==
    ASSUME NEW f
    PROVE  LET s == Structure(f)
           IN  \/ s.kind = "edge_list" /\ DOMAIN s.ends = {1, 2}
               \/ s.kind = "node_table" /\ DOMAIN s.ends = {1}
<1>. DEFINE named == NamedPairs(f)
            pairs == IF named # {} THEN named ELSE FallbackPairs(f)
            s == Structure(f)
<1>2. \A x \in named : DOMAIN x = {1, 2}
  <2>. DEFINE fitting == {p \in DOMAIN PairPatterns : Sides(f, p) # {}}
              p == CHOOSE p \in fitting : \A q \in fitting : p <= q
  <2>1. named = IF fitting = {} THEN {} ELSE Sides(f, p)
    BY DEF NamedPairs
  <2>2. \A q : \A x \in Sides(f, q) : DOMAIN x = {1, 2}
    BY DEF Sides
  <2>. HIDE DEF p, fitting, named
  <2>3. \A x \in Sides(f, p) : DOMAIN x = {1, 2}
    BY <2>2
  <2>. QED  BY <2>1, <2>3
<1>3. \A x \in FallbackPairs(f) : DOMAIN x = {1, 2}
  BY DEF FallbackPairs
<1>4. CASE pairs # {}
  <2>1. s.kind = "edge_list" /\ s.ends = CHOOSE p \in pairs : TRUE
    BY <1>4 DEF Structure
  <2>2. (CHOOSE p \in pairs : TRUE) \in pairs
    BY <1>4
  <2>. QED  BY <1>2, <1>3, <2>1, <2>2
<1>5. CASE pairs = {}
  <2>1. s.kind = "node_table" /\ s.ends = <<IdColumn(f)>>
    BY <1>5 DEF Structure
  <2>. QED  BY <2>1
<1>. QED  BY <1>4, <1>5

\* The rows to write have places, finitely many; the vertex rows have the ends
\* of the edge rows.
LEMMA RowsHavePlaces ==
    ASSUME NEW f \in Files, NEW s, DOMAIN s.ends \subseteq {1, 2}, NEW on
    PROVE  DOMAIN RowsOf(s, f, on) \subseteq (DOMAIN f.rows) \X {1, 2}
           /\ (DOMAIN f.rows) \X {1, 2} \subseteq (Nat \ {0}) \X Nat
           /\ IsFiniteSet(DOMAIN RowsOf(s, f, on))
<1>1. DOMAIN f.rows = 1 .. Len(f.rows) /\ Len(f.rows) \in Nat
  <2>1. f.rows \in Seq([{f.headers[k] : k \in DOMAIN f.headers} -> DOMAIN KindOf \cup {""}])
    BY ImportAssumption
  <2>2. \A S, q : q \in Seq(S) => DOMAIN q = 1 .. Len(q) /\ Len(q) \in Nat
    OBVIOUS
  <2>. QED  BY <2>1, <2>2
<1>2. IsFiniteSet(DOMAIN f.rows) /\ IsFiniteSet({1, 2})
  <2>1. \A n \in Nat : IsFiniteSet(1 .. n)
    BY FS_Interval
  <2>2. {1, 2} = 1 .. 2
    OBVIOUS
  <2>. QED  BY <1>1, <2>1, <2>2
<1>3. DOMAIN RowsOf(s, f, on) \subseteq (DOMAIN f.rows) \X {1, 2}
  BY DEF RowsOf, VertexRows, EdgeRows, Kept
<1>4. (DOMAIN f.rows) \X {1, 2} \subseteq (Nat \ {0}) \X Nat
  BY <1>1
<1>5. IsFiniteSet((DOMAIN f.rows) \X {1, 2})
  BY <1>2, FS_Product
<1>6. IsFiniteSet(DOMAIN RowsOf(s, f, on))
  BY <1>3, <1>5, FS_Subset
<1>. QED  BY <1>3, <1>4, <1>6

LEMMA EndsAreRows ==
    ASSUME NEW f, NEW s, s.kind = "edge_list" => DOMAIN s.ends = {1, 2},
           NEW p \in DOMAIN EdgeRows(s, f), NEW k \in 1 .. 2
    PROVE  \E q \in DOMAIN VertexRows(s, f) :
              VertexRows(s, f)[q].key[2] = EdgeRows(s, f)[p].key[2][k]
<1>. DEFINE q == <<p[1], k>>
<1>1. s.kind = "edge_list" /\ p[1] \in Kept(s, f)
  BY DEF EdgeRows
<1>2. q \in DOMAIN VertexRows(s, f)
  BY <1>1 DEF VertexRows
<1>3. VertexRows(s, f)[q].key[2] = f.rows[p[1]][s.ends[k]]
  BY <1>2 DEF VertexRows
<1>4. EdgeRows(s, f)[p].key[2] = EdgeOf(s, f.rows[p[1]])
  BY DEF EdgeRows
<1>5. EdgeOf(s, f.rows[p[1]])[k] = f.rows[p[1]][s.ends[k]]
  BY DEF EdgeOf
<1>. QED  BY <1>2, <1>3, <1>4, <1>5

-----------------------------------------------------------------------------
(* The calls of an import                                                  *)

\* An insert of rows of a type sends first rows of the type, and all of them
\* are in one.
LEMMA InsertsAre ==
    ASSUME NEW on, NEW name, NEW turn, NEW rows, IsFiniteSet(DOMAIN rows)
    PROVE  /\ \A c \in Inserts(on, name, turn, rows) :
                 /\ c.kind = "insert" /\ c.on = on /\ c.name = name
                 /\ c.place \in {turn} \X Nat
                 /\ \A r \in c.rows : \E p \in Unique(rows) : rows[p].key[1] = name /\ r = rows[p]
           /\ \A p \in Unique(rows) :
                 rows[p].key[1] = name
                     => \E c \in Inserts(on, name, turn, rows) : rows[p] \in c.rows
<1>. DEFINE mine == {p \in Unique(rows) : rows[p].key[1] = name}
            batch(p) == Cardinality({q \in mine : Ahead(q, p)}) \div BatchSize
            sent(b) == {rows[p] : p \in {q \in mine : batch(q) = b}}
            call(b) == [kind |-> "insert", on |-> on, name |-> name, place |-> <<turn, 2 + b>>,
                        rows |-> sent(b), patient |-> b = 0]
<1>1. Inserts(on, name, turn, rows) = {call(b) : b \in {batch(p) : p \in mine}}
  BY DEF Inserts
<1>2. ASSUME NEW p \in mine PROVE batch(p) \in Nat
  <2>1. {q \in mine : Ahead(q, p)} \subseteq DOMAIN rows
    BY DEF Unique
  <2>2. Cardinality({q \in mine : Ahead(q, p)}) \in Nat
    BY <2>1, FS_Subset, FS_CardinalityType
  <2>3. \A m \in Nat, k \in Nat \ {0} : m \div k \in Nat
    OBVIOUS
  <2>. QED  BY <2>2, <2>3, ImportAssumption
<1>3. ASSUME NEW b \in Nat
      PROVE  /\ call(b).kind = "insert" /\ call(b).on = on /\ call(b).name = name
             /\ call(b).place \in {turn} \X Nat
             /\ \A r \in call(b).rows : \E p \in Unique(rows) : rows[p].key[1] = name /\ r = rows[p]
  <2>. HIDE DEF batch
  <2>1. \A r \in sent(b) : \E p \in Unique(rows) : rows[p].key[1] = name /\ r = rows[p]
    OBVIOUS
  <2>. HIDE DEF sent
  <2>. QED  BY <2>1
<1>4. ASSUME NEW p \in mine PROVE rows[p] \in call(batch(p)).rows
  OBVIOUS
<1>. HIDE DEF batch, call
<1>. QED  BY <1>1, <1>2, <1>3, <1>4

\* The calls of an import have places, those on tags before those on edge
\* types; they send the first rows of every key, each in a call for its type.
LEMMA CallsAre ==
    ASSUME NEW f \in Files, NEW s, DOMAIN s.ends \subseteq {1, 2}
    PROVE  /\ \A c \in Calls(s, f) :
                 /\ c.place \in Nat \X Nat
                 /\ (c.on = "tag" /\ c.place[1] = 0) \/ (c.on = "edge" /\ c.place[1] # 0)
                 /\ c.kind # "insert" => c.rows = {}
                 /\ \A r \in c.rows : \E p \in Unique(RowsOf(s, f, c.on)) :
                       RowsOf(s, f, c.on)[p].key[1] = c.name /\ r = RowsOf(s, f, c.on)[p]
           /\ \A on \in {"tag", "edge"} : \A p \in Unique(RowsOf(s, f, on)) :
                 \E c \in Calls(s, f) :
                    c.kind = "insert" /\ c.on = on /\ RowsOf(s, f, on)[p] \in c.rows
<1>. DEFINE vrows == VertexRows(s, f)
            erows == EdgeRows(s, f)
            of(type) == {p[1] : p \in {q \in DOMAIN erows : erows[q].key[1] = type}}
            turn(type) == CHOOSE i \in of(type) : \A j \in of(type) : i <= j
            types == {erows[p].key[1] : p \in DOMAIN erows}
            callsOf(type) == {Creation("edge", type, turn(type))} \cup Inserts("edge", type, turn(type), erows)
<1>1. RowsOf(s, f, "tag") = vrows /\ RowsOf(s, f, "edge") = erows
  BY DEF RowsOf
<1>2. /\ IsFiniteSet(DOMAIN vrows) /\ IsFiniteSet(DOMAIN erows)
      /\ \A p \in DOMAIN erows : p[1] \in Nat \ {0}
  BY <1>1, RowsHavePlaces
<1>3. VertexCalls(s, f) = {Creation("tag", s.tag, 0), Indexing(s.tag)} \cup Inserts("tag", s.tag, 0, vrows)
  BY DEF VertexCalls
<1>4. EdgeCalls(s, f) = UNION {callsOf(type) : type \in types}
  BY DEF EdgeCalls
<1>5. ASSUME NEW type \in types PROVE turn(type) \in Nat \ {0}
  <2>1. of(type) \subseteq Nat \ {0} /\ of(type) # {}
    BY <1>2
  <2>2. \E i \in of(type) : \A j \in of(type) : i <= j
    <3>. HIDE DEF of
    <3>. QED  BY <2>1, LeastNumber
  <2>. HIDE DEF of
  <2>. QED  BY <2>1, <2>2
<1>. HIDE DEF turn
<1>6. ASSUME NEW c \in VertexCalls(s, f)
      PROVE  /\ c.place \in Nat \X Nat /\ c.on = "tag" /\ c.place[1] = 0
             /\ c.kind # "insert" => c.rows = {}
             /\ \A r \in c.rows : \E p \in Unique(vrows) : vrows[p].key[1] = c.name /\ r = vrows[p]
  <2>1. CASE c = Creation("tag", s.tag, 0) \/ c = Indexing(s.tag)
    BY <2>1 DEF Creation, Indexing
  <2>2. CASE c \in Inserts("tag", s.tag, 0, vrows)
    BY <2>2, <1>2, InsertsAre
  <2>. QED  BY <1>3, <2>1, <2>2
<1>7. ASSUME NEW type \in types, NEW c \in callsOf(type)
      PROVE  /\ c.place \in Nat \X Nat /\ c.on = "edge" /\ c.place[1] # 0
             /\ c.kind # "insert" => c.rows = {}
             /\ \A r \in c.rows : \E p \in Unique(erows) : erows[p].key[1] = c.name /\ r = erows[p]
  <2>1. CASE c = Creation("edge", type, turn(type))
    BY <1>5, <2>1 DEF Creation
  <2>2. CASE c \in Inserts("edge", type, turn(type), erows)
    BY <2>2, <1>2, <1>5, InsertsAre
  <2>. QED  BY <2>1, <2>2
<1>8. ASSUME NEW p \in Unique(vrows)
      PROVE  \E c \in VertexCalls(s, f) : c.kind = "insert" /\ c.on = "tag" /\ vrows[p] \in c.rows
  <2>1. vrows[p].key[1] = s.tag
    BY DEF VertexRows, Unique
  <2>. QED  BY <1>2, <1>3, <2>1, InsertsAre
<1>9. ASSUME NEW p \in Unique(erows)
      PROVE  \E c \in EdgeCalls(s, f) : c.kind = "insert" /\ c.on = "edge" /\ erows[p] \in c.rows
  <2>. DEFINE type == erows[p].key[1]
  <2>1. type \in types
    BY DEF Unique
  <2>2. \E c \in Inserts("edge", type, turn(type), erows) :
           c.kind = "insert" /\ c.on = "edge" /\ erows[p] \in c.rows
    BY <1>2, InsertsAre
  <2>. HIDE DEF type, types
  <2>. QED  BY <1>4, <2>1, <2>2
<1>. HIDE DEF callsOf, types, vrows, erows
<1>. QED  BY <1>1, <1>4, <1>6, <1>7, <1>8, <1>9 DEF Calls

-----------------------------------------------------------------------------
(* The invariant                                                           *)

Space(on) == IF on = "tag" THEN vertices ELSE edges

\* An import has to do what its file says, or the rest of it.
Planned ==
    /\ plan = [i \in Imports |-> Plan(file[i])]
    /\ calls = [i \in Imports |-> calls[i]]
    /\ report = [i \in Imports |-> report[i]]
    /\ \A i \in Imports :
          /\ calls[i] \subseteq plan[i].calls
          /\ status[i] \in {"running", "done"} => file[i].headers # <<>>
          /\ status[i] = "done" => calls[i] = {} /\ report[i] = plan[i].report

\* What an import has sent is in the space.
Sent ==
    \A i \in Imports : status[i] \in {"running", "done"} =>
        \A c \in plan[i].calls \ calls[i] : \A r \in c.rows : r.key \in DOMAIN Space(c.on)

\* What is in the space was sent by an import, with the properties it has.
Origin ==
    \A on \in {"tag", "edge"} : \A x \in DOMAIN Space(on) :
        \E j \in Imports : \E c \in plan[j].calls :
            c.on = on /\ \E r \in c.rows : r.key = x /\ Space(on)[x] = r.props

ImportInv == TypeOK /\ Planned /\ Sent /\ Origin /\ EndpointsExist

\* TypeOK and Planned again, by what a step changes: the state of the imports,
\* and the delays of the types.
Control ==
    /\ file \in [Imports -> Files]
    /\ tries \in [Imports -> 0 .. Attempts - 1]
    /\ status \in [Imports -> {"pending", "running", "done", "failed"}]
    /\ cause \in [Imports -> {"", "empty", "name", "delay", "schema", "fault"}]
    /\ \A i \in Imports : calls[i] # {} => status[i] = "running"
    /\ Planned

Delays ==
    /\ DOMAIN delay = DOMAIN schema
    /\ \A x \in DOMAIN delay : delay[x] \in 0 .. MaxDelay

\* That the imports are planned, import by import.
LEMMA PlannedKept ==
    ASSUME Planned, UNCHANGED <<file, plan>>,
           calls' = [j \in Imports |-> calls'[j]], report' = [j \in Imports |-> report'[j]],
           \A j \in Imports :
              /\ calls'[j] \subseteq plan[j].calls
              /\ status'[j] \in {"running", "done"} => file[j].headers # <<>>
              /\ status'[j] = "done" => calls'[j] = {} /\ report'[j] = plan[j].report
    PROVE  Planned'
  BY DEF Planned

LEMMA TypesAre == /\ TypeOK /\ Planned <=> Control /\ Delays
                  /\ (TypeOK /\ Planned <=> Control /\ Delays)'
  BY DEF TypeOK, Control, Delays

-----------------------------------------------------------------------------
(* What a step does to an import                                           *)

\* A call has succeeded.
LEMMA ProceedControl ==
    ASSUME Control, NEW i \in Imports, status[i] = "running", Proceed(i),
           UNCHANGED <<file, plan, report>>
    PROVE  Control'
<1>1. /\ calls' = [calls EXCEPT ![i] = @ \ {Current(i)}]
      /\ tries' = [tries EXCEPT ![i] = 0] /\ status' = status /\ cause' = cause
  BY DEF Proceed
<1>2. tries' \in [Imports -> 0 .. Attempts - 1]
  <2>. DEFINE T == 0 .. Attempts - 1
  <2>1. 0 \in T
    BY DEF Attempts
  <2>2. tries \in [Imports -> T]
    BY DEF Control
  <2>. HIDE DEF T
  <2>3. tries' \in [Imports -> T]
    BY <1>1, <2>1, <2>2
  <2>. QED  BY <2>3 DEF T
<1>3. /\ calls' = [j \in Imports |-> calls'[j]]
      /\ \A j \in Imports : calls'[j] \subseteq calls[j]
  BY <1>1 DEF Control, Planned
<1>4. \A j \in Imports : calls'[j] # {} => status'[j] = "running"
  BY <1>1, <1>3 DEF Control
<1>5. ASSUME NEW j \in Imports
      PROVE  /\ calls'[j] \subseteq plan[j].calls
             /\ status'[j] \in {"running", "done"} => file[j].headers # <<>>
             /\ status'[j] = "done" => calls'[j] = {} /\ report'[j] = plan[j].report
  BY <1>1, <1>3 DEF Control, Planned
<1>6. Planned'
  BY <1>3, <1>5, PlannedKept DEF Control, Planned
<1>. QED  BY <1>1, <1>2, <1>4, <1>6 DEF Control

\* An import has ended before it was done.
LEMMA FailControl ==
    ASSUME Control, NEW i \in Imports, NEW why \in {"name", "delay", "schema", "fault"},
           Fail(i, why), UNCHANGED <<file, plan, report>>
    PROVE  Control'
<1>1. /\ calls' = [calls EXCEPT ![i] = {}] /\ tries' = tries
      /\ status' = [status EXCEPT ![i] = "failed"] /\ cause' = [cause EXCEPT ![i] = why]
  BY DEF Fail
<1>2. /\ status' \in [Imports -> {"pending", "running", "done", "failed"}]
      /\ cause' \in [Imports -> {"", "empty", "name", "delay", "schema", "fault"}]
      /\ status'[i] = "failed" /\ \A j \in Imports \ {i} : status'[j] = status[j]
  BY <1>1 DEF Control
<1>3. /\ calls' = [j \in Imports |-> calls'[j]]
      /\ calls'[i] = {} /\ \A j \in Imports \ {i} : calls'[j] = calls[j]
  BY <1>1 DEF Control, Planned
<1>4. \A j \in Imports : calls'[j] # {} => status'[j] = "running"
  BY <1>2, <1>3 DEF Control
<1>5. ASSUME NEW j \in Imports
      PROVE  /\ calls'[j] \subseteq plan[j].calls
             /\ status'[j] \in {"running", "done"} => file[j].headers # <<>>
             /\ status'[j] = "done" => calls'[j] = {} /\ report'[j] = plan[j].report
  <2>1. CASE j = i
    BY <1>2, <1>3, <2>1
  <2>2. CASE j # i
    <3>1. /\ calls[j] \subseteq plan[j].calls
          /\ status[j] \in {"running", "done"} => file[j].headers # <<>>
          /\ status[j] = "done" => calls[j] = {} /\ report[j] = plan[j].report
      BY DEF Control, Planned
    <3>2. calls'[j] = calls[j] /\ status'[j] = status[j] /\ report'[j] = report[j]
      BY <1>2, <1>3, <2>2
    <3>. QED  BY <3>1, <3>2
  <2>. QED  BY <2>1, <2>2
<1>6. Planned'
  BY <1>3, <1>5, PlannedKept DEF Control, Planned
<1>. QED  BY <1>1, <1>2, <1>4, <1>6 DEF Control

\* A statement has failed.
LEMMA TryAgainControl ==
    ASSUME Control, NEW i \in Imports, NEW why \in {"delay", "schema"},
           TryAgain(i, why), UNCHANGED <<file, plan, report>>
    PROVE  Control'
<1>1. CASE Fail(i, why)
  BY <1>1, FailControl
<1>2. CASE tries[i] + 1 < Attempts /\ tries' = [tries EXCEPT ![i] = @ + 1]
           /\ UNCHANGED <<calls, status, cause>>
  <2>. DEFINE T == 0 .. Attempts - 1
  <2>1. tries \in [Imports -> T]
    BY DEF Control
  <2>2. tries[i] + 1 \in T
    <3>1. tries[i] \in T
      BY <2>1
    <3>. QED  BY <1>2, <3>1 DEF Attempts
  <2>. HIDE DEF T
  <2>3. tries' \in [Imports -> T]
    BY <1>2, <2>1, <2>2
  <2>. QED  BY <1>2, <2>3 DEF Control, Planned, T
<1>. QED  BY <1>1, <1>2 DEF TryAgain

\* The plan of an import that runs or has run.
LEMMA PlanIs ==
    ASSUME TypeOK, Planned, NEW i \in Imports, file[i].headers # <<>>
    PROVE  /\ plan[i].structure = Structure(file[i])
           /\ plan[i].calls = Calls(Structure(file[i]), file[i])
           /\ plan[i].report = Report(Structure(file[i]), file[i])
           /\ file[i] \in Files /\ DOMAIN Structure(file[i]).ends \subseteq {1, 2}
<1>. DEFINE s == Structure(file[i])
<1>1. plan[i] = [structure |-> s, calls |-> Calls(s, file[i]), report |-> Report(s, file[i])]
  BY DEF Planned, Plan
<1>2. file[i] \in Files
  BY DEF TypeOK
<1>3. DOMAIN s.ends \subseteq {1, 2}
  BY StructureHasEnds
<1>. HIDE DEF s
<1>4. plan[i].structure = s /\ plan[i].calls = Calls(s, file[i]) /\ plan[i].report = Report(s, file[i])
  BY <1>1
<1>. QED  BY <1>2, <1>3, <1>4 DEF s

\* The call an import is at: none of those it still has to make is ahead of it.
LEMMA CurrentIs ==
    ASSUME TypeOK, Planned, NEW i \in Imports, calls[i] # {}
    PROVE  /\ Current(i) \in calls[i]
           /\ \A d \in calls[i] : ~Ahead(d.place, Current(i).place)
<1>1. plan[i] = Plan(file[i]) /\ calls[i] \subseteq plan[i].calls
  BY DEF Planned
<1>2. file[i].headers # <<>>
  <2>1. NoPlan.calls = {}
    BY DEF NoPlan
  <2>2. file[i].headers = <<>> => plan[i] = NoPlan
    BY <1>1 DEF Plan
  <2>. QED  BY <1>1, <2>1, <2>2
<1>3. \A c \in calls[i] : c.place \in Nat \X Nat
  <2>. DEFINE s == Structure(file[i])
  <2>1. plan[i].calls = Calls(s, file[i]) /\ file[i] \in Files /\ DOMAIN s.ends \subseteq {1, 2}
    BY <1>2, PlanIs
  <2>. HIDE DEF s
  <2>. QED  BY <1>1, <2>1, CallsAre
<1>4. PICK p \in {c.place : c \in calls[i]} : \A q \in {c.place : c \in calls[i]} : ~Ahead(q, p)
  BY <1>3, LeastPlace
<1>5. \E c \in calls[i] : \A d \in calls[i] : ~Ahead(d.place, c.place)
  BY <1>4
<1>. QED  BY <1>5 DEF Current

\* An import that is at a batch of edges has sent its vertices.
LEMMA VerticesAreFirst ==
    ASSUME TypeOK, Planned, Sent, NEW i \in Imports, status[i] = "running", calls[i] # {},
           Current(i).on # "tag", NEW r \in Current(i).rows, NEW k \in 1 .. 2
    PROVE  \E y \in DOMAIN vertices : y[2] = r.key[2][k]
<1>. DEFINE f == file[i]
            s == Structure(f)
            c == Current(i)
<1>0. f.headers # <<>>
  BY DEF Planned
<1>. HIDE DEF f, s
<1>1. /\ plan[i].calls = Calls(s, f) /\ f \in Files /\ DOMAIN s.ends \subseteq {1, 2}
      /\ s.kind = "edge_list" => DOMAIN s.ends = {1, 2}
  BY <1>0, PlanIs, StructureHasEnds DEF f, s
<1>2. c \in calls[i] /\ c \in Calls(s, f) /\ \A d \in calls[i] : ~Ahead(d.place, c.place)
  BY <1>1, CurrentIs DEF Planned
<1>. HIDE DEF c
<1>3. c.on = "edge" /\ c.place[1] \in Nat \ {0}
  BY <1>1, <1>2, CallsAre DEF c
<1>4. PICK p \in Unique(EdgeRows(s, f)) : r = EdgeRows(s, f)[p]
  BY <1>1, <1>2, <1>3, CallsAre DEF c, RowsOf
<1>5. PICK q \in DOMAIN VertexRows(s, f) : VertexRows(s, f)[q].key[2] = r.key[2][k]
  BY <1>1, <1>4, EndsAreRows DEF Unique
<1>6. DOMAIN VertexRows(s, f) \subseteq Nat \X Nat
  <2>1. RowsOf(s, f, "tag") = VertexRows(s, f)
    BY DEF RowsOf
  <2>2. /\ DOMAIN RowsOf(s, f, "tag") \subseteq (DOMAIN f.rows) \X {1, 2}
        /\ (DOMAIN f.rows) \X {1, 2} \subseteq (Nat \ {0}) \X Nat
    BY <1>1, RowsHavePlaces
  <2>3. (Nat \ {0}) \X Nat \subseteq Nat \X Nat
    OBVIOUS
  <2>. QED  BY <2>1, <2>2, <2>3
<1>7. PICK n \in Unique(VertexRows(s, f)) : VertexRows(s, f)[n].key = VertexRows(s, f)[q].key
  BY <1>6, KeyHasFirst
<1>8. PICK d \in Calls(s, f) : d.on = "tag" /\ VertexRows(s, f)[n] \in d.rows
  BY <1>1, <1>7, CallsAre DEF RowsOf
<1>9. d.place[1] = 0
  BY <1>1, <1>8, CallsAre
<1>10. d \notin calls[i]
  BY <1>2, <1>3, <1>9 DEF Ahead
<1>11. VertexRows(s, f)[n].key \in DOMAIN vertices
  BY <1>1, <1>8, <1>10 DEF Sent, Space
<1>. QED  BY <1>5, <1>7, <1>11

\* The calls of an import that has some left: those of its file.
LEMMA CurrentCall ==
    ASSUME TypeOK, Planned, NEW i \in Imports, calls[i] # {}
    PROVE  /\ Current(i) \in plan[i].calls
           /\ Current(i).on \in {"tag", "edge"}
           /\ Current(i).kind # "insert" => Current(i).rows = {}
<1>. DEFINE s == Structure(file[i])
<1>1. Current(i) \in plan[i].calls
  BY CurrentIs DEF Planned
<1>2. file[i].headers # <<>>
  BY <1>1 DEF Planned, Plan, NoPlan
<1>3. plan[i].calls = Calls(s, file[i]) /\ file[i] \in Files /\ DOMAIN s.ends \subseteq {1, 2}
  BY <1>2, PlanIs
<1>. HIDE DEF s
<1>. QED  BY <1>1, <1>3, CallsAre

-----------------------------------------------------------------------------
(* What a step does to the space                                           *)

LEMMA DelaysKept ==
    ASSUME Delays, NEW i, TooEarly(i), UNCHANGED schema
    PROVE  Delays'
<1>. DEFINE x == Target(i)
<1>1. MaxDelay \in Nat
  BY ImportAssumption
<1>2. delay[x] > 0 /\ delay' = [delay EXCEPT ![x] = @ - 1]
  BY DEF TooEarly
<1>. HIDE DEF x
<1>3. DOMAIN delay' = DOMAIN delay
  BY <1>2
<1>4. ASSUME NEW y \in DOMAIN delay PROVE delay'[y] \in 0 .. MaxDelay
  <2>1. CASE y = x
    BY <1>1, <1>2, <2>1 DEF Delays
  <2>2. CASE y # x
    BY <1>2, <2>2 DEF Delays
  <2>. QED  BY <2>1, <2>2
<1>. QED  BY <1>3, <1>4 DEF Delays

\* What is sent stays in the space.
LEMMA SentGrows ==
    ASSUME Sent, plan' = plan,
           \A on : DOMAIN Space(on) \subseteq DOMAIN Space(on)',
           \A j \in Imports : status'[j] \in {"running", "done"} =>
              \A c \in plan[j].calls \ calls'[j] :
                 \/ status[j] \in {"running", "done"} /\ c \notin calls[j]
                 \/ \A r \in c.rows : r.key \in DOMAIN Space(c.on)'
    PROVE  Sent'
<1>1. SUFFICES ASSUME NEW j \in Imports, status'[j] \in {"running", "done"},
                      NEW c \in plan[j].calls \ calls'[j], NEW r \in c.rows
               PROVE  r.key \in DOMAIN Space(c.on)'
  BY DEF Sent
<1>2. CASE status[j] \in {"running", "done"} /\ c \notin calls[j]
  <2>1. r.key \in DOMAIN Space(c.on)
    BY <1>2 DEF Sent
  <2>. QED  BY <2>1
<1>. QED  BY <1>1, <1>2

\* A step that changes nothing in the space, and by which an import may begin
\* or get past calls that send nothing.
LEMMA Quiet ==
    ASSUME Sent, Origin, EndpointsExist, UNCHANGED <<plan, vertices, edges>>,
           \A j \in Imports : status'[j] \in {"running", "done"} =>
              \/ calls'[j] = plan[j].calls
              \/ /\ status[j] \in {"running", "done"}
                 /\ \A c \in calls[j] \ calls'[j] : c.rows = {}
    PROVE  Sent' /\ Origin' /\ EndpointsExist'
<1>1. \A on : Space(on)' = Space(on)
  BY DEF Space
<1>2. Sent'
  BY <1>1, SentGrows
<1>3. Origin'
  BY <1>1 DEF Origin
<1>. QED  BY <1>2, <1>3 DEF EndpointsExist

LEMMA PutIs ==
    ASSUME NEW graph, NEW rows
    PROVE  /\ DOMAIN Put(graph, rows) = DOMAIN graph \cup {r.key : r \in rows}
           /\ \A x \in DOMAIN Put(graph, rows) :
                 \/ \E r \in rows : r.key = x /\ Put(graph, rows)[x] = r.props
                 \/ x \in DOMAIN graph /\ Put(graph, rows)[x] = graph[x]
<1>. DEFINE new == {r.key : r \in rows}
            first(x) == CHOOSE r \in rows : r.key = x
<1>1. Put(graph, rows) = [x \in DOMAIN graph \cup new |-> IF x \in new THEN first(x).props ELSE graph[x]]
  BY DEF Put
<1>2. ASSUME NEW x \in new PROVE first(x) \in rows /\ first(x).key = x
  OBVIOUS
<1>. HIDE DEF first, new
<1>3. ASSUME NEW x \in DOMAIN graph \cup new
      PROVE  \/ \E r \in rows : r.key = x /\ Put(graph, rows)[x] = r.props
             \/ x \in DOMAIN graph /\ Put(graph, rows)[x] = graph[x]
  <2>1. CASE x \in new
    BY <1>1, <1>2, <2>1
  <2>2. CASE x \notin new
    BY <1>1, <2>2
  <2>. QED  BY <2>1, <2>2
<1>4. DOMAIN Put(graph, rows) = DOMAIN graph \cup new
  BY <1>1
<1>. QED  BY <1>3, <1>4 DEF new

LEMMA PutGrows ==
    ASSUME NEW graph, NEW rows
    PROVE  /\ DOMAIN graph \subseteq DOMAIN Put(graph, rows)
           /\ \A r \in rows : r.key \in DOMAIN Put(graph, rows)
<1>. DEFINE new == {r.key : r \in rows}
            D == DOMAIN Put(graph, rows)
<1>1. D = DOMAIN graph \cup new
  BY PutIs
<1>2. \A r \in rows : r.key \in new
  OBVIOUS
<1>. HIDE DEF new, D
<1>3. DOMAIN graph \subseteq D /\ \A r \in rows : r.key \in D
  BY <1>1, <1>2
<1>. QED  BY <1>3 DEF D

\* A batch that is written.
LEMMA WriteKeeps ==
    ASSUME TypeOK, Planned, Sent, Origin, EndpointsExist,
           NEW i \in Imports, status[i] = "running", calls[i] # {},
           IF Current(i).on = "tag"
             THEN vertices' = Put(vertices, Current(i).rows) /\ UNCHANGED edges
             ELSE edges' = Put(edges, Current(i).rows) /\ UNCHANGED vertices,
           calls' = [calls EXCEPT ![i] = @ \ {Current(i)}], UNCHANGED <<plan, status>>
    PROVE  Sent' /\ Origin' /\ EndpointsExist'
<1>0. PICK c : c = Current(i)
  OBVIOUS
<1>1. c \in plan[i].calls /\ c.on \in {"tag", "edge"}
  BY <1>0, CurrentCall
<1>2. /\ c.on = "tag" => vertices' = Put(vertices, c.rows) /\ edges' = edges
      /\ c.on # "tag" => edges' = Put(edges, c.rows) /\ vertices' = vertices
  BY <1>0
<1>3. \A j \in Imports : calls[j] \ calls'[j] \subseteq IF j = i THEN {c} ELSE {}
  BY <1>0 DEF Planned
<1>4. c.on # "tag" => \A r \in c.rows, k \in 1 .. 2 : \E y \in DOMAIN vertices : y[2] = r.key[2][k]
  BY <1>0, VerticesAreFirst
<1>5. /\ \A on : Space(on)' = Put(Space(on), c.rows) \/ Space(on)' = Space(on)
      /\ Space(c.on)' = Put(Space(c.on), c.rows)
      /\ \A on \in {"tag", "edge"} : on # c.on => Space(on)' = Space(on)
  BY <1>1, <1>2 DEF Space
<1>6. ASSUME NEW on PROVE DOMAIN Space(on) \subseteq DOMAIN Space(on)'
  <2>1. DOMAIN Space(on) \subseteq DOMAIN Put(Space(on), c.rows)
    BY PutGrows
  <2>. QED  BY <1>5, <2>1
<1>7. \A r \in c.rows : r.key \in DOMAIN Space(c.on)'
  <2>1. \A r \in c.rows : r.key \in DOMAIN Put(Space(c.on), c.rows)
    BY PutGrows
  <2>. QED  BY <1>5, <2>1
<1>8. Sent'
  BY <1>3, <1>6, <1>7, SentGrows
<1>9. ASSUME NEW on \in {"tag", "edge"}, NEW x \in DOMAIN Space(on)'
      PROVE  \E j \in Imports : \E d \in plan[j].calls :
                d.on = on /\ \E r \in d.rows : r.key = x /\ Space(on)'[x] = r.props
  <2>1. CASE x \in DOMAIN Space(on) /\ Space(on)'[x] = Space(on)[x]
    BY <2>1 DEF Origin
  <2>2. CASE on = c.on /\ \E r \in c.rows : r.key = x /\ Space(on)'[x] = r.props
    BY <1>1, <2>2
  <2>3. CASE Space(on)' = Space(on)
    BY <2>1, <2>3
  <2>4. CASE on = c.on /\ Space(on)' = Put(Space(on), c.rows)
    <3>1. x \in DOMAIN Put(Space(on), c.rows)
      BY <2>4
    <3>2. \/ \E r \in c.rows : r.key = x /\ Put(Space(on), c.rows)[x] = r.props
          \/ x \in DOMAIN Space(on) /\ Put(Space(on), c.rows)[x] = Space(on)[x]
      BY <3>1, PutIs
    <3>. QED  BY <2>1, <2>2, <2>4, <3>2
  <2>. QED  BY <1>5, <2>3, <2>4
<1>10. Origin'
  BY <1>9 DEF Origin
<1>11. ASSUME NEW x \in DOMAIN edges', NEW k \in 1 .. 2
       PROVE  \E y \in DOMAIN vertices' : y[2] = x[2][k]
  <2>1. DOMAIN vertices \subseteq DOMAIN vertices'
    <3>1. DOMAIN vertices \subseteq DOMAIN Put(vertices, c.rows)
      BY PutGrows
    <3>. QED  BY <1>2, <3>1
  <2>2. CASE x \in DOMAIN edges
    BY <2>1, <2>2 DEF EndpointsExist
  <2>3. CASE x \notin DOMAIN edges
    <3>1. c.on # "tag" /\ x \in DOMAIN Put(edges, c.rows)
      BY <1>2, <2>3
    <3>2. PICK r \in c.rows : r.key = x
      BY <2>3, <3>1, PutIs
    <3>. QED  BY <1>4, <2>1, <3>1, <3>2
  <2>. QED  BY <2>2, <2>3
<1>12. EndpointsExist'
  BY <1>11 DEF EndpointsExist
<1>. QED  BY <1>8, <1>10, <1>12

-----------------------------------------------------------------------------
(* The steps of an import                                                  *)

LEMMA StartKeeps ==
    ASSUME ImportInv, NEW i \in Imports, Start(i)
    PROVE  ImportInv'
<1>. USE DEF ImportInv
<1>1. Control /\ Delays
  BY TypesAre
<1>2. plan[i] = Plan(file[i]) /\ status[i] = "pending" /\ calls[i] = {}
  BY <1>1 DEF Control, Planned, Start
<1>3. CASE plan[i] = NoPlan
  <2>1. /\ calls' = calls /\ status' = [status EXCEPT ![i] = "failed"]
        /\ cause' = [cause EXCEPT ![i] = "empty"]
    BY <1>3 DEF Start
  <2>2. UNCHANGED <<file, plan, tries, report, schema, delay, vertices, edges>>
    BY DEF Start
  <2>3. /\ status' \in [Imports -> {"pending", "running", "done", "failed"}]
        /\ cause' \in [Imports -> {"", "empty", "name", "delay", "schema", "fault"}]
        /\ status'[i] = "failed" /\ \A j \in Imports \ {i} : status'[j] = status[j]
    BY <1>1, <2>1 DEF Control
  <2>a. ASSUME NEW j \in Imports
        PROVE  /\ calls'[j] \subseteq plan[j].calls
               /\ status'[j] \in {"running", "done"} => file[j].headers # <<>>
               /\ status'[j] = "done" => calls'[j] = {} /\ report'[j] = plan[j].report
    <3>1. CASE j = i
      BY <1>2, <2>1, <2>3, <3>1
    <3>2. CASE j # i
      BY <1>1, <2>1, <2>2, <2>3, <3>2 DEF Control, Planned
    <3>. QED  BY <3>1, <3>2
  <2>4. Planned'
    BY <1>1, <2>1, <2>2, <2>a, PlannedKept DEF Control, Planned
  <2>5. Control'
    BY <1>1, <1>2, <2>1, <2>2, <2>3, <2>4 DEF Control
  <2>6. Sent' /\ Origin' /\ EndpointsExist'
    BY <2>1, <2>2, <2>3, Quiet
  <2>. QED  BY <1>1, <2>2, <2>5, <2>6, TypesAre DEF Delays
<1>4. CASE plan[i] # NoPlan
  <2>1. /\ calls' = [calls EXCEPT ![i] = plan[i].calls]
        /\ status' = [status EXCEPT ![i] = "running"]
    BY <1>4 DEF Start
  <2>2. UNCHANGED <<file, plan, tries, cause, report, schema, delay, vertices, edges>>
    BY <1>4 DEF Start
  <2>3. /\ status' \in [Imports -> {"pending", "running", "done", "failed"}]
        /\ status'[i] = "running" /\ \A j \in Imports \ {i} : status'[j] = status[j]
    BY <1>1, <2>1 DEF Control
  <2>4. /\ calls' = [j \in Imports |-> calls'[j]]
        /\ calls'[i] = plan[i].calls /\ \A j \in Imports \ {i} : calls'[j] = calls[j]
    BY <1>1, <2>1 DEF Control, Planned
  <2>5. file[i].headers # <<>>
    BY <1>2, <1>4 DEF Plan
  <2>6. Planned'
    BY <1>1, <2>2, <2>3, <2>4, <2>5 DEF Control, Planned
  <2>7. Control'
    BY <1>1, <2>2, <2>3, <2>4, <2>6 DEF Control
  <2>8. Sent' /\ Origin' /\ EndpointsExist'
    BY <2>2, <2>3, <2>4, Quiet
  <2>. QED  BY <1>1, <2>2, <2>7, <2>8, TypesAre DEF Delays
<1>. QED  BY <1>3, <1>4

\* A call that has failed leaves the space as it is.
LEMMA FailQuiet ==
    ASSUME ImportInv, NEW i \in Imports, NEW why \in {"name", "delay", "schema", "fault"},
           Fail(i, why), UNCHANGED <<plan, vertices, edges>>
    PROVE  Sent' /\ Origin' /\ EndpointsExist'
<1>1. \A j \in Imports : status'[j] \in {"running", "done"} => status[j] = status'[j] /\ calls'[j] = calls[j]
  BY DEF Fail, ImportInv, Planned, TypeOK
<1>. QED  BY <1>1, Quiet DEF ImportInv

LEMMA TryAgainQuiet ==
    ASSUME ImportInv, NEW i \in Imports, NEW why \in {"delay", "schema"},
           TryAgain(i, why), UNCHANGED <<plan, vertices, edges>>
    PROVE  Sent' /\ Origin' /\ EndpointsExist'
<1>1. CASE Fail(i, why)
  BY <1>1, FailQuiet
<1>2. CASE UNCHANGED <<calls, status, cause>>
  BY <1>2, Quiet DEF ImportInv
<1>. QED  BY <1>1, <1>2 DEF TryAgain

\* A call that sends nothing has succeeded.
LEMMA ProceedQuiet ==
    ASSUME ImportInv, NEW i \in Imports, calls[i] # {}, Current(i).kind # "insert",
           Proceed(i), UNCHANGED <<plan, vertices, edges>>
    PROVE  Sent' /\ Origin' /\ EndpointsExist'
<1>1. Current(i).rows = {}
  BY CurrentCall DEF ImportInv
<1>2. \A j \in Imports : \A c \in calls[j] \ calls'[j] : c = Current(i)
  BY DEF Proceed, ImportInv, Planned
<1>3. status' = status
  BY DEF Proceed
<1>. QED  BY <1>1, <1>2, <1>3, Quiet DEF ImportInv

LEMMA CreateSchemaKeeps ==
    ASSUME ImportInv, NEW i \in Imports, CreateSchema(i)
    PROVE  ImportInv'
<1>. DEFINE cols == Columns(plan[i].structure, Current(i).on)
<1>1. Control /\ Delays
  BY TypesAre DEF ImportInv
<1>2. /\ status[i] = "running" /\ calls[i] # {} /\ Current(i).kind = "create"
      /\ UNCHANGED <<file, plan, report, vertices, edges>>
  BY DEF CreateSchema, Calling
<1>3. CASE Fail(i, "name") /\ UNCHANGED <<schema, delay>>
  <2>1. Control' /\ Delays'
    BY <1>1, <1>2, <1>3, FailControl DEF Delays
  <2>2. Sent' /\ Origin' /\ EndpointsExist'
    BY <1>2, <1>3, FailQuiet
  <2>. QED  BY <2>1, <2>2, TypesAre DEF ImportInv
<1>4. CASE Proceed(i)
  <2>1. Control'
    BY <1>1, <1>2, <1>4, ProceedControl
  <2>2. Sent' /\ Origin' /\ EndpointsExist'
    BY <1>2, <1>4, ProceedQuiet
  <2>3. CASE UNCHANGED <<schema, delay>>
    <3>1. Delays'
      BY <1>1, <2>3 DEF Delays
    <3>. QED  BY <2>1, <2>2, <3>1, TypesAre DEF ImportInv
  <2>4. ASSUME NEW d \in 0 .. MaxDelay,
               schema' = [x \in DOMAIN schema \cup {Target(i)} |->
                             IF x = Target(i) THEN cols ELSE schema[x]],
               delay' = [x \in DOMAIN delay \cup {Target(i)} |->
                             IF x = Target(i) THEN d ELSE delay[x]]
        PROVE  Delays'
    <3>. HIDE DEF cols
    <3>1. DOMAIN delay' = DOMAIN schema'
      BY <1>1, <2>4 DEF Delays
    <3>2. \A x \in DOMAIN delay' : delay'[x] = d \/ (x \in DOMAIN delay /\ delay'[x] = delay[x])
      BY <2>4
    <3>. QED  BY <1>1, <3>1, <3>2 DEF Delays
  <2>5. Delays' \/ UNCHANGED <<schema, delay>>
    BY <1>2, <1>4, <2>4 DEF CreateSchema, Fail, Proceed
  <2>6. Delays'
    BY <1>1, <2>5 DEF Delays
  <2>. QED  BY <2>1, <2>2, <2>6, TypesAre DEF ImportInv
<1>5. (Fail(i, "name") /\ UNCHANGED <<schema, delay>>) \/ Proceed(i)
  BY DEF CreateSchema
<1>. QED  BY <1>3, <1>4, <1>5

LEMMA TooEarlyKeeps ==
    ASSUME ImportInv, NEW i \in Imports, TooEarly(i), UNCHANGED <<file, plan, report, schema>>
    PROVE  ImportInv'
<1>1. Control /\ Delays
  BY TypesAre DEF ImportInv
<1>2. TryAgain(i, "delay") /\ UNCHANGED <<vertices, edges>>
  BY DEF TooEarly
<1>3. Control' /\ Delays'
  BY <1>1, <1>2, TryAgainControl, DelaysKept
<1>4. Sent' /\ Origin' /\ EndpointsExist'
  BY <1>2, TryAgainQuiet
<1>. QED  BY <1>3, <1>4, TypesAre DEF ImportInv

LEMMA IndexKeeps ==
    ASSUME ImportInv, NEW i \in Imports, Index(i)
    PROVE  ImportInv'
<1>1. Control /\ Delays
  BY TypesAre DEF ImportInv
<1>2. /\ status[i] = "running" /\ calls[i] # {} /\ Current(i).kind = "index"
      /\ UNCHANGED <<file, plan, report, schema>>
  BY DEF Index, Calling
<1>3. CASE TooEarly(i)
  BY <1>2, <1>3, TooEarlyKeeps
<1>4. CASE Proceed(i) /\ UNCHANGED <<delay, vertices, edges>>
  <2>1. Control' /\ Delays'
    BY <1>1, <1>2, <1>4, ProceedControl DEF Delays
  <2>2. Sent' /\ Origin' /\ EndpointsExist'
    BY <1>2, <1>4, ProceedQuiet
  <2>. QED  BY <2>1, <2>2, TypesAre DEF ImportInv
<1>. QED  BY <1>3, <1>4 DEF Index

LEMMA InsertKeeps ==
    ASSUME ImportInv, NEW i \in Imports, Insert(i)
    PROVE  ImportInv'
<1>1. Control /\ Delays
  BY TypesAre DEF ImportInv
<1>2. /\ status[i] = "running" /\ calls[i] # {}
      /\ UNCHANGED <<file, plan, report, schema>>
  BY DEF Insert, Calling
<1>3. CASE TooEarly(i)
  BY <1>2, <1>3, TooEarlyKeeps
<1>4. CASE /\ IF Current(i).on = "tag"
                 THEN vertices' = Put(vertices, Current(i).rows) /\ UNCHANGED edges
                 ELSE edges' = Put(edges, Current(i).rows) /\ UNCHANGED vertices
           /\ Proceed(i) /\ UNCHANGED delay
  <2>1. Control' /\ Delays'
    BY <1>1, <1>2, <1>4, ProceedControl DEF Delays
  <2>2. calls' = [calls EXCEPT ![i] = @ \ {Current(i)}] /\ UNCHANGED <<plan, status>>
    BY <1>2, <1>4 DEF Proceed
  <2>3. Sent' /\ Origin' /\ EndpointsExist'
    BY <1>2, <1>4, <2>2, WriteKeeps DEF ImportInv
  <2>. QED  BY <2>1, <2>3, TypesAre DEF ImportInv
<1>5. CASE TryAgain(i, "schema") /\ UNCHANGED <<delay, vertices, edges>>
  <2>1. Control' /\ Delays'
    BY <1>1, <1>2, <1>5, TryAgainControl DEF Delays
  <2>2. Sent' /\ Origin' /\ EndpointsExist'
    BY <1>2, <1>5, TryAgainQuiet
  <2>. QED  BY <2>1, <2>2, TypesAre DEF ImportInv
<1>. QED  BY <1>3, <1>4, <1>5 DEF Insert

LEMMA FinishKeeps ==
    ASSUME ImportInv, NEW i \in Imports, Finish(i)
    PROVE  ImportInv'
<1>1. Control /\ Delays
  BY TypesAre DEF ImportInv
<1>2. /\ status[i] = "running" /\ calls[i] = {}
      /\ status' = [status EXCEPT ![i] = "done"]
      /\ report' = [report EXCEPT ![i] = plan[i].report]
      /\ UNCHANGED <<file, plan, calls, tries, cause, schema, delay, vertices, edges>>
  BY DEF Finish
<1>3. /\ status' \in [Imports -> {"pending", "running", "done", "failed"}]
      /\ status'[i] = "done" /\ \A j \in Imports \ {i} : status'[j] = status[j]
  BY <1>1, <1>2 DEF Control
<1>4. /\ report' = [j \in Imports |-> report'[j]]
      /\ report'[i] = plan[i].report /\ \A j \in Imports \ {i} : report'[j] = report[j]
  BY <1>1, <1>2 DEF Control, Planned
<1>5. Planned'
  BY <1>1, <1>2, <1>3, <1>4 DEF Control, Planned
<1>6. Control'
  BY <1>1, <1>2, <1>3, <1>5 DEF Control
<1>7. \A j \in Imports : status'[j] \in {"running", "done"} =>
         status[j] \in {"running", "done"} /\ calls'[j] = calls[j]
  BY <1>2, <1>3
<1>8. Sent' /\ Origin' /\ EndpointsExist'
  BY <1>2, <1>7, Quiet DEF ImportInv
<1>. QED  BY <1>1, <1>2, <1>6, <1>8, TypesAre DEF ImportInv, Delays

LEMMA BreakKeeps ==
    ASSUME ImportInv, NEW i \in Imports, Break(i)
    PROVE  ImportInv'
<1>1. Control /\ Delays
  BY TypesAre DEF ImportInv
<1>2. Fail(i, "fault") /\ UNCHANGED <<file, plan, report, schema, delay, vertices, edges>>
  BY DEF Break
<1>3. Control' /\ Delays'
  BY <1>1, <1>2, FailControl DEF Delays
<1>4. Sent' /\ Origin' /\ EndpointsExist'
  BY <1>2, FailQuiet
<1>. QED  BY <1>3, <1>4, TypesAre DEF ImportInv

\* The invariant, of all runs of the imports: what an import has sent is in the
\* space, and all that is there was sent by one (csv-ingest's writer.py).
THEOREM ImportInvariant == Spec => []ImportInv
<1>1. Init => ImportInv
  <2>. SUFFICES ASSUME Init PROVE ImportInv
    OBVIOUS
  <2>1. /\ file \in [Imports -> Files] /\ plan = [i \in Imports |-> Plan(file[i])]
        /\ calls = [i \in Imports |-> {}] /\ tries = [i \in Imports |-> 0]
        /\ status = [i \in Imports |-> "pending"] /\ cause = [i \in Imports |-> ""]
        /\ report = [i \in Imports |-> NoReport]
    BY DEF Init
  <2>2. DOMAIN schema = {} /\ DOMAIN delay = {} /\ DOMAIN vertices = {} /\ DOMAIN edges = {}
    BY DEF Init
  <2>3. tries \in [Imports -> 0 .. Attempts - 1]
    <3>. DEFINE T == 0 .. Attempts - 1
    <3>1. 0 \in T
      BY DEF Attempts
    <3>. HIDE DEF T
    <3>2. tries \in [Imports -> T]
      BY <2>1, <3>1
    <3>. QED  BY <3>2 DEF T
  <2>4. Planned
    BY <2>1 DEF Planned
  <2>5. Control /\ Delays
    BY <2>1, <2>2, <2>3, <2>4 DEF Control, Delays
  <2>6. Sent
    BY <2>1 DEF Sent
  <2>7. Origin
    BY <2>2 DEF Origin, Space
  <2>8. EndpointsExist
    BY <2>2 DEF EndpointsExist
  <2>. QED  BY <2>5, <2>6, <2>7, <2>8, TypesAre DEF ImportInv
<1>2. ImportInv /\ [Next]_vars => ImportInv'
  <2>. SUFFICES ASSUME ImportInv, [Next]_vars PROVE ImportInv'
    OBVIOUS
  <2>1. CASE UNCHANGED vars
    <3>1. Control' /\ Delays'
      BY <2>1, TypesAre DEF ImportInv, Control, Delays, Planned, vars
    <3>2. UNCHANGED <<plan, calls, status, vertices, edges>>
      BY <2>1 DEF vars
    <3>3. Sent' /\ Origin' /\ EndpointsExist'
      BY <3>2, Quiet DEF ImportInv
    <3>. QED  BY <3>1, <3>3, TypesAre DEF ImportInv
  <2>2. ASSUME NEW i \in Imports, Work(i) PROVE ImportInv'
    BY <2>2, StartKeeps, CreateSchemaKeeps, IndexKeeps, InsertKeeps, FinishKeeps DEF Work
  <2>3. ASSUME NEW i \in Imports, Break(i) PROVE ImportInv'
    BY <2>3, BreakKeeps
  <2>. QED  BY <2>1, <2>2, <2>3 DEF Next
<1>. QED  BY <1>1, <1>2, PTL DEF Spec

\* Wherever an import stops, or another one runs into it, both ends of every
\* edge are in the space: all batches of vertices of an import are sent before
\* its first edges, and a row that is sent has all of its ends (pipeline.py).
THEOREM ImportsLeaveGraph == Spec => []GraphIsSound
<1>1. ImportInv => GraphIsSound
  BY DEF ImportInv, GraphIsSound
<1>. QED  BY <1>1, ImportInvariant, PTL

-----------------------------------------------------------------------------
(* What a finished import shows                                            *)

\* What an import sends are first rows of its file, of the type it writes.
LEMMA SentRows ==
    ASSUME TypeOK, Planned, NEW j \in Imports, NEW c \in plan[j].calls, NEW r \in c.rows
    PROVE  \E p \in Unique(RowsOf(Structure(file[j]), file[j], c.on)) :
              LET row == RowsOf(Structure(file[j]), file[j], c.on)[p]
              IN  r = row /\ row.key[1] = c.name
<1>. DEFINE f == file[j]
            s == Structure(f)
<1>1. plan[j] = Plan(f)
  BY DEF Planned
<1>2. f.headers # <<>>
  BY <1>1 DEF Plan, NoPlan
<1>3. plan[j].calls = Calls(s, f) /\ f \in Files /\ DOMAIN s.ends \subseteq {1, 2}
  BY <1>2, PlanIs
<1>. HIDE DEF s
<1>4. \E p \in Unique(RowsOf(s, f, c.on)) :
         RowsOf(s, f, c.on)[p].key[1] = c.name /\ r = RowsOf(s, f, c.on)[p]
  BY <1>3, CallsAre
<1>. QED  BY <1>4 DEF s

\* An import that is done and alone with its types: what the space has of them
\* are its first rows, with their properties.
LEMMA AloneShows ==
    ASSUME ImportInv, NEW i \in Imports, DoneAlone(i), NEW on \in {"tag", "edge"}
    PROVE  LET rows == RowsOf(Structure(file[i]), file[i], on)
           IN  /\ {x \in DOMAIN Space(on) : <<on, x[1]>> \in Touched(i)}
                     = {rows[p].key : p \in Unique(rows)}
               /\ \A p \in Unique(rows) :
                     rows[p].key \in DOMAIN Space(on) /\ Space(on)[rows[p].key] = rows[p].props
<1>. USE DEF ImportInv
<1>. DEFINE f == file[i]
            s == Structure(f)
            rows == RowsOf(s, f, on)
            mine == {x \in DOMAIN Space(on) : <<on, x[1]>> \in Touched(i)}
<1>1. status[i] = "done" /\ calls[i] = {} /\ f.headers # <<>>
  BY DEF Planned, DoneAlone
<1>2. plan[i].calls = Calls(s, f) /\ f \in Files /\ DOMAIN s.ends \subseteq {1, 2}
  BY <1>1, PlanIs
<1>3. ASSUME NEW p \in Unique(rows)
      PROVE  rows[p].key \in DOMAIN Space(on) /\ <<on, rows[p].key[1]>> \in Touched(i)
  <2>. HIDE DEF s
  <2>1. PICK c \in Calls(s, f) : c.on = on /\ rows[p] \in c.rows
    BY <1>2, CallsAre
  <2>2. rows[p].key \in DOMAIN Space(on)
    BY <1>1, <1>2, <2>1 DEF Sent
  <2>3. PICK q \in Unique(RowsOf(s, f, c.on)) :
           RowsOf(s, f, c.on)[q].key[1] = c.name /\ rows[p] = RowsOf(s, f, c.on)[q]
    BY <1>2, <2>1, SentRows DEF s
  <2>4. rows[p].key[1] = c.name
    BY <2>3
  <2>. QED  BY <1>2, <2>1, <2>2, <2>4 DEF Touched
<1>4. ASSUME NEW x \in mine
      PROVE  \E p \in Unique(rows) : rows[p].key = x /\ Space(on)[x] = rows[p].props
  <2>0. PICK j \in Imports : \E c \in plan[j].calls :
           c.on = on /\ \E r \in c.rows : r.key = x /\ Space(on)[x] = r.props
    BY DEF Origin
  <2>a. PICK c \in plan[j].calls :
           c.on = on /\ \E r \in c.rows : r.key = x /\ Space(on)[x] = r.props
    BY <2>0
  <2>1. PICK r \in c.rows : c.on = on /\ r.key = x /\ Space(on)[x] = r.props
    BY <2>a
  <2>2. PICK p \in Unique(RowsOf(Structure(file[j]), file[j], on)) :
           /\ r = RowsOf(Structure(file[j]), file[j], on)[p]
           /\ RowsOf(Structure(file[j]), file[j], on)[p].key[1] = c.name
    BY <2>1, SentRows
  <2>3. x[1] = c.name
    BY <2>1, <2>2
  <2>4. <<on, x[1]>> \in Touched(j) \cap Touched(i)
    BY <2>1, <2>3 DEF Touched
  <2>5. file[j] = f
    BY <2>4 DEF DoneAlone
  <2>. QED  BY <2>1, <2>2, <2>5
<1>5. DOMAIN rows \subseteq Nat \X Nat
  BY <1>2, RowsHavePlaces
<1>6. ASSUME NEW p \in Unique(rows) PROVE Space(on)[rows[p].key] = rows[p].props
  <2>1. rows[p].key \in mine
    BY <1>3
  <2>2. PICK q \in Unique(rows) : rows[q].key = rows[p].key /\ Space(on)[rows[p].key] = rows[q].props
    BY <1>4, <2>1
  <2>. HIDE DEF rows
  <2>3. p = q
    BY <1>5, <2>2, FirstIsOne
  <2>. QED  BY <2>2, <2>3
<1>7. mine = {rows[p].key : p \in Unique(rows)}
  <2>. HIDE DEF rows
  <2>1. mine \subseteq {rows[p].key : p \in Unique(rows)}
    BY <1>4
  <2>2. {rows[p].key : p \in Unique(rows)} \subseteq mine
    BY <1>3
  <2>. QED  BY <2>1, <2>2
<1>. QED  BY <1>3, <1>6, <1>7

\* There are as many keys as first rows.
LEMMA KeysAreCounted ==
    ASSUME NEW rows, DOMAIN rows \subseteq Nat \X Nat, IsFiniteSet(DOMAIN rows)
    PROVE  Cardinality({rows[p].key : p \in Unique(rows)}) = Cardinality(Unique(rows))
<1>. DEFINE S == Unique(rows)
            T == {rows[p].key : p \in S}
            key == [p \in S |-> rows[p].key]
<1>1. IsFiniteSet(S)
  BY FS_Subset DEF Unique
<1>2. \A p, q \in S : key[p] = key[q] => p = q
  BY FirstIsOne
<1>3. \A x \in T : \E p \in S : key[p] = x
  OBVIOUS
<1>4. key \in [S -> T]
  OBVIOUS
<1>. HIDE DEF S, T, key
<1>5. key \in Bijection(S, T)
  BY <1>2, <1>3, <1>4 DEF Bijection, Injection, Surjection, IsInjective
<1>6. ExistsBijection(S, T)
  BY <1>5 DEF ExistsBijection
<1>. QED  BY <1>1, <1>6, FS_Bijection DEF S, T

\* The report counts every row that is not skipped: once for what a row of a
\* table writes, three times for an edge and its two ends.
LEMMA ReportCounts ==
    ASSUME NEW f \in Files, NEW s,
           \/ s.kind = "edge_list" /\ DOMAIN s.ends = {1, 2}
           \/ s.kind = "node_table" /\ DOMAIN s.ends = {1}
    PROVE  LET r == Report(s, f)
               kept == r.rows_read - Cardinality(r.skipped)
           IN  r.vertices_created + r.edges_created + r.duplicates_skipped
                 = IF s.kind = "edge_list" THEN 3 * kept ELSE kept
<1>. DEFINE K == Kept(s, f)
            V == VertexRows(s, f)
            E == EdgeRows(s, f)
            r == Report(s, f)
<1>1. DOMAIN f.rows = 1 .. Len(f.rows) /\ Len(f.rows) \in Nat
  <2>1. f.rows \in Seq([{f.headers[k] : k \in DOMAIN f.headers} -> DOMAIN KindOf \cup {""}])
    BY ImportAssumption
  <2>2. \A S, q : q \in Seq(S) => DOMAIN q = 1 .. Len(q) /\ Len(q) \in Nat
    OBVIOUS
  <2>. QED  BY <2>1, <2>2
<1>2. IsFiniteSet(DOMAIN f.rows) /\ Cardinality(DOMAIN f.rows) = Len(f.rows)
  <2>1. \A n \in Nat : IsFiniteSet(1 .. n) /\ Cardinality(1 .. n) = n
    BY FS_Interval
  <2>. QED  BY <1>1, <2>1
<1>3. K \subseteq DOMAIN f.rows /\ IsFiniteSet(K) /\ Cardinality(K) \in Nat
  <2>1. K \subseteq DOMAIN f.rows
    BY DEF Kept
  <2>. QED  BY <1>2, <2>1, FS_Subset, FS_CardinalityType
<1>4. Cardinality(DOMAIN f.rows \ K) = Len(f.rows) - Cardinality(K)
  <2>1. (DOMAIN f.rows) \cap K = K
    BY <1>3
  <2>2. Cardinality(DOMAIN f.rows \ K) = Cardinality(DOMAIN f.rows) - Cardinality((DOMAIN f.rows) \cap K)
    BY <1>2, FS_Difference
  <2>. QED  BY <1>2, <2>1, <2>2
<1>5. /\ r.rows_read = Len(f.rows) /\ r.skipped = DOMAIN f.rows \ K
      /\ r.vertices_created = Cardinality(Unique(V)) /\ r.edges_created = Cardinality(Unique(E))
      /\ r.duplicates_skipped = Cardinality(DOMAIN V \ Unique(V)) + Cardinality(DOMAIN E \ Unique(E))
  BY DEF Report
<1>6. r.rows_read - Cardinality(r.skipped) = Cardinality(K)
  BY <1>1, <1>3, <1>4, <1>5
<1>7. /\ DOMAIN V = K \X DOMAIN s.ends
      /\ DOMAIN E = (IF s.kind = "edge_list" THEN K ELSE {}) \X {1}
  BY DEF VertexRows, EdgeRows
<1>8. ASSUME NEW rows, IsFiniteSet(DOMAIN rows)
      PROVE  /\ Cardinality(Unique(rows)) \in Nat /\ Cardinality(DOMAIN rows \ Unique(rows)) \in Nat
             /\ Cardinality(Unique(rows)) + Cardinality(DOMAIN rows \ Unique(rows))
                  = Cardinality(DOMAIN rows)
  <2>1. Unique(rows) \subseteq DOMAIN rows
    BY DEF Unique
  <2>2. IsFiniteSet(Unique(rows)) /\ IsFiniteSet(DOMAIN rows \ Unique(rows))
    BY <1>8, <2>1, FS_Subset
  <2>3. /\ Cardinality(Unique(rows)) \in Nat /\ Cardinality(DOMAIN rows \ Unique(rows)) \in Nat
        /\ Cardinality(DOMAIN rows) \in Nat
    BY <1>8, <2>2, FS_CardinalityType
  <2>4. Cardinality(DOMAIN rows \ Unique(rows))
          = Cardinality(DOMAIN rows) - Cardinality((DOMAIN rows) \cap Unique(rows))
    BY <1>8, FS_Difference
  <2>5. (DOMAIN rows) \cap Unique(rows) = Unique(rows)
    BY <2>1
  <2>. DEFINE a == Cardinality(Unique(rows))
              b == Cardinality(DOMAIN rows \ Unique(rows))
              c == Cardinality(DOMAIN rows)
  <2>6. a \in Nat /\ b \in Nat /\ c \in Nat /\ b = c - a
    BY <2>3, <2>4, <2>5
  <2>. HIDE DEF a, b, c
  <2>7. a + b = c
    BY <2>6
  <2>. QED  BY <2>6, <2>7 DEF a, b, c
<1>9. IsFiniteSet({1}) /\ Cardinality({1}) = 1
  BY FS_Singleton
<1>10. IsFiniteSet({1, 2}) /\ Cardinality({1, 2}) = 2
  <2>1. {1, 2} = 1 .. 2
    OBVIOUS
  <2>2. \A n \in Nat : IsFiniteSet(1 .. n) /\ Cardinality(1 .. n) = n
    BY FS_Interval
  <2>. QED  BY <2>1, <2>2
<1>11. IsFiniteSet({}) /\ Cardinality({}) = 0
  BY FS_EmptySet
<1>. HIDE DEF K, V, E, r
<1>12. CASE s.kind = "edge_list" /\ DOMAIN s.ends = {1, 2}
  <2>1. DOMAIN V = K \X {1, 2} /\ DOMAIN E = K \X {1}
    BY <1>7, <1>12
  <2>2. /\ IsFiniteSet(DOMAIN V) /\ Cardinality(DOMAIN V) = Cardinality(K) * 2
        /\ IsFiniteSet(DOMAIN E) /\ Cardinality(DOMAIN E) = Cardinality(K) * 1
    BY <1>3, <1>9, <1>10, <2>1, FS_Product
  <2>3. /\ Cardinality(Unique(V)) \in Nat /\ Cardinality(DOMAIN V \ Unique(V)) \in Nat
        /\ Cardinality(Unique(E)) \in Nat /\ Cardinality(DOMAIN E \ Unique(E)) \in Nat
        /\ Cardinality(Unique(V)) + Cardinality(DOMAIN V \ Unique(V)) = Cardinality(K) * 2
        /\ Cardinality(Unique(E)) + Cardinality(DOMAIN E \ Unique(E)) = Cardinality(K) * 1
    BY <1>8, <2>2
  <2>4. \A k, a, b, c, d \in Nat : a + b = k * 2 /\ c + d = k * 1 => a + c + (b + d) = 3 * k
    OBVIOUS
  <2>. DEFINE a == Cardinality(Unique(V))
              b == Cardinality(DOMAIN V \ Unique(V))
              c == Cardinality(Unique(E))
              d == Cardinality(DOMAIN E \ Unique(E))
  <2>6. a + c + (b + d) = 3 * Cardinality(K)
    <3>. HIDE DEF a, b, c, d
    <3>. QED  BY <1>3, <2>3, <2>4 DEF a, b, c, d
  <2>5. r.vertices_created + r.edges_created + r.duplicates_skipped = 3 * Cardinality(K)
    BY <1>5, <2>6
  <2>. QED  BY <1>6, <1>12, <2>5 DEF r
<1>13. CASE s.kind = "node_table" /\ DOMAIN s.ends = {1}
  <2>1. DOMAIN V = K \X {1} /\ DOMAIN E = {}
    BY <1>7, <1>13
  <2>2. /\ IsFiniteSet(DOMAIN V) /\ Cardinality(DOMAIN V) = Cardinality(K) * 1
        /\ IsFiniteSet(DOMAIN E) /\ Cardinality(DOMAIN E) = 0
    BY <1>3, <1>9, <1>11, <2>1, FS_Product
  <2>3. r.vertices_created + r.edges_created + r.duplicates_skipped = Cardinality(K)
    BY <1>3, <1>5, <1>8, <2>2
  <2>. QED  BY <1>6, <1>13, <2>3 DEF r
<1>. QED  BY <1>12, <1>13

\* The report of a finished import is the one of its file.
LEMMA ReportIs ==
    ASSUME ImportInv, NEW i \in Imports, status[i] = "done"
    PROVE  /\ plan[i].structure = Structure(file[i])
           /\ report[i] = Report(Structure(file[i]), file[i])
           /\ file[i] \in Files /\ DOMAIN Structure(file[i]).ends \subseteq {1, 2}
<1>1. file[i].headers # <<>> /\ report[i] = plan[i].report
  BY DEF ImportInv, Planned
<1>. QED  BY <1>1, PlanIs DEF ImportInv

LEMMA ReportIsRight == ImportInv => ReportAddsUp
<1>. SUFFICES ASSUME ImportInv, NEW i \in Imports, DoneAlone(i)
              PROVE  LET r == report[i]
                         mine(graph, on) == {x \in DOMAIN graph : <<on, x[1]>> \in Touched(i)}
                         kept == r.rows_read - Cardinality(r.skipped)
                     IN  /\ r.vertices_created = Cardinality(mine(vertices, "tag"))
                         /\ r.edges_created = Cardinality(mine(edges, "edge"))
                         /\ r.vertices_created + r.edges_created + r.duplicates_skipped
                              = IF plan[i].structure.kind = "edge_list" THEN 3 * kept ELSE kept
  BY DEF ReportAddsUp
<1>. DEFINE f == file[i]
            s == Structure(f)
            r == report[i]
            mine(graph, on) == {x \in DOMAIN graph : <<on, x[1]>> \in Touched(i)}
<1>1. plan[i].structure = s /\ r = Report(s, f) /\ f \in Files /\ DOMAIN s.ends \subseteq {1, 2}
  BY ReportIs DEF DoneAlone
<1>2. /\ r.vertices_created = Cardinality(Unique(RowsOf(s, f, "tag")))
      /\ r.edges_created = Cardinality(Unique(RowsOf(s, f, "edge")))
  <2>. HIDE DEF s
  <2>. QED  BY <1>1 DEF Report, RowsOf
<1>3. ASSUME NEW on \in {"tag", "edge"}
      PROVE  Cardinality(mine(Space(on), on)) = Cardinality(Unique(RowsOf(s, f, on)))
  <2>. DEFINE rows == RowsOf(s, f, on)
  <2>1. mine(Space(on), on) = {rows[p].key : p \in Unique(rows)}
    BY AloneShows
  <2>2. DOMAIN rows \subseteq Nat \X Nat /\ IsFiniteSet(DOMAIN rows)
    BY <1>1, RowsHavePlaces
  <2>. HIDE DEF rows, mine
  <2>3. Cardinality({rows[p].key : p \in Unique(rows)}) = Cardinality(Unique(rows))
    BY <2>2, KeysAreCounted
  <2>. QED  BY <2>1, <2>3 DEF rows
<1>4. Space("tag") = vertices /\ Space("edge") = edges
  BY DEF Space
<1>5. /\ r.vertices_created = Cardinality(mine(vertices, "tag"))
      /\ r.edges_created = Cardinality(mine(edges, "edge"))
  <2>. HIDE DEF mine, r, s
  <2>. QED  BY <1>2, <1>3, <1>4
<1>6. r.vertices_created + r.edges_created + r.duplicates_skipped
        = IF s.kind = "edge_list" THEN 3 * (r.rows_read - Cardinality(r.skipped))
          ELSE r.rows_read - Cardinality(r.skipped)
  <2>1. \/ s.kind = "edge_list" /\ DOMAIN s.ends = {1, 2}
        \/ s.kind = "node_table" /\ DOMAIN s.ends = {1}
    BY StructureHasEnds
  <2>. HIDE DEF s
  <2>. QED  BY <1>1, <2>1, ReportCounts
<1>. HIDE DEF r, s
<1>. QED  BY <1>1, <1>5, <1>6 DEF r, s

\* What a finished import reports is what the space shows, when no import of
\* another file writes the same types: every row is created, a duplicate or
\* skipped (report.py, pipeline.py and writer.py of csv-ingest).
THEOREM ReportsAddUp == Spec => []ReportAddsUp
BY ImportInvariant, ReportIsRight, PTL

\* A cell that fits is written as it is.
LEMMA CoerceKeeps ==
    ASSUME NEW cell, NEW type, cell # "", type # "bool", Coerce(cell, type)[2]
    PROVE  Coerce(cell, type)[1] = cell
<1>1. ~(type \in {"int", "float"} /\ KindOf[cell] \notin {"int", type})
  BY DEF Coerce
<1>. QED  BY <1>1 DEF Coerce

LEMMA CellsAreKept == ImportInv => NothingSilentlyLost
<1>. SUFFICES ASSUME ImportInv, NEW i \in Imports, DoneAlone(i)
              PROVE  LET s == plan[i].structure
                         rows == file[i].rows
                         isEdge == s.kind = "edge_list"
                         graph == IF isEdge THEN edges ELSE vertices
                         key(row) == IF isEdge THEN <<EdgeTypeOf(s, file[i], row), EdgeOf(s, row)>>
                                     ELSE <<s.tag, row[s.ends[1]]>>
                     IN  \A n \in DOMAIN rows \ report[i].skipped, h \in DOMAIN s.props :
                           \/ rows[n][h] = "" \/ s.props[h] = "bool"
                           \/ <<n, h>> \in report[i].unparsed
                           \/ \E m \in 1 .. n - 1 : m \notin report[i].skipped /\ key(rows[m]) = key(rows[n])
                           \/ key(rows[n]) \in DOMAIN graph /\ graph[key(rows[n])][h] = rows[n][h]
  BY DEF NothingSilentlyLost
<1>. DEFINE f == file[i]
            s == Structure(f)
            K == Kept(s, f)
            isEdge == s.kind = "edge_list"
            on == IF isEdge THEN "edge" ELSE "tag"
            graph == IF isEdge THEN edges ELSE vertices
            key(row) == IF isEdge THEN <<EdgeTypeOf(s, f, row), EdgeOf(s, row)>>
                        ELSE <<s.tag, row[s.ends[1]]>>
            write == RowsOf(s, f, on)
<1>1. plan[i].structure = s /\ report[i] = Report(s, f) /\ f \in Files /\ DOMAIN s.ends \subseteq {1, 2}
  BY ReportIs DEF DoneAlone
<1>2. isEdge \/ DOMAIN s.ends = {1}
  BY StructureHasEnds
<1>3. \A p \in Unique(write) : write[p].key \in DOMAIN graph /\ graph[write[p].key] = write[p].props
  <2>1. on \in {"tag", "edge"} /\ Space(on) = graph
    BY DEF Space
  <2>. HIDE DEF on, graph
  <2>. QED  BY <2>1, AloneShows
<1>. HIDE DEF s
<1>4. /\ report[i].skipped = DOMAIN f.rows \ K
      /\ report[i].unparsed = {p \in K \X DOMAIN s.props : ~Coerce(f.rows[p[1]][p[2]], s.props[p[2]])[2]}
  BY <1>1 DEF Report
<1>5. K \subseteq DOMAIN f.rows /\ DOMAIN f.rows \subseteq Nat \ {0}
  <2>1. f.rows \in Seq([{f.headers[k] : k \in DOMAIN f.headers} -> DOMAIN KindOf \cup {""}])
    BY <1>1, ImportAssumption
  <2>2. \A S, q : q \in Seq(S) => DOMAIN q \subseteq Nat \ {0}
    OBVIOUS
  <2>. QED  BY <2>1, <2>2 DEF Kept
\* The rows to write are at the first of their places, one for each kept row.
<1>6. /\ DOMAIN write = K \X {1}
      /\ \A n \in K : /\ write[<<n, 1>>].key = key(f.rows[n])
                      /\ write[<<n, 1>>].props = Props(s, f.rows[n])
  <2>1. CASE isEdge
    BY <2>1 DEF RowsOf, EdgeRows
  <2>2. CASE ~isEdge
    BY <1>2, <2>2 DEF RowsOf, VertexRows
  <2>. QED  BY <2>1, <2>2
<1>. HIDE DEF K, on, graph, key, write
<1>7. ASSUME NEW n \in K, NEW h \in DOMAIN s.props
      PROVE  \/ f.rows[n][h] = "" \/ s.props[h] = "bool"
             \/ <<n, h>> \in report[i].unparsed
             \/ \E m \in 1 .. n - 1 : m \notin report[i].skipped /\ key(f.rows[m]) = key(f.rows[n])
             \/ key(f.rows[n]) \in DOMAIN graph /\ graph[key(f.rows[n])][h] = f.rows[n][h]
  <2>1. CASE <<n, 1>> \in Unique(write)
    <3>1. key(f.rows[n]) \in DOMAIN graph /\ graph[key(f.rows[n])] = Props(s, f.rows[n])
      BY <1>3, <1>6, <2>1
    <3>2. graph[key(f.rows[n])][h] = Coerce(f.rows[n][h], s.props[h])[1]
      BY <3>1 DEF Props
    <3>3. Coerce(f.rows[n][h], s.props[h])[2] \/ <<n, h>> \in report[i].unparsed
      BY <1>4
    <3>. QED  BY <3>1, <3>2, <3>3, CoerceKeeps
  <2>2. CASE <<n, 1>> \notin Unique(write)
    <3>1. PICK q \in DOMAIN write : Ahead(q, <<n, 1>>) /\ write[q].key = write[<<n, 1>>].key
      BY <1>6, <2>2 DEF Unique
    <3>2. PICK m \in K : q = <<m, 1>>
      BY <1>6, <3>1
    <3>3. m < n
      BY <1>5, <3>1, <3>2 DEF Ahead
    <3>4. m \in 1 .. n - 1
      BY <1>5, <3>3
    <3>5. m \notin report[i].skipped /\ key(f.rows[m]) = key(f.rows[n])
      BY <1>4, <1>6, <3>1, <3>2
    <3>. QED  BY <3>4, <3>5
  <2>. QED  BY <2>1, <2>2
<1>8. DOMAIN f.rows \ report[i].skipped = K
  BY <1>4, <1>5
<1>9. \A n \in DOMAIN f.rows \ report[i].skipped, h \in DOMAIN s.props :
         \/ f.rows[n][h] = "" \/ s.props[h] = "bool"
         \/ <<n, h>> \in report[i].unparsed
         \/ \E m \in 1 .. n - 1 : m \notin report[i].skipped /\ key(f.rows[m]) = key(f.rows[n])
         \/ key(f.rows[n]) \in DOMAIN graph /\ graph[key(f.rows[n])][h] = f.rows[n][h]
  BY <1>7, <1>8
<1>10. CASE isEdge
  <2>1. graph = edges /\ \A row : key(row) = <<EdgeTypeOf(s, f, row), EdgeOf(s, row)>>
    BY <1>10 DEF graph, key
  <2>. QED  BY <1>1, <1>9, <1>10, <2>1
<1>11. CASE ~isEdge
  <2>1. graph = vertices /\ \A row : key(row) = <<s.tag, row[s.ends[1]]>>
    BY <1>11 DEF graph, key
  <2>. QED  BY <1>1, <1>9, <1>11, <2>1
<1>. QED  BY <1>10, <1>11

\* A cell of a finished import is in the space as it was read, or the report or
\* an earlier row of the same key says why not; words in a column taken for a
\* boolean are excepted (coerce_value() and the two writes of writer.py).
THEOREM NothingIsSilentlyLost == Spec => []NothingSilentlyLost
BY ImportInvariant, CellsAreKept, PTL

=============================================================================
