---- MODULE MCImport ----
\* CsvImport on a handful of files: edge lists by name and by repetition, a
\* node table, a clash of columns, a bad header and an empty file.  In the file
\* of persons two of four cells differ in one column and one of two in the other:
\* columns that repeat alike, in the order of the file.
EXTENDS CsvImport, TLC

Header(words, typed, id, stem, valid) ==
  [words |-> words, typed |-> typed, id |-> id, stem |-> stem, valid |-> valid]

MCFacts ==
  "from" :> Header({"from"}, FALSE, FALSE, "from", TRUE) @@
  "to" :> Header({"to"}, FALSE, FALSE, "to", TRUE) @@
  "total" :> Header({"to"}, FALSE, FALSE, "total", TRUE) @@
  "type" :> Header({}, TRUE, FALSE, "type", TRUE) @@
  "id" :> Header({}, FALSE, TRUE, "id", TRUE) @@
  "amount" :> Header({}, FALSE, FALSE, "amount", TRUE) @@
  "due date" :> Header({}, FALSE, FALSE, "due", FALSE) @@
  "person_a" :> Header({}, FALSE, FALSE, "person", TRUE) @@
  "person_b" :> Header({}, FALSE, FALSE, "person", TRUE)

MCKindOf == "1" :> "int" @@ "2" :> "int" @@ "1.5" :> "float" @@ "yes" :> "bool" @@
            "no" :> "bool" @@ "x" :> "string" @@ "A" :> "string" @@ "B" :> "string" @@
            "C" :> "string" @@ "P" :> "string" @@ "Q" :> "string" @@
            "p" :> "string" @@ "-" :> "string"

\* Two spellings of a type, and a text of which nothing is left.
MCNameOf == [cell \in DOMAIN MCKindOf |-> CASE cell = "p" -> "P" [] cell = "-" -> "" [] OTHER -> cell]

Cells(headers, values) == [h \in Range(headers) |->
                             values[CHOOSE i \in DOMAIN headers : headers[i] = h]]
FileOf(stem, headers, table) ==
  [stem |-> stem, headers |-> headers,
   rows |-> [i \in DOMAIN table |-> Cells(headers, table[i])]]

Payments == <<"from", "to", "type", "amount">>
MCFiles ==
  {FileOf("calls", Payments,
     <<<<"A", "B", "P", a[1]>>, <<"B", "C", "Q", "x">>, <<"A", "B", "p", "2">>, <<"A", "C", a[2], "1">>>>)
       : a \in {<<"1", "">>, <<"yes", "-">>}}
  \cup {FileOf("person", <<"id", "amount">>,
     <<<<"A", a>>, <<"B", "">>, <<"", "">>, <<"A", "">>, <<"A", "x">>, <<"C", "x">>>>) : a \in {"1.5", "yes"}}
  \cup {FileOf("P", <<"person_a", "person_b", "amount">>,
     <<<<"A", "B", "1">>, <<"A", "B", "2">>, <<"C", "", "1">>, <<"C", "", "2">>, <<"A", "C", "2">>>>),
        FileOf("totals", <<"from", "to", "total">>, <<<<"A", "B", "1">>, <<"A", "B", "1">>>>),
        FileOf("due", <<"id", "due date">>, <<<<"A", "1">>>>),
        FileOf("empty", <<>>, <<>>)}
====
