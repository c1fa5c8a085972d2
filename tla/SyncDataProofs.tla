--------------------------- MODULE SyncDataProofs ---------------------------
(***************************************************************************)
(* Facts about rows, tables, marks and payloads that the proofs about the  *)
(* server and about the whole system share.                                *)
(***************************************************************************)
EXTENDS SyncData, TLAPS

\* The keys of rows and of marks, taken apart.
LEMMA KeyFacts ==
  /\ \A m \in Movies : Row(m) \in Entities /\ Entry(m) \in Entities /\ Deletion(m) \in Marks
  /\ \A m, n \in Movies : /\ Row(m) # Entry(n)
                          /\ Row(m) = Row(n) => m = n
                          /\ Entry(m) = Entry(n) => m = n
  /\ \A e \in Entities : e[2] \in Movies /\ (e = Row(e[2]) \/ e = Entry(e[2]))
  /\ \A x \in Marks : x[2] \in Movies /\ (x \in Entities \/ x = Deletion(x[2]))
  /\ \A x \in Marks : x[1] # "delete" => x \in Entities
  /\ Entities \subseteq Marks
  /\ None \notin Marks
BY DataAssumption DEF Row, Entry, Deletion, Entities, Marks, RowKinds

\* A missing row is no row: rows have a content and a positive time.
LEMMA NoRowFacts == NoRow \notin Rows /\ NoRow.upd = 0 /\ \A r \in Rows \cup {NoRow} : r.upd \in Nat
BY DataAssumption DEF NoRow, Rows

\* A deleted movie takes its entry along and leaves the other rows alone.
LEMMA CascadeTable ==
  ASSUME NEW table \in Tables, NEW m \in Movies
  PROVE  /\ Cascade(table, m) \in Tables
         /\ \A f \in Entities : Cascade(table, m)[f] = IF f[2] = m THEN NoRow ELSE table[f]
BY DEF Tables, Cascade

\* The items of a payload are marks; an item that is a row is in the payload.
LEMMA ItemFacts ==
  ASSUME NEW p \in Payloads
  PROVE  /\ Items(p) \subseteq Marks
         /\ \A e \in Entities : p.rows[e] \in Rows \cup {NoRow}
         /\ \A e \in Entities : e \in Items(p) <=> p.rows[e] # NoRow
<1>1. p.rows \in Tables /\ p.dels \subseteq Movies
  BY DEF Payloads
<1>2. \A m \in Movies : Deletion(m) \notin Entities
  BY DEF Deletion, Entities, RowKinds
<1>3. Items(p) \subseteq Marks
  BY <1>1, KeyFacts DEF Items
<1>4. \A e \in Entities : p.rows[e] \in Rows \cup {NoRow}
  BY <1>1 DEF Tables
<1>5. \A e \in Entities : e \in Items(p) <=> p.rows[e] # NoRow
  BY <1>1, <1>2 DEF Items
<1> QED BY <1>3, <1>4, <1>5

\* The handler takes an entry up only when it is through with the movies.
LEMMA FrontFacts ==
  ASSUME NEW todo \in SUBSET Marks, NEW x \in Front(todo)
  PROVE  /\ x \in todo /\ x \in Marks
         /\ x[1] = "watch_entry" => \A m \in Movies : Row(m) \notin todo
<1>1. x \in todo /\ x \in Marks /\ \A y \in todo : Rank(x) <= Rank(y)
  BY DEF Front
<1>2. ASSUME x[1] = "watch_entry", NEW m \in Movies, Row(m) \in todo PROVE FALSE
  <2>1. Rank(x) = 2 /\ Rank(Row(m)) = 1
    BY <1>2 DEF Rank, Row
  <2> QED BY <1>1, <1>2, <2>1
<1> QED BY <1>1, <1>2

\* ... and a row only when it is through with the deletes.
LEMMA FrontPastDeletes ==
  ASSUME NEW todo \in SUBSET Marks, NEW x \in Front(todo), x \in Entities
  PROVE  \A m \in Movies : Deletion(m) \notin todo
<1> SUFFICES ASSUME NEW m \in Movies, Deletion(m) \in todo PROVE FALSE
  OBVIOUS
<1>1. Rank(x) <= Rank(Deletion(m)) /\ Rank(Deletion(m)) = 0
  BY DEF Front, Rank, Deletion
<1>2. Rank(x) \in {1, 2}
  BY DEF Rank, Entities, RowKinds
<1> QED BY <1>1, <1>2

\* The empty table and the empty payload.
LEMMA EmptyFacts ==
  /\ EmptyTable \in Tables /\ \A e \in Entities : EmptyTable[e] = NoRow
  /\ EmptyPayload \in Payloads /\ EmptyPayload.rows = EmptyTable
BY DEF EmptyTable, EmptyPayload, Tables, Payloads

\* Writing a row keeps the foreign key when it is a movie or its movie is there.
LEMMA WriteKeepsKey ==
  ASSUME NEW t \in Tables, NEW u \in Tables, NEW e \in Entities,
         \A m \in Movies : t[Entry(m)] # NoRow => t[Row(m)] # NoRow,
         u[e] # NoRow, \A f \in Entities \ {e} : u[f] = t[f],
         e = Row(e[2]) \/ t[Row(e[2])] # NoRow
  PROVE  \A m \in Movies : u[Entry(m)] # NoRow => u[Row(m)] # NoRow
<1> SUFFICES ASSUME NEW m \in Movies, u[Entry(m)] # NoRow
             PROVE  u[Row(m)] # NoRow
  OBVIOUS
<1>1. CASE e = Row(m)
  BY <1>1
<1>2. CASE e = Entry(m)
  <2>1. e[2] = m /\ e # Row(e[2])
    BY <1>2, KeyFacts DEF Entry
  <2> QED BY <2>1, <1>2, KeyFacts
<1>3. CASE e # Row(m) /\ e # Entry(m)
  BY <1>3, KeyFacts
<1> QED BY <1>1, <1>2, <1>3

\* A deletion keeps the foreign key.
LEMMA CascadeKeepsKey ==
  ASSUME NEW t \in Tables, NEW m \in Movies,
         \A n \in Movies : t[Entry(n)] # NoRow => t[Row(n)] # NoRow
  PROVE  \A n \in Movies : Cascade(t, m)[Entry(n)] # NoRow => Cascade(t, m)[Row(n)] # NoRow
<1> SUFFICES ASSUME NEW n \in Movies, Cascade(t, m)[Entry(n)] # NoRow
             PROVE  Cascade(t, m)[Row(n)] # NoRow
  OBVIOUS
<1>1. n # m /\ t[Entry(n)] # NoRow
  BY CascadeTable, KeyFacts DEF Entry
<1> QED BY <1>1, CascadeTable, KeyFacts DEF Row
=============================================================================
