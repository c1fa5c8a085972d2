------------------------------ MODULE SyncData ------------------------------
(***************************************************************************)
(* The data that devices and the server exchange: the rows of the tables   *)
(* movies and watch_entries, the marks of sync_pending, and the push       *)
(* payload of POST /api/v1/sync.  A row keeps what synchronisation looks   *)
(* at: its content (the fields moviesConflict and watchEntriesConflict     *)
(* compare) and its updated_at.  Names and lines refer to src/internal.    *)
(***************************************************************************)
EXTENDS Naturals, FiniteSets

CONSTANTS
  Movies,   \* the movie ids (uuids)
  Vals,     \* contents of a row
  Requests, \* slots for the import requests the server handles concurrently
  MaxTime,  \* bound of the model: edits and deletes, which tick the clock
  None      \* "no content", "no mark", "no request"

ASSUME DataAssumption ==
  /\ MaxTime \in Nat
  /\ None \notin Vals
  /\ None \notin Requests
  /\ None \notin {"movie", "watch_entry", "delete"} \X Movies

VARIABLE clock \* the wall clock: the number of edits and deletes made so far

\* The kinds of synchronised rows (domain.SyncEntityMovie, ...WatchEntry).
RowKinds == {"movie", "watch_entry"}

Entities == RowKinds \X Movies

\* The keys (entity_type, entity_id) of sync_pending.  The operation column is
\* determined by the type: "delete" marks are deletes, the others upserts.
Marks == {"movie", "watch_entry", "delete"} \X Movies

Row(m) == <<"movie", m>>
Entry(m) == <<"watch_entry", m>>
Deletion(m) == <<"delete", m>>

\* A missing row is older than every row, so that time.After orders both.
NoRow == [val |-> None, upd |-> 0]
Rows == [val : Vals, upd : Nat \ {0}]
Tables == [Entities -> Rows \cup {NoRow}]

EmptyTable == [e \in Entities |-> NoRow]

\* Mutants of Newer: equal timestamps win; the comparison is forgotten.
NewerOrEqual(incoming, existing) == incoming.upd >= existing.upd
AlwaysNewer(incoming, existing) == TRUE

\* incoming.UpdatedAt.After(existing.UpdatedAt), or there is no existing row
Newer(incoming, existing) == incoming.upd > existing.upd

\* moviesConflict and watchEntriesConflict
ContentDiffers(r, s) == r.val # s.val

\* Mutant of Cascade: the watch entry is left behind.
CascadeMovieOnly(table, m) == [table EXCEPT ![Row(m)] = NoRow]

\* DELETE FROM movies, with ON DELETE CASCADE on watch_entries.movie_id
Cascade(table, m) == [e \in Entities |-> IF e[2] = m THEN NoRow ELSE table[e]]

\* Mutant of WriteFails: foreign keys are not enforced.
WriteFailsWithoutKeys(table, e, seen) == e[1] = "movie" /\ (seen = NoRow) # (table[e] = NoRow)

\* The write of SyncUpsert fails: an INSERT finds the id taken, an UPDATE no
\* row to read back, a watch entry no movie (foreign key).  seen is the row
\* SyncUpsert read before.
WriteFails(table, e, seen) ==
  IF e[1] = "movie" THEN (seen = NoRow) # (table[e] = NoRow)
                    ELSE table[Row(e[2])] = NoRow

Payloads == [rows : Tables, dels : SUBSET Movies]
EmptyPayload == [rows |-> EmptyTable, dels |-> {}]

\* What the import handler has to process for a payload.
Items(p) == {e \in Entities : p.rows[e] # NoRow} \cup {Deletion(m) : m \in p.dels}

\* Mutant of Rank: the watch entries are imported before the movies.
RankEntriesFirst(x) == CASE x[1] = "delete" -> 0 [] x[1] = "watch_entry" -> 1 [] x[1] = "movie" -> 2

Rank(x) == CASE x[1] = "delete" -> 0 [] x[1] = "movie" -> 1 [] x[1] = "watch_entry" -> 2

\* Deletes come before movies and movies before watch entries; within a kind
\* the order is that of a Go map or an unordered SELECT, hence any.
Front(todo) == {x \in todo : \A y \in todo : Rank(x) <= Rank(y)}
=============================================================================
