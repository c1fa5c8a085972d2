----------------------------- MODULE SyncServer -----------------------------
(***************************************************************************)
(* The API server's side of synchronisation for one account: the import    *)
(* handler (server/sync_handlers.go), which runs row by row and statement  *)
(* by statement, without a transaction and concurrently with the other     *)
(* requests, and the REST handlers that edit the same tables.              *)
(*                                                                         *)
(* One connection to SQLite (MaxOpenConns(1)) makes each statement atomic. *)
(* Every SyncUpsert is two steps here: the SELECT that compares updated_at *)
(* (Lookup), and the INSERT or UPDATE that follows it (Write).             *)
(***************************************************************************)
EXTENDS SyncData

VARIABLES
  server, \* the server's tables
  imp,    \* imp[q]: the import handler of request q
  held    \* history: the updated_at of the rows the server ever held, per entity

serverVars == <<server, imp, held>>

\* A handler: what it was sent, what it has still to process, and the write
\* outstanding since its SELECT, with the row that one returned.
Handlers ==
  [pc : {"idle", "run", "failed"}, payload : Payloads, todo : SUBSET Marks,
   cur : Marks \cup {None}, seen : Rows \cup {NoRow}]

IdleHandler ==
  [pc |-> "idle", payload |-> EmptyPayload, todo |-> {}, cur |-> None, seen |-> NoRow]

ServerTypeOK ==
  /\ server \in Tables
  /\ imp \in [Requests -> Handlers]
  /\ held \in [Entities -> SUBSET Nat]

\* Mutant of Put: the row is stamped anew.
PutStamped(e, r) ==
  /\ server' = [server EXCEPT ![e] = [r EXCEPT !.upd = clock]]
  /\ held' = [held EXCEPT ![e] = @ \cup {clock}]

\* The server writes row r; the history follows.
Put(e, r) ==
  /\ server' = [server EXCEPT ![e] = r]
  /\ held' = [held EXCEPT ![e] = @ \cup {r.upd}]

\* Mutant of Done: an error is taken for a success.
DoneOrFailed(q) == imp[q].pc = "failed" \/ (imp[q].pc = "run" /\ imp[q].todo = {})

\* The server has held row r of e or a newer one; there is nothing to hold of a
\* missing row.
Received(e, r) == \E t \in held[e] \cup {0} : r.upd <= t

Done(q) == imp[q].pc = "run" /\ imp[q].todo = {}
Running(q) == imp[q].pc = "run" /\ imp[q].todo # {}

\* m is in syncedMovieIDs: the movie was in the payload and is dealt with.
Synced(q, m) == imp[q].payload.rows[Row(m)] # NoRow /\ Row(m) \notin imp[q].todo

\* importData decodes the body of a request.
Arrive(q, p) ==
  /\ imp[q].pc = "idle"
  /\ imp' = [imp EXCEPT ![q] = [IdleHandler EXCEPT !.pc = "run", !.payload = p, !.todo = Items(p)]]
  /\ UNCHANGED <<server, held>>

\* What the SELECT about item x tells the handler to do: write, or be through
\* with it (nothing to delete, an entry whose movie is not in this payload, or
\* an existing row that is not older).
NeedsWrite(q, x) ==
  \/ x[1] = "delete" /\ server[Row(x[2])] # NoRow
  \/ x[1] = "movie" /\ Newer(imp[q].payload.rows[x], server[x])
  \/ x[1] = "watch_entry" /\ Synced(q, x[2]) /\ Newer(imp[q].payload.rows[x], server[x])

\* The handler turns to its next item and reads the row it is about.
Lookup(q) ==
  /\ Running(q) /\ imp[q].cur = None
  /\ \E x \in Front(imp[q].todo) :
       IF NeedsWrite(q, x)
       THEN imp' = [imp EXCEPT ![q].cur = x,
                               ![q].seen = IF x[1] = "delete" THEN NoRow ELSE server[x]]
       ELSE imp' = [imp EXCEPT ![q].todo = @ \ {x}]
  /\ UNCHANGED <<server, held>>

\* DeleteMovie after the lookup; a row that vanished meanwhile is an error.
WriteDelete(q) ==
  /\ Running(q) /\ imp[q].cur # None
  /\ imp[q].cur[1] = "delete"
  /\ LET m == imp[q].cur[2] IN
     IF server[Row(m)] = NoRow
     THEN /\ imp' = [imp EXCEPT ![q].pc = "failed"]
          /\ UNCHANGED server
     ELSE /\ imp' = [imp EXCEPT ![q].todo = @ \ {Deletion(m)}, ![q].cur = None]
          /\ server' = Cascade(server, m)
  /\ UNCHANGED held

\* The INSERT or UPDATE of SyncUpsert: it does not look at updated_at again.
WriteRow(q) ==
  /\ Running(q) /\ imp[q].cur # None
  /\ imp[q].cur[1] # "delete"
  /\ LET e == imp[q].cur IN
     IF WriteFails(server, e, imp[q].seen)
     THEN /\ imp' = [imp EXCEPT ![q].pc = "failed"]
          /\ UNCHANGED <<server, held>>
     ELSE /\ imp' = [imp EXCEPT ![q].todo = @ \ {e}, ![q].cur = None, ![q].seen = NoRow]
          /\ Put(e, imp[q].payload.rows[e])

\* A statement fails, the request context is cancelled because the client
\* gave up, or the process stops: what was written stays written.
Abort(q) ==
  /\ Running(q)
  /\ imp' = [imp EXCEPT ![q].pc = "failed"]
  /\ UNCHANGED <<server, held>>

\* The response is sent; the request is over.
Release(q) ==
  /\ Done(q) \/ imp[q].pc = "failed"
  /\ imp' = [imp EXCEPT ![q] = IdleHandler]
  /\ UNCHANGED <<server, held>>

ImportStep(q) == Lookup(q) \/ WriteDelete(q) \/ WriteRow(q) \/ Abort(q)

(***************************************************************************)
(* The REST handlers stamp their rows with the time of the write.          *)
(***************************************************************************)

\* Mutant of Stamped: the time is read before the clock ticks.
StampedEarly(v) == [val |-> v, upd |-> clock]

Stamped(v) == [val |-> v, upd |-> clock + 1]

\* The bound of the model: edits and deletes are MaxTime at most.
Tick == clock < MaxTime /\ clock' = clock + 1

\* POST /api/v1/movies: a fresh id, which no server row and no payload had.
RestCreate(m, v) ==
  /\ Tick
  /\ held[Row(m)] = {}
  /\ \A q \in Requests : imp[q].payload.rows[Row(m)] = NoRow
  /\ Put(Row(m), Stamped(v))
  /\ UNCHANGED imp

\* PUT /api/v1/movies/{id} and PUT /api/v1/movies/{id}/watch
RestSave(e, v) ==
  /\ Tick
  /\ server[Row(e[2])] # NoRow
  /\ Put(e, Stamped(v))
  /\ UNCHANGED imp

\* DELETE /api/v1/movies/{id}
RestDelete(m) ==
  /\ server[Row(m)] # NoRow
  /\ server' = Cascade(server, m)
  /\ UNCHANGED <<imp, held, clock>>

(***************************************************************************)
(* The server alone: any client may push any rows edited so far.           *)
(***************************************************************************)
ServerInit ==
  /\ clock = 0
  /\ server = EmptyTable
  /\ imp = [q \in Requests |-> IdleHandler]
  /\ held = [e \in Entities |-> {}]

\* A device pushes its edit of time t, made just now or earlier, and deletes.
\* The bound: the payloads of this environment are about one movie.
Push(q, m, v, t) ==
  /\ Tick
  /\ \E kinds \in SUBSET RowKinds, dels \in SUBSET {m} :
       /\ kinds # {} \/ dels # {}
       /\ Arrive(q, [rows |-> [e \in Entities |-> IF e \in kinds \X {m} THEN [val |-> v, upd |-> t]
                                                                       ELSE NoRow],
                     dels |-> dels])

ServerNext ==
  \/ \E q \in Requests :
       \/ \E m \in Movies, v \in Vals, t \in 1 .. clock + 1 : Push(q, m, v, t)
       \/ (ImportStep(q) \/ Release(q)) /\ UNCHANGED clock
  \/ \E m \in Movies, v \in Vals : RestCreate(m, v)
  \/ \E e \in Entities, v \in Vals : RestSave(e, v)
  \/ \E m \in Movies : RestDelete(m)

ServerSpec == ServerInit /\ [][ServerNext]_<<clock, serverVars>>

(***************************************************************************)
(* Properties.                                                             *)
(***************************************************************************)

\* A watch entry never outlives its movie, whatever deletes and imports
\* interleave: the foreign key makes the late write of an entry fail
\* (sync_handlers.go:87-96), and the cascade removes the entry with its movie.
EntryHasMovie == \A m \in Movies : server[Entry(m)] # NoRow => server[Row(m)] # NoRow

\* When an import succeeds, the server has held, of every movie of the payload
\* and of the watch entries that came with their movie, the pushed version or
\* a newer one: a 200 is an acknowledgement (sync_handlers.go:74-102).
DoneMeansReceived ==
  \A q \in Requests, e \in Entities :
    Done(q) /\ imp[q].payload.rows[Row(e[2])] # NoRow => Received(e, imp[q].payload.rows[e])

\* An import replaces a row by one that is not newer only when the row changed
\* between the SELECT and the UPDATE of SyncUpsert (movie_repository.go:205,
\* 234): last-write-wins breaks by a race and by nothing else.
OlderNeedsRace ==
  [][\A e \in Entities :
       server[e] # NoRow /\ server'[e] # NoRow /\ server'[e] # server[e] /\ server'[e].upd <= server[e].upd
         => \E q \in Requests : imp'[q] # imp[q] /\ imp[q].cur = e /\ imp[q].seen # server[e]]_server

(***************************************************************************)
(* What an import promises as a whole, though it is many statements.       *)
(***************************************************************************)

\* What importing the items todo of payload p makes of a table: the deletes,
\* then every row that is newer, entries only along with their movie.
Imported(table, p, todo) ==
  LET kept == [e \in Entities |-> IF Deletion(e[2]) \in todo THEN NoRow ELSE table[e]]
  IN [e \in Entities |->
        IF e \in todo /\ p.rows[Row(e[2])] # NoRow /\ Newer(p.rows[e], kept[e])
        THEN p.rows[e] ELSE kept[e]]

\* The row that handler q is about to write is as its SELECT found it.
Undisturbed(q) == imp[q].cur \in Entities => imp[q].seen = server[imp[q].cur]

\* However the statements of an import are ordered and whatever runs between
\* them, what the import will have made of the tables stays what it was: each of
\* its steps does its part of Imported, unless another request wrote the row
\* between a SELECT and its UPDATE, or the step fails (sync_handlers.go:54-97).
\* When nothing is left to do the tables are that result.
ImportsMerge ==
  [][\A q \in Requests :
       /\ imp[q].pc = "run" /\ imp'[q].pc = "run" /\ imp'[q] # imp[q]
       /\ Undisturbed(q)
       => Imported(server', imp[q].payload, imp'[q].todo) = Imported(server, imp[q].payload, imp[q].todo)]_serverVars

\* An import that failed half way may be repeated, and one that is done as well:
\* with its payload sent again, the tables become what they would have become at
\* once (sync_handlers.go:64-97; the client repeats the push, retry.go:28-48).
RetriesAreHarmless ==
  [][\A q \in Requests :
       /\ imp[q].pc # "idle" /\ imp'[q] # imp[q]
       /\ Undisturbed(q)
       => LET p == imp[q].payload
          IN Imported(server', p, Items(p)) = Imported(server, p, Items(p))]_serverVars

(***************************************************************************)
(* The inductive invariant behind EntryHasMovie and DoneMeansReceived.     *)
(***************************************************************************)

\* A handler works on its payload only, and finishes a write before it turns
\* to another item.
HandlersSound ==
  \A q \in Requests : /\ imp[q].todo \subseteq Items(imp[q].payload)
                      /\ imp[q].cur # None => imp[q].cur \in imp[q].todo

\* The history knows the rows there are.
RowsReceived == \A e \in Entities : Received(e, server[e])

\* What a handler is through with has been received.
HandledReceived ==
  \A q \in Requests, e \in Entities :
    imp[q].pc = "run" /\ imp[q].payload.rows[Row(e[2])] # NoRow /\ e \notin imp[q].todo
      => Received(e, imp[q].payload.rows[e])

ServerInv == ServerTypeOK /\ EntryHasMovie /\ HandlersSound /\ RowsReceived /\ HandledReceived

\* A write that is outstanding is due: no earlier item is left, and a row is
\* newer than the one the SELECT found, an entry's movie is in the payload.
Compared ==
  \A q \in Requests :
    LET x == imp[q].cur
        rows == imp[q].payload.rows
    IN /\ x # None => x \in Front(imp[q].todo)
       /\ x \in Entities => rows[Row(x[2])] # NoRow /\ Newer(rows[x], imp[q].seen)

\* Without skew no row is from the future.
InThePast ==
  /\ clock \in Nat
  /\ \A e \in Entities : server[e].upd <= clock
  /\ \A q \in Requests, e \in Entities : imp[q].payload.rows[e].upd <= clock

\* What holds of the server alone
ServerAloneInv == ServerInv /\ Compared /\ InThePast
=============================================================================
