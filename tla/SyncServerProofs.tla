-------------------------- MODULE SyncServerProofs --------------------------
(***************************************************************************)
(* Proofs about the server.  ServerInv is inductive: each step of the      *)
(* import handler preserves it (the lemmas Keeps...), whoever sends the    *)
(* requests, so that SyncSystemProofs uses the same lemmas.                *)
(***************************************************************************)
EXTENDS SyncServer, SyncDataProofs

\* What ServerTypeOK says of one handler and one row.
LEMMA TypeFacts ==
  ASSUME ServerTypeOK
  PROVE  /\ \A q \in Requests : /\ imp[q] \in Handlers
                                /\ imp[q].pc \in {"idle", "run", "failed"}
                                /\ imp[q].payload \in Payloads
                                /\ imp[q].todo \in SUBSET Marks
                                /\ imp[q].cur \in Marks \cup {None}
                                /\ imp[q].seen \in Rows \cup {NoRow}
         /\ \A e \in Entities : server[e] \in Rows \cup {NoRow} /\ held[e] \in SUBSET Nat
BY DEF ServerTypeOK, Handlers, Tables

\* The idle handler is a handler with nothing to do.
LEMMA IdleFacts ==
  /\ IdleHandler \in Handlers
  /\ IdleHandler.pc = "idle" /\ IdleHandler.payload = EmptyPayload
  /\ IdleHandler.todo = {} /\ IdleHandler.cur = None
BY EmptyFacts DEF IdleHandler, Handlers

\* Nothing the server holds is forgotten: Received is stable when held grows.
LEMMA ReceivedGrows ==
  ASSUME NEW e \in Entities, NEW r, held[e] \subseteq held'[e], Received(e, r)
  PROVE  Received(e, r)'
BY DEF Received

\* A row that is missing, or the same as or older than one received, is received.
LEMMA ReceivedOlder ==
  ASSUME ServerTypeOK, NEW e \in Entities, NEW r \in Rows \cup {NoRow}, NEW s \in Rows \cup {NoRow},
         r.upd <= s.upd, Received(e, s)
  PROVE  Received(e, r)
<1>1. PICK t \in held[e] \cup {0} : s.upd <= t
  BY DEF Received
<1>2. t \in Nat /\ r.upd \in Nat /\ s.upd \in Nat
  BY TypeFacts, NoRowFacts
<1> QED BY <1>1, <1>2 DEF Received

\* There is nothing to receive of a missing row.
LEMMA NoRowReceived == \A e : Received(e, NoRow)
BY NoRowFacts DEF Received

\* Put writes one row and remembers it.
LEMMA PutFacts ==
  ASSUME ServerTypeOK, NEW e \in Entities, NEW r \in Rows, Put(e, r)
  PROVE  /\ server' \in Tables
         /\ held' \in [Entities -> SUBSET Nat]
         /\ server'[e] = r
         /\ \A f \in Entities \ {e} : server'[f] = server[f]
         /\ \A f \in Entities : held[f] \subseteq held'[f]
         /\ Received(e, r)'
<1>1. server \in Tables /\ held \in [Entities -> SUBSET Nat]
  BY DEF ServerTypeOK
<1>2. r.upd \in Nat
  BY NoRowFacts
<1>3. held' = [held EXCEPT ![e] = @ \cup {r.upd}] /\ server' = [server EXCEPT ![e] = r]
  BY DEF Put
<1>4. held' \in [Entities -> SUBSET Nat] /\ \A f \in Entities : held[f] \subseteq held'[f]
  BY <1>1, <1>2, <1>3
<1>5. r.upd \in held'[e]
  BY <1>1, <1>3
<1>6. Received(e, r)'
  BY <1>2, <1>5 DEF Received
<1>7. server' \in Tables /\ server'[e] = r /\ \A f \in Entities \ {e} : server'[f] = server[f]
  BY <1>1, <1>3 DEF Tables
<1> QED BY <1>4, <1>6, <1>7

\* A foreign key that holds goes on holding when the movie is there.
LEMMA PutKeepsKey ==
  ASSUME ServerTypeOK, EntryHasMovie, NEW e \in Entities, NEW r \in Rows, Put(e, r),
         e = Row(e[2]) \/ server[Row(e[2])] # NoRow
  PROVE  EntryHasMovie'
<1>1. /\ server \in Tables /\ server' \in Tables
      /\ server'[e] # NoRow /\ \A f \in Entities \ {e} : server'[f] = server[f]
  BY PutFacts, NoRowFacts DEF ServerTypeOK
<1> QED BY <1>1, WriteKeepsKey DEF EntryHasMovie

\* A deletion removes rows: no foreign key breaks and nothing is unreceived.
LEMMA CascadeKeeps ==
  ASSUME ServerTypeOK, EntryHasMovie, RowsReceived, NEW m \in Movies,
         server' = Cascade(server, m), UNCHANGED held
  PROVE  server' \in Tables /\ EntryHasMovie' /\ RowsReceived'
<1>1. /\ server' \in Tables
      /\ \A f \in Entities : server'[f] = IF f[2] = m THEN NoRow ELSE server[f]
  BY CascadeTable DEF ServerTypeOK
<1>2. EntryHasMovie'
  BY CascadeKeepsKey DEF ServerTypeOK, EntryHasMovie
<1>3. RowsReceived'
  BY <1>1, NoRowReceived DEF RowsReceived, Received
<1> QED BY <1>1, <1>2, <1>3

(***************************************************************************)
(* The steps of the import handler.                                        *)
(***************************************************************************)

\* The clauses of ServerInv about handlers survive a step that replaces one
\* handler by a sound one and lets the history grow.
LEMMA HandlersKeep ==
  ASSUME ServerInv, NEW q \in Requests,
         imp' \in [Requests -> Handlers], \A p \in Requests \ {q} : imp'[p] = imp[p],
         \A e \in Entities : held[e] \subseteq held'[e],
         imp'[q].todo \subseteq Items(imp'[q].payload),
         imp'[q].cur # None => imp'[q].cur \in imp'[q].todo,
         \A e \in Entities :
           imp'[q].pc = "run" /\ imp'[q].payload.rows[Row(e[2])] # NoRow /\ e \notin imp'[q].todo
             => \E t \in held'[e] \cup {0} : imp'[q].payload.rows[e].upd <= t
  PROVE  HandlersSound' /\ HandledReceived'
<1>1. HandlersSound'
  BY DEF ServerInv, HandlersSound
<1>2. HandledReceived'
  <2> SUFFICES ASSUME NEW p \in Requests, NEW e \in Entities,
                      imp'[p].pc = "run", imp'[p].payload.rows[Row(e[2])] # NoRow,
                      e \notin imp'[p].todo
               PROVE  \E t \in held'[e] \cup {0} : imp'[p].payload.rows[e].upd <= t
    BY DEF HandledReceived, Received
  <2>1. CASE p = q
    BY <2>1
  <2>2. CASE p # q
    BY <2>2 DEF ServerInv, HandledReceived, Received
  <2> QED BY <2>1, <2>2
<1> QED BY <1>1, <1>2

\* Steps of handlers that write no row leave the clauses about rows as they are.
LEMMA RowsKeep ==
  ASSUME ServerInv, UNCHANGED <<server, held>>, imp' \in [Requests -> Handlers]
  PROVE  ServerTypeOK' /\ EntryHasMovie' /\ RowsReceived'
BY DEF ServerInv, ServerTypeOK, EntryHasMovie, RowsReceived, Received

\* Accepting a request keeps the invariant: all its rows are still to do.
LEMMA KeepsArrive ==
  ASSUME ServerInv, NEW q \in Requests, NEW p \in Payloads, Arrive(q, p)
  PROVE  ServerInv'
<1>1. /\ imp' \in [Requests -> Handlers]
      /\ \A o \in Requests \ {q} : imp'[o] = imp[o]
      /\ imp'[q].payload = p /\ imp'[q].todo = Items(p) /\ imp'[q].cur = None
  BY ItemFacts, IdleFacts DEF Arrive, ServerInv, ServerTypeOK, Handlers
<1>2. \A e \in Entities : e \notin Items(p) => \E t \in held'[e] \cup {0} : p.rows[e].upd <= t
  BY ItemFacts, NoRowReceived DEF Received, Arrive
<1>3. HandlersSound' /\ HandledReceived'
  BY <1>1, <1>2, HandlersKeep DEF Arrive
<1> QED BY <1>1, <1>3, RowsKeep DEF Arrive, ServerInv

\* The SELECT keeps the invariant: a row it skips is not newer than the server's,
\* or it is an entry whose movie was not sent.
LEMMA KeepsLookup ==
  ASSUME ServerInv, NEW q \in Requests, Lookup(q)
  PROVE  ServerInv'
<1>1. PICK x \in Front(imp[q].todo) :
        \/ imp' = [imp EXCEPT ![q].cur = x,
                              ![q].seen = IF x[1] = "delete" THEN NoRow ELSE server[x]]
        \/ imp' = [imp EXCEPT ![q].todo = @ \ {x}] /\ ~NeedsWrite(q, x)
  BY DEF Lookup
<1>2. /\ x \in imp[q].todo /\ x \in Marks /\ (x \in Entities \/ x = Deletion(x[2]))
      /\ x[1] = "watch_entry" => \A m \in Movies : Row(m) \notin imp[q].todo
  BY TypeFacts, FrontFacts, KeyFacts DEF ServerInv
<1>3. imp[q] \in Handlers /\ imp \in [Requests -> Handlers] /\ server \in Tables
  BY DEF ServerInv, ServerTypeOK
<1>4. UNCHANGED <<server, held>>
  BY DEF Lookup
<1>5. CASE imp' = [imp EXCEPT ![q].cur = x,
                              ![q].seen = IF x[1] = "delete" THEN NoRow ELSE server[x]]
  <2>1. (IF x[1] = "delete" THEN NoRow ELSE server[x]) \in Rows \cup {NoRow}
    BY <1>2, <1>3, KeyFacts DEF Tables
  <2>2. /\ imp' \in [Requests -> Handlers]
        /\ \A o \in Requests \ {q} : imp'[o] = imp[o]
        /\ imp'[q].pc = imp[q].pc /\ imp'[q].payload = imp[q].payload
        /\ imp'[q].todo = imp[q].todo /\ imp'[q].cur = x
    BY <1>2, <1>3, <1>5, <2>1 DEF Handlers
  <2>3. HandlersSound' /\ HandledReceived'
    BY <1>2, <1>4, <2>2, HandlersKeep DEF ServerInv, HandlersSound, HandledReceived, Received
  <2> QED BY <1>4, <2>2, <2>3, RowsKeep DEF ServerInv
<1>6. CASE imp' = [imp EXCEPT ![q].todo = @ \ {x}] /\ ~NeedsWrite(q, x)
  <2>1. /\ imp' \in [Requests -> Handlers]
        /\ \A o \in Requests \ {q} : imp'[o] = imp[o]
        /\ imp'[q].pc = imp[q].pc /\ imp'[q].payload = imp[q].payload
        /\ imp'[q].todo = imp[q].todo \ {x} /\ imp'[q].cur = None
    BY <1>2, <1>3, <1>6 DEF Handlers, Lookup
  <2>2. ASSUME NEW e \in Entities, e = x, imp[q].payload.rows[Row(e[2])] # NoRow
        PROVE  Received(e, imp[q].payload.rows[e])
    <3>1. ~Newer(imp[q].payload.rows[e], server[e])
      <4>1. e[1] \in {"movie", "watch_entry"} /\ e[2] \in Movies
        BY DEF Entities, RowKinds
      <4>2. e[1] = "watch_entry" => Synced(q, e[2])
        BY <1>2, <2>2, <4>1 DEF Synced
      <4> QED BY <1>6, <2>2, <4>1, <4>2 DEF NeedsWrite
    <3>2. imp[q].payload.rows[e] \in Rows \cup {NoRow} /\ server[e] \in Rows \cup {NoRow}
      BY <1>3, ItemFacts DEF Tables, Handlers
    <3>3. imp[q].payload.rows[e].upd <= server[e].upd
      BY <3>1, <3>2, NoRowFacts DEF Newer
    <3> QED BY <3>2, <3>3, ReceivedOlder DEF ServerInv, RowsReceived
  <2>3. HandlersSound' /\ HandledReceived'
    BY <1>4, <2>1, <2>2, HandlersKeep DEF ServerInv, HandlersSound, HandledReceived, Received
  <2> QED BY <1>4, <2>1, <2>3, RowsKeep DEF ServerInv
<1> QED BY <1>1, <1>5, <1>6

\* An import's delete keeps the invariant: the cascade takes the entry along.
LEMMA KeepsWriteDelete ==
  ASSUME ServerInv, NEW q \in Requests, WriteDelete(q)
  PROVE  ServerInv'
<1> DEFINE m == imp[q].cur[2]
<1>1. /\ imp[q].cur \in Marks /\ m \in Movies /\ imp[q].cur = Deletion(m) /\ Deletion(m) \notin Entities
      /\ imp[q] \in Handlers /\ imp \in [Requests -> Handlers] /\ UNCHANGED held
  BY TypeFacts, KeyFacts DEF ServerInv, ServerTypeOK, WriteDelete, Deletion, Entities, RowKinds
<1>2. CASE server[Row(m)] = NoRow
  <2>1. /\ imp' \in [Requests -> Handlers]
        /\ \A o \in Requests \ {q} : imp'[o] = imp[o]
        /\ imp'[q].pc = "failed" /\ imp'[q].payload = imp[q].payload
        /\ imp'[q].todo = imp[q].todo /\ imp'[q].cur = imp[q].cur
    BY <1>1, <1>2 DEF WriteDelete, Handlers
  <2>2. HandlersSound' /\ HandledReceived'
    BY <1>1, <2>1, HandlersKeep DEF ServerInv, HandlersSound
  <2> QED BY <1>1, <1>2, <2>1, <2>2, RowsKeep DEF ServerInv, WriteDelete
<1>3. CASE server[Row(m)] # NoRow
  <2>1. /\ imp' \in [Requests -> Handlers]
        /\ \A o \in Requests \ {q} : imp'[o] = imp[o]
        /\ imp'[q].pc = imp[q].pc /\ imp'[q].payload = imp[q].payload
        /\ imp'[q].todo = imp[q].todo \ {Deletion(m)} /\ imp'[q].cur = None
    BY <1>1, <1>3 DEF WriteDelete, Handlers
  <2>2. HandlersSound' /\ HandledReceived'
    BY <1>1, <2>1, HandlersKeep DEF ServerInv, HandlersSound, HandledReceived, Received
  <2>3. server' \in Tables /\ EntryHasMovie' /\ RowsReceived'
    BY <1>1, <1>3, CascadeKeeps DEF ServerInv, WriteDelete
  <2> QED BY <1>1, <2>1, <2>2, <2>3 DEF ServerInv, ServerTypeOK
<1> QED BY <1>2, <1>3

\* Put keeps the clauses of ServerInv about rows.
LEMMA PutKeeps ==
  ASSUME ServerInv, NEW e \in Entities, NEW r \in Rows, Put(e, r),
         e = Row(e[2]) \/ server[Row(e[2])] # NoRow,
         imp' \in [Requests -> Handlers]
  PROVE  ServerTypeOK' /\ EntryHasMovie' /\ RowsReceived'
<1>1. ServerTypeOK' /\ EntryHasMovie'
  BY PutFacts, PutKeepsKey DEF ServerInv, ServerTypeOK
<1>2. RowsReceived'
  <2> SUFFICES ASSUME NEW f \in Entities
               PROVE  \E t \in held'[f] \cup {0} : server'[f].upd <= t
    BY DEF RowsReceived, Received
  <2> QED BY PutFacts DEF ServerInv, RowsReceived, Received
<1> QED BY <1>1, <1>2

\* An import's write keeps the invariant: the foreign key held when it succeeds.
LEMMA KeepsWriteRow ==
  ASSUME ServerInv, NEW q \in Requests, WriteRow(q)
  PROVE  ServerInv'
<1> DEFINE e == imp[q].cur
           r == imp[q].payload.rows[e]
<1>1. /\ e \in Entities /\ e \in imp[q].todo
      /\ imp[q] \in Handlers /\ imp \in [Requests -> Handlers]
      /\ imp[q].payload \in Payloads
  BY TypeFacts, KeyFacts DEF ServerInv, ServerTypeOK, HandlersSound, WriteRow
<1>2. r \in Rows
  BY <1>1, ItemFacts DEF ServerInv, HandlersSound
<1>3. CASE WriteFails(server, e, imp[q].seen)
  <2>1. /\ imp' \in [Requests -> Handlers]
        /\ \A o \in Requests \ {q} : imp'[o] = imp[o]
        /\ imp'[q].pc = "failed" /\ imp'[q].payload = imp[q].payload
        /\ imp'[q].todo = imp[q].todo /\ imp'[q].cur = imp[q].cur
    BY <1>1, <1>3 DEF WriteRow, Handlers
  <2>2. HandlersSound' /\ HandledReceived'
    BY <1>1, <1>3, <2>1, HandlersKeep DEF ServerInv, HandlersSound, WriteRow
  <2> QED BY <1>1, <1>3, <2>1, <2>2, RowsKeep DEF ServerInv, WriteRow
<1>4. CASE ~WriteFails(server, e, imp[q].seen)
  <2>1. Put(e, r)
    BY <1>4 DEF WriteRow
  <2>2. /\ imp' \in [Requests -> Handlers]
        /\ \A o \in Requests \ {q} : imp'[o] = imp[o]
        /\ imp'[q].pc = imp[q].pc /\ imp'[q].payload = imp[q].payload
        /\ imp'[q].todo = imp[q].todo \ {e} /\ imp'[q].cur = None
    BY <1>1, <1>4 DEF WriteRow, Handlers
  <2>3. \A f \in Entities : held[f] \subseteq held'[f]
    BY <1>1, <1>2, <2>1, PutFacts DEF ServerInv
  <2>4. \E t \in held'[e] \cup {0} : r.upd <= t
    BY <1>1, <1>2, <2>1, PutFacts DEF ServerInv, Received
  <2>5. HandlersSound' /\ HandledReceived'
    BY <1>1, <2>2, <2>3, <2>4, HandlersKeep DEF ServerInv, HandlersSound, HandledReceived, Received
  <2>6. e = Row(e[2]) \/ server[Row(e[2])] # NoRow
    BY <1>1, <1>4 DEF WriteFails, Entities, RowKinds, Row
  <2> QED BY <1>1, <1>2, <2>1, <2>2, <2>5, <2>6, PutKeeps DEF ServerInv
<1> QED BY <1>3, <1>4

\* A request given up keeps the invariant: it acknowledges nothing.
LEMMA KeepsAbort ==
  ASSUME ServerInv, NEW q \in Requests, Abort(q)
  PROVE  ServerInv'
<1>1. /\ imp' \in [Requests -> Handlers]
      /\ \A o \in Requests \ {q} : imp'[o] = imp[o]
      /\ imp'[q].pc = "failed" /\ imp'[q].payload = imp[q].payload
      /\ imp'[q].todo = imp[q].todo /\ imp'[q].cur = imp[q].cur
  BY DEF ServerInv, ServerTypeOK, Abort, Handlers
<1>2. HandlersSound' /\ HandledReceived'
  BY <1>1, HandlersKeep DEF ServerInv, HandlersSound, Abort
<1> QED BY <1>1, <1>2, RowsKeep DEF ServerInv, Abort

\* The end of a request keeps the invariant.
LEMMA KeepsRelease ==
  ASSUME ServerInv, NEW q \in Requests, Release(q)
  PROVE  ServerInv'
<1>1. /\ imp' \in [Requests -> Handlers]
      /\ \A o \in Requests \ {q} : imp'[o] = imp[o]
      /\ imp'[q] = IdleHandler
  BY IdleFacts DEF ServerInv, ServerTypeOK, Release
<1>2. HandlersSound' /\ HandledReceived'
  BY <1>1, HandlersKeep, IdleFacts DEF Release
<1> QED BY <1>1, <1>2, RowsKeep DEF ServerInv, Release

(***************************************************************************)
(* The REST handlers and the server alone.                                 *)
(***************************************************************************)

\* A step that writes a row and touches no handler keeps the invariant.
LEMMA KeepsRestWrite ==
  ASSUME ServerInv, NEW e \in Entities, NEW r \in Rows, Put(e, r), UNCHANGED imp,
         e = Row(e[2]) \/ server[Row(e[2])] # NoRow
  PROVE  ServerInv'
<1>1. imp \in [Requests -> Handlers] /\ \A f \in Entities : held[f] \subseteq held'[f]
  BY PutFacts DEF ServerInv, ServerTypeOK
<1>2. ServerTypeOK' /\ EntryHasMovie' /\ RowsReceived'
  BY <1>1, PutKeeps
<1>3. HandlersSound'
  BY DEF ServerInv, HandlersSound
<1>4. HandledReceived'
  BY <1>1 DEF ServerInv, HandledReceived, Received
<1> QED BY <1>2, <1>3, <1>4 DEF ServerInv

\* DELETE /api/v1/movies/{id} keeps the invariant.
LEMMA KeepsRestDelete ==
  ASSUME ServerInv, NEW m \in Movies, RestDelete(m)
  PROVE  ServerInv'
<1>1. server' \in Tables /\ EntryHasMovie' /\ RowsReceived'
  BY CascadeKeeps DEF ServerInv, RestDelete
<1>2. HandlersSound' /\ HandledReceived'
  BY DEF ServerInv, HandlersSound, HandledReceived, Received, RestDelete
<1> QED BY <1>1, <1>2 DEF ServerInv, ServerTypeOK, RestDelete

\* The payloads that the environment Push sends are payloads.
LEMMA PushPayloads ==
  ASSUME NEW m \in Movies, NEW v \in Vals, NEW t \in Nat \ {0},
         NEW kinds \in SUBSET RowKinds, NEW dels \in SUBSET {m}
  PROVE  [rows |-> [e \in Entities |-> IF e \in kinds \X {m} THEN [val |-> v, upd |-> t] ELSE NoRow],
          dels |-> dels] \in Payloads
BY DEF Payloads, Tables, Rows

\* A step of one handler is none of the others.
LEMMA OtherHandlers ==
  ASSUME ServerInv, NEW q \in Requests,
         (\E p \in Payloads : Arrive(q, p)) \/ ImportStep(q) \/ Release(q),
         NEW o \in Requests, o # q
  PROVE  imp'[o] = imp[o]
<1>1. imp \in [Requests -> Handlers]
  BY DEF ServerInv, ServerTypeOK
<1>2. ASSUME NEW p, Arrive(q, p) PROVE imp'[o] = imp[o]
  BY <1>1, <1>2 DEF Arrive
<1>3. ASSUME Lookup(q) PROVE imp'[o] = imp[o]
  BY <1>1, <1>3 DEF Lookup
<1>4. ASSUME WriteDelete(q) \/ WriteRow(q) \/ Abort(q) \/ Release(q) PROVE imp'[o] = imp[o]
  BY <1>1, <1>4 DEF WriteDelete, WriteRow, Abort, Release
<1> QED BY <1>2, <1>3, <1>4 DEF ImportStep

\* The writes that handlers have outstanding stay due.
LEMMA KeepsCompared ==
  ASSUME ServerInv, Compared, NEW q \in Requests,
         (\E p \in Payloads : Arrive(q, p)) \/ ImportStep(q) \/ Release(q)
  PROVE  Compared'
<1>1. imp \in [Requests -> Handlers] /\ server \in Tables
  BY DEF ServerInv, ServerTypeOK
<1> SUFFICES ASSUME NEW o \in Requests
             PROVE  /\ imp'[o].cur # None => imp'[o].cur \in Front(imp'[o].todo)
                    /\ imp'[o].cur \in Entities =>
                         /\ imp'[o].payload.rows[Row(imp'[o].cur[2])] # NoRow
                         /\ Newer(imp'[o].payload.rows[imp'[o].cur], imp'[o].seen)
  BY DEF Compared
<1>2. \/ /\ imp'[o].payload = imp[o].payload /\ imp'[o].cur = imp[o].cur /\ imp'[o].seen = imp[o].seen
         /\ imp'[o].todo = imp[o].todo
      \/ imp'[o].cur = None
      \/ Lookup(q) /\ o = q
  <2>1. CASE o # q
    BY <2>1, OtherHandlers
  <2>2. CASE o = q /\ \E p \in Payloads : Arrive(q, p)
    BY <1>1, <2>2 DEF Arrive, IdleHandler
  <2>3. CASE o = q /\ (WriteDelete(q) \/ WriteRow(q))
    BY <1>1, <2>3 DEF WriteDelete, WriteRow, Handlers
  <2>4. CASE o = q /\ Abort(q)
    BY <1>1, <2>4 DEF Abort, Handlers
  <2>5. CASE o = q /\ Release(q)
    BY <1>1, <2>5, IdleFacts DEF Release
  <2> QED BY <2>1, <2>2, <2>3, <2>4, <2>5 DEF ImportStep
<1>3. CASE Lookup(q) /\ o = q
  <2>1. PICK x \in Front(imp[q].todo) :
          \/ /\ NeedsWrite(q, x)
             /\ imp' = [imp EXCEPT ![q].cur = x, ![q].seen = IF x[1] = "delete" THEN NoRow ELSE server[x]]
          \/ imp' = [imp EXCEPT ![q].todo = @ \ {x}]
    BY <1>3 DEF Lookup
  <2>2. imp'[q].payload = imp[q].payload
    BY <1>1, <2>1 DEF Handlers
  <2>3. CASE imp' = [imp EXCEPT ![q].todo = @ \ {x}]
    BY <1>1, <1>3, <2>3, KeyFacts DEF Handlers, Lookup
  <2>4. CASE /\ NeedsWrite(q, x)
             /\ imp' = [imp EXCEPT ![q].cur = x, ![q].seen = IF x[1] = "delete" THEN NoRow ELSE server[x]]
    <3>1. /\ imp'[q].cur = x /\ imp'[q].seen = IF x[1] = "delete" THEN NoRow ELSE server[x]
          /\ imp'[q].todo = imp[q].todo
      BY <1>1, <2>4 DEF Handlers
    <3>2. ASSUME x \in Entities
          PROVE  imp[q].payload.rows[Row(x[2])] # NoRow /\ Newer(imp[q].payload.rows[x], server[x])
      <4>1. /\ x[1] \in {"movie", "watch_entry"} /\ (x = Row(x[2]) \/ x[1] = "watch_entry")
            /\ imp[q].payload.rows[x] \in Rows \cup {NoRow} /\ server[x] \in Rows \cup {NoRow}
        BY <1>1, <3>2, ItemFacts DEF Entities, RowKinds, Row, Handlers, Tables
      <4>2. Newer(imp[q].payload.rows[x], server[x])
        BY <2>4, <4>1 DEF NeedsWrite
      <4>3. imp[q].payload.rows[x] # NoRow
        BY <4>1, <4>2, NoRowFacts DEF Newer
      <4>4. x[1] = "watch_entry" => imp[q].payload.rows[Row(x[2])] # NoRow
        BY <2>4 DEF NeedsWrite, Synced
      <4> QED BY <4>1, <4>2, <4>3, <4>4
    <3>3. x \in Entities => x[1] # "delete"
      BY DEF Entities, RowKinds
    <3> QED BY <1>3, <2>2, <3>1, <3>2, <3>3
  <2> QED BY <2>1, <2>3, <2>4
<1>4. None \notin Entities
  BY KeyFacts
<1> QED BY <1>2, <1>3, <1>4 DEF Compared

\* What a payload carries is what the handler writes: rows of the past stay so.
LEMMA KeepsPast ==
  ASSUME ServerInv, InThePast, NEW q \in Requests, ImportStep(q) \/ Release(q), UNCHANGED clock
  PROVE  InThePast'
<1>1. /\ imp \in [Requests -> Handlers] /\ server \in Tables /\ clock \in Nat
      /\ \A e \in Entities : server[e].upd <= clock
  BY DEF ServerInv, ServerTypeOK, InThePast
<1>2. \A o \in Requests : imp'[o].payload \in {imp[o].payload, EmptyPayload}
  <2>1. CASE Lookup(q)
    <3>1. ASSUME NEW x, imp' = [imp EXCEPT ![q].todo = @ \ {x}]
          PROVE  \A o \in Requests : imp'[o].payload = imp[o].payload
      BY <1>1, <3>1 DEF Handlers
    <3>2. ASSUME NEW x, NEW s, imp' = [imp EXCEPT ![q].cur = x, ![q].seen = s]
          PROVE  \A o \in Requests : imp'[o].payload = imp[o].payload
      BY <1>1, <3>2 DEF Handlers
    <3> QED BY <2>1, <3>1, <3>2 DEF Lookup
  <2>2. CASE WriteDelete(q) \/ WriteRow(q) \/ Abort(q)
    BY <1>1, <2>2 DEF WriteDelete, WriteRow, Abort, Handlers
  <2>3. CASE Release(q)
    BY <1>1, <2>3, IdleFacts DEF Release
  <2> QED BY <2>1, <2>2, <2>3 DEF ImportStep
<1>3. \A o \in Requests, e \in Entities : imp'[o].payload.rows[e].upd <= clock
  BY <1>1, <1>2, EmptyFacts, NoRowFacts DEF InThePast
<1>4. \A e \in Entities : server'[e].upd <= clock
  <2>1. CASE UNCHANGED server
    BY <1>1, <2>1
  <2>2. CASE WriteDelete(q) /\ ~UNCHANGED server
    <3>1. server' = Cascade(server, imp[q].cur[2])
      BY <2>2 DEF WriteDelete
    <3>2. \A e \in Entities : server'[e] \in {server[e], NoRow}
      BY <3>1 DEF Cascade
    <3> QED BY <1>1, <3>2, NoRowFacts
  <2>3. CASE WriteRow(q) /\ ~UNCHANGED server
    <3>1. server' = [server EXCEPT ![imp[q].cur] = imp[q].payload.rows[imp[q].cur]]
      BY <2>3 DEF WriteRow, Put
    <3> QED BY <1>1, <3>1 DEF InThePast, Tables
  <2> QED BY <2>1, <2>2, <2>3 DEF ImportStep, Lookup, Abort, Release
<1> QED BY <1>1, <1>3, <1>4 DEF InThePast

\* A row stamped by a REST handler is of the present, and the rest is of the past.
LEMMA KeepsPastStamped ==
  ASSUME ServerInv, InThePast, NEW e \in Entities, NEW v \in Vals, Put(e, Stamped(v)), Tick, UNCHANGED imp
  PROVE  InThePast' /\ server[e].upd < server'[e].upd
<1>1. server \in Tables /\ clock \in Nat /\ clock' = clock + 1 /\ Stamped(v).upd = clock + 1
  BY DEF ServerInv, ServerTypeOK, InThePast, Tick, Stamped
<1>2. \A q \in Requests, f \in Entities : imp[q].payload.rows[f].upd \in Nat
  BY ItemFacts, NoRowFacts DEF ServerInv, ServerTypeOK, Handlers
<1>3. \A f \in Entities : server[f].upd \in Nat
  BY <1>1, NoRowFacts DEF Tables
<1>4. server'[e] = Stamped(v) /\ \A f \in Entities \ {e} : server'[f] = server[f]
  BY <1>1 DEF Put, Tables
<1> QED BY <1>1, <1>2, <1>3, <1>4 DEF InThePast

\* The inductive invariant of the server holds in every reachable state: its rows
\* obey the foreign key and its handlers forget no row they were sent.
THEOREM ServerInvariant == ServerSpec => []ServerAloneInv
<1>1. ServerInit => ServerAloneInv
  <2> SUFFICES ASSUME ServerInit PROVE ServerAloneInv
    OBVIOUS
  <2>1. ServerTypeOK
    BY EmptyFacts, IdleFacts DEF ServerInit, ServerTypeOK
  <2>2. EntryHasMovie /\ RowsReceived
    BY EmptyFacts, KeyFacts, NoRowReceived DEF ServerInit, EntryHasMovie, RowsReceived
  <2>3. HandlersSound /\ HandledReceived /\ Compared
    BY IdleFacts, KeyFacts DEF ServerInit, HandlersSound, HandledReceived, Compared
  <2>4. InThePast
    BY IdleFacts, EmptyFacts, NoRowFacts DEF ServerInit, InThePast
  <2> QED BY <2>1, <2>2, <2>3, <2>4 DEF ServerInv, ServerAloneInv
<1>2. ServerAloneInv /\ [ServerNext]_<<clock, serverVars>> => ServerAloneInv'
  <2> SUFFICES ASSUME ServerInv, Compared, InThePast, [ServerNext]_<<clock, serverVars>>
               PROVE  ServerInv' /\ Compared' /\ InThePast'
    BY DEF ServerAloneInv
  <2>1. ASSUME NEW q \in Requests, NEW m \in Movies, NEW v \in Vals, NEW t \in 1 .. clock + 1,
               Push(q, m, v, t)
        PROVE  ServerInv' /\ Compared' /\ InThePast'
    <3>1. clock \in Nat /\ t \in Nat \ {0} /\ t <= clock + 1 /\ clock' = clock + 1
      BY <2>1 DEF InThePast, Push, Tick
    <3>2. PICK kinds \in SUBSET RowKinds, dels \in SUBSET {m} :
            Arrive(q, [rows |-> [e \in Entities |-> IF e \in kinds \X {m} THEN [val |-> v, upd |-> t]
                                                    ELSE NoRow],
                       dels |-> dels])
      BY <2>1 DEF Push
    <3> DEFINE p == [rows |-> [e \in Entities |-> IF e \in kinds \X {m} THEN [val |-> v, upd |-> t]
                                                  ELSE NoRow],
                     dels |-> dels]
    <3>3. p \in Payloads
      BY <3>1, PushPayloads
    <3>4. \A e \in Entities : p.rows[e].upd <= clock + 1
      BY <3>1, NoRowFacts
    <3> HIDE DEF p
    <3>5. Arrive(q, p)
      BY <3>2 DEF p
    <3>6. ServerInv' /\ Compared'
      BY <3>3, <3>5, KeepsArrive, KeepsCompared
    <3>7. UNCHANGED server /\ \A o \in Requests : imp'[o].payload \in {imp[o].payload, p}
      BY <3>5 DEF Arrive, ServerInv, ServerTypeOK, Handlers, IdleHandler
    <3>8. /\ \A e \in Entities : server[e].upd \in Nat
          /\ \A o \in Requests, e \in Entities : imp[o].payload.rows[e].upd \in Nat
      BY ItemFacts, NoRowFacts DEF ServerInv, ServerTypeOK, Handlers, Tables
    <3>9. InThePast'
      BY <3>1, <3>4, <3>7, <3>8 DEF InThePast
    <3> QED BY <3>6, <3>9
  <2>2. ASSUME NEW q \in Requests, ImportStep(q) \/ Release(q), UNCHANGED clock
        PROVE  ServerInv' /\ Compared' /\ InThePast'
    BY <2>2, KeepsLookup, KeepsWriteDelete, KeepsWriteRow, KeepsAbort, KeepsRelease, KeepsCompared,
       KeepsPast DEF ImportStep
  <2>3. ASSUME NEW v \in Vals PROVE Stamped(v) \in Rows
    BY DEF Stamped, Rows, InThePast
  <2>4. ASSUME UNCHANGED imp PROVE Compared'
    BY <2>4 DEF Compared
  <2>5. ASSUME NEW m \in Movies, NEW v \in Vals, RestCreate(m, v)
        PROVE  ServerInv' /\ Compared' /\ InThePast'
    <3>1. Row(m) \in Entities /\ Row(m) = Row(Row(m)[2])
      BY KeyFacts DEF Row
    <3> QED BY <2>3, <2>4, <2>5, <3>1, KeepsRestWrite, KeepsPastStamped DEF RestCreate
  <2>6. ASSUME NEW e \in Entities, NEW v \in Vals, RestSave(e, v)
        PROVE  ServerInv' /\ Compared' /\ InThePast'
    BY <2>3, <2>4, <2>6, KeepsRestWrite, KeepsPastStamped DEF RestSave
  <2>7. ASSUME NEW m \in Movies, RestDelete(m)
        PROVE  ServerInv' /\ Compared' /\ InThePast'
    <3>1. \A e \in Entities : server'[e] \in {server[e], NoRow}
      BY <2>7 DEF RestDelete, Cascade
    <3>2. InThePast'
      BY <2>7, <3>1, NoRowFacts DEF InThePast, RestDelete
    <3> QED BY <2>4, <2>7, <3>2, KeepsRestDelete DEF RestDelete
  <2>8. CASE UNCHANGED <<clock, serverVars>>
    BY <2>4, <2>8 DEF serverVars, ServerInv, ServerTypeOK, EntryHasMovie, HandlersSound, RowsReceived,
                HandledReceived, Received, InThePast
  <2> QED BY <2>1, <2>2, <2>5, <2>6, <2>7, <2>8 DEF ServerNext
<1> QED BY <1>1, <1>2, PTL DEF ServerSpec

\* For every set of movies, contents and requests, the tables hold rows stamped
\* after time 0 and the handlers of importData work on marks and rows only.
THEOREM ServerTypeCorrect == ServerSpec => []ServerTypeOK
<1>1. ServerAloneInv => ServerTypeOK
  BY DEF ServerAloneInv, ServerInv
<1> QED BY <1>1, ServerInvariant, PTL

\* No watch entry without its movie, however imports and deletes interleave.
THEOREM EntriesHaveMovies == ServerSpec => []EntryHasMovie
<1>1. ServerAloneInv => EntryHasMovie
  BY DEF ServerAloneInv, ServerInv
<1> QED BY <1>1, ServerInvariant, PTL

\* ServerInv says more than DoneMeansReceived: a handler that is done has
\* nothing left to do.
LEMMA InvImpliesReceived == ServerInv => DoneMeansReceived
BY DEF ServerInv, HandledReceived, DoneMeansReceived, Done

\* A 200 acknowledges the rows of every movie of the payload.
THEOREM DoneIsReceived == ServerSpec => []DoneMeansReceived
<1>1. ServerAloneInv => DoneMeansReceived
  BY InvImpliesReceived DEF ServerAloneInv
<1> QED BY <1>1, ServerInvariant, PTL

\* The step of a handler makes a row older only if the row changed after the
\* handler compared it.
LEMMA NewerUnlessRaced ==
  ASSUME ServerInv, Compared, NEW q \in Requests,
         (\E p \in Payloads : Arrive(q, p)) \/ ImportStep(q) \/ Release(q),
         NEW e \in Entities, server'[e] # NoRow, server'[e] # server[e], server'[e].upd <= server[e].upd
  PROVE  imp'[q] # imp[q] /\ imp[q].cur = e /\ imp[q].seen # server[e]
<1>1. server \in Tables
  BY DEF ServerInv, ServerTypeOK
<1>2. ASSUME NEW m, server' = Cascade(server, m) PROVE FALSE
  BY <1>2 DEF Cascade
<1>3. WriteRow(q)
  BY <1>2 DEF ImportStep, Lookup, WriteDelete, Abort, Release, Arrive
<1>4. server' = [server EXCEPT ![imp[q].cur] = imp[q].payload.rows[imp[q].cur]]
  BY <1>3 DEF WriteRow, Put
<1>5. imp[q].cur = e /\ server'[e] = imp[q].payload.rows[e]
  BY <1>1, <1>4 DEF Tables
<1>6. ASSUME imp[q].seen = server[e] PROVE FALSE
  <2>1. server'[e].upd > server[e].upd
    BY <1>5, <1>6 DEF Compared, Newer
  <2>2. server[e].upd \in Nat /\ server'[e].upd \in Nat
    BY <1>1, <1>5, ItemFacts, NoRowFacts DEF Tables, ServerInv, ServerTypeOK, Handlers
  <2> QED BY <2>1, <2>2
<1>7. imp'[q] # imp[q]
  <2>1. imp \in [Requests -> Handlers] /\ imp[q].cur # None
    BY <1>3 DEF WriteRow, ServerInv, ServerTypeOK
  <2>2. imp' = [imp EXCEPT ![q].todo = @ \ {imp[q].cur}, ![q].cur = None, ![q].seen = NoRow]
    BY <1>3 DEF WriteRow
  <2>3. imp'[q].cur = None
    BY <2>1, <2>2 DEF Handlers
  <2> QED BY <2>1, <2>3
<1> QED BY <1>5, <1>6, <1>7

\* An import makes a row older only if the row changed after it was compared.
THEOREM ImportsApplyNewer == ServerSpec => OlderNeedsRace
<1> DEFINE Step ==
      \A e \in Entities :
        server[e] # NoRow /\ server'[e] # NoRow /\ server'[e] # server[e] /\ server'[e].upd <= server[e].upd
          => \E q \in Requests : imp'[q] # imp[q] /\ imp[q].cur = e /\ imp[q].seen # server[e]
<1>1. ASSUME ServerAloneInv, [ServerNext]_<<clock, serverVars>> PROVE [Step]_server
  <2> SUFFICES ASSUME NEW e \in Entities, server'[e] # NoRow, server'[e] # server[e],
                      server'[e].upd <= server[e].upd,
                      ~\E q \in Requests : imp'[q] # imp[q] /\ imp[q].cur = e /\ imp[q].seen # server[e]
               PROVE  FALSE
    OBVIOUS
  <2>1. ServerInv /\ Compared /\ InThePast /\ server \in Tables /\ clock \in Nat
    BY <1>1 DEF ServerAloneInv, ServerInv, ServerTypeOK, InThePast
  <2>3. ASSUME NEW m, server' = Cascade(server, m) PROVE FALSE
    BY <2>3 DEF Cascade
  <2>4. ASSUME NEW f \in Entities, NEW v \in Vals, Put(f, Stamped(v)), Tick, UNCHANGED imp PROVE FALSE
    <3>1. f = e
      BY <2>1, <2>4 DEF Put, Tables
    <3>2. server[e].upd < server'[e].upd
      BY <2>1, <2>4, <3>1, KeepsPastStamped
    <3>3. server'[e].upd \in Nat /\ server[e].upd \in Nat
      <4>1. server' = [server EXCEPT ![e] = Stamped(v)] /\ Stamped(v).upd = clock + 1
        BY <2>4, <3>1 DEF Put, Stamped
      <4>2. server'[e].upd = clock + 1
        BY <2>1, <4>1 DEF Tables
      <4> QED BY <2>1, <4>2, NoRowFacts DEF Tables
    <3> QED BY <3>2, <3>3
  <2>5. ASSUME NEW q \in Requests, ImportStep(q) \/ Release(q) PROVE FALSE
    BY <2>1, <2>5, NewerUnlessRaced
  <2>6. ASSUME NEW m \in Movies, NEW v \in Vals, RestCreate(m, v) PROVE FALSE
    BY <2>4, <2>6, KeyFacts DEF RestCreate
  <2>7. ASSUME NEW f \in Entities, NEW v \in Vals, RestSave(f, v) PROVE FALSE
    BY <2>4, <2>7 DEF RestSave
  <2>8. ASSUME NEW m \in Movies, RestDelete(m) PROVE FALSE
    BY <2>3, <2>8 DEF RestDelete
  <2> QED BY <1>1, <2>5, <2>6, <2>7, <2>8 DEF ServerNext, Push, Arrive, serverVars
<1>2. ServerAloneInv /\ [ServerNext]_<<clock, serverVars>> => [Step]_server
  BY <1>1
<1> QED BY <1>2, ServerInvariant, PTL DEF ServerSpec, OlderNeedsRace

(***************************************************************************)
(* An import as a whole.                                                   *)
(***************************************************************************)

\* What the import of todo makes of row e, if it is r now
After(r, p, todo, e) ==
  LET kept == IF Deletion(e[2]) \in todo THEN NoRow ELSE r
  IN IF e \in todo /\ p.rows[Row(e[2])] # NoRow /\ Newer(p.rows[e], kept) THEN p.rows[e] ELSE kept

\* An import treats each row for itself.
LEMMA ImportedByRow ==
  ASSUME NEW t, NEW p, NEW todo
  PROVE  Imported(t, p, todo) = [e \in Entities |-> After(t[e], p, todo, e)]
BY DEF Imported, After

\* Two imports come to the same if they do for each row.
LEMMA SameImport ==
  ASSUME NEW t, NEW u, NEW p, NEW a, NEW b,
         \A e \in Entities : After(t[e], p, a, e) = After(u[e], p, b, e)
  PROVE  Imported(t, p, a) = Imported(u, p, b)
BY ImportedByRow

\* A SELECT that finds nothing to do leaves out nothing of the import.
LEMMA LookupMerges ==
  ASSUME ServerInv, NEW q \in Requests, Lookup(q)
  PROVE  /\ UNCHANGED server /\ imp'[q].payload = imp[q].payload
         /\ Imported(server', imp[q].payload, imp'[q].todo) = Imported(server, imp[q].payload, imp[q].todo)
<1> DEFINE p == imp[q].payload
           todo == imp[q].todo
<1>1. PICK x \in Front(todo) :
        \/ imp' = [imp EXCEPT ![q].cur = x,
                              ![q].seen = IF x[1] = "delete" THEN NoRow ELSE server[x]]
        \/ imp' = [imp EXCEPT ![q].todo = @ \ {x}] /\ ~NeedsWrite(q, x)
  BY DEF Lookup
<1>2. /\ UNCHANGED server /\ imp \in [Requests -> Handlers] /\ imp[q] \in Handlers
      /\ todo \in SUBSET Marks /\ x \in todo /\ x \in Marks
  BY TypeFacts, FrontFacts DEF Lookup, ServerInv, ServerTypeOK
<1>3. CASE imp' = [imp EXCEPT ![q].cur = x,
                              ![q].seen = IF x[1] = "delete" THEN NoRow ELSE server[x]]
  BY <1>2, <1>3 DEF Handlers
<1>4. CASE imp' = [imp EXCEPT ![q].todo = @ \ {x}] /\ ~NeedsWrite(q, x)
  <2>1. imp'[q].payload = p /\ imp'[q].todo = todo \ {x}
    BY <1>2, <1>4 DEF Handlers
  <2>2. ASSUME NEW e \in Entities
        PROVE  After(server[e], p, todo \ {x}, e) = After(server[e], p, todo, e)
    <3>1. CASE x \notin Entities
      <4>1. x[2] \in Movies /\ x = Deletion(x[2]) /\ x[1] = "delete"
        BY <1>2, <3>1, KeyFacts DEF Deletion
      <4>2. server[Row(x[2])] = NoRow
        BY <1>4, <4>1 DEF NeedsWrite
      <4>3. e[2] = x[2] => server[e] = NoRow
        BY <4>1, <4>2, KeyFacts DEF ServerInv, EntryHasMovie
      <4>4. e # x /\ (e[2] # x[2] => Deletion(e[2]) # x)
        BY <3>1, <4>1 DEF Deletion
      <4> QED BY <4>3, <4>4 DEF After
    <3>2. CASE x \in Entities
      <4>1. \A m \in Movies : Deletion(m) \notin todo
        BY <1>2, <3>2, FrontPastDeletes
      <4>2. Deletion(e[2]) \notin todo
        BY <4>1, KeyFacts
      <4>3. x[1] \in {"movie", "watch_entry"} /\ x[2] \in Movies
        BY <3>2 DEF Entities, RowKinds
      <4>4. x[1] = "watch_entry" => Row(x[2]) \notin todo
        BY <1>2, <4>3, FrontFacts
      <4>5. ~(p.rows[Row(x[2])] # NoRow /\ Newer(p.rows[x], server[x]))
        BY <1>4, <4>3, <4>4 DEF NeedsWrite, Synced
      <4> QED BY <4>2, <4>5 DEF After
    <3> QED BY <3>1, <3>2
  <2>3. Imported(server, p, todo \ {x}) = Imported(server, p, todo)
    BY <2>2, SameImport
  <2> QED BY <1>2, <2>1, <2>3
<1> QED BY <1>1, <1>3, <1>4

\* A delete that goes through is the import's.
LEMMA WriteDeleteMerges ==
  ASSUME ServerInv, NEW q \in Requests, WriteDelete(q)
  PROVE  LET p == imp[q].payload
         IN /\ imp'[q].pc = "run" => Imported(server', p, imp'[q].todo) = Imported(server, p, imp[q].todo)
            /\ Imported(server', p, Items(p)) = Imported(server, p, Items(p))
<1> DEFINE p == imp[q].payload
           todo == imp[q].todo
           m == imp[q].cur[2]
<1>1. /\ imp \in [Requests -> Handlers] /\ imp[q] \in Handlers /\ server \in Tables
      /\ imp[q].cur \in Marks /\ imp[q].cur # None /\ imp[q].cur[1] = "delete"
  BY TypeFacts DEF ServerInv, ServerTypeOK, WriteDelete
<1>2. m \in Movies /\ imp[q].cur = Deletion(m) /\ Deletion(m) \notin Entities
  BY <1>1, KeyFacts DEF Deletion, Entities, RowKinds
<1>3. /\ imp \in [Requests -> Handlers] /\ imp[q] \in Handlers /\ server \in Tables
      /\ imp[q].cur = Deletion(m) /\ m \in Movies /\ Deletion(m) \in todo /\ todo \subseteq Items(p)
      /\ Deletion(m) \notin Entities
  BY <1>1, <1>2 DEF ServerInv, HandlersSound
<1>4. CASE server[Row(m)] = NoRow
  BY <1>3, <1>4 DEF WriteDelete, Handlers
<1>5. CASE server[Row(m)] # NoRow
  <2>1. imp'[q].todo = todo \ {Deletion(m)} /\ server' = Cascade(server, m)
    BY <1>3, <1>5 DEF WriteDelete, Handlers
  <2>2. \A e \in Entities : server'[e] = IF e[2] = m THEN NoRow ELSE server[e]
    BY <1>3, <2>1, CascadeTable
  <2>3. \A e \in Entities : e # Deletion(m) /\ (e[2] # m => Deletion(e[2]) # Deletion(m))
    BY <1>3 DEF Deletion
  <2>4. \A e \in Entities : After(server'[e], p, todo \ {Deletion(m)}, e) = After(server[e], p, todo, e)
    BY <1>3, <2>2, <2>3 DEF After
  <2>5. \A e \in Entities : After(server'[e], p, Items(p), e) = After(server[e], p, Items(p), e)
    BY <1>3, <2>2, <2>3 DEF After
  <2>6. Imported(server', p, todo \ {Deletion(m)}) = Imported(server, p, todo)
    <3> DEFINE rest == todo \ {Deletion(m)}
    <3>1. \A e \in Entities : After(server'[e], p, rest, e) = After(server[e], p, todo, e)
      BY <2>4
    <3> HIDE DEF rest, p, todo
    <3>2. Imported(server', p, rest) = Imported(server, p, todo)
      BY <3>1, SameImport
    <3> QED BY <3>2 DEF rest, p, todo
  <2>7. Imported(server', p, Items(p)) = Imported(server, p, Items(p))
    BY <2>5, SameImport
  <2> QED BY <2>1, <2>6, <2>7
<1> QED BY <1>4, <1>5

\* A row that is written as it was compared is the import's.
LEMMA WriteRowMerges ==
  ASSUME ServerInv, Compared, NEW q \in Requests, WriteRow(q), Undisturbed(q)
  PROVE  LET p == imp[q].payload
         IN /\ imp'[q].pc = "run" => Imported(server', p, imp'[q].todo) = Imported(server, p, imp[q].todo)
            /\ Imported(server', p, Items(p)) = Imported(server, p, Items(p))
<1> DEFINE p == imp[q].payload
           todo == imp[q].todo
           f == imp[q].cur
<1>1. /\ imp \in [Requests -> Handlers] /\ imp[q] \in Handlers /\ server \in Tables
      /\ todo \in SUBSET Marks /\ p \in Payloads
      /\ f \in Entities /\ f \in todo /\ f \in Items(p) /\ f \in Front(todo)
  BY TypeFacts, KeyFacts DEF ServerInv, ServerTypeOK, HandlersSound, WriteRow, Compared
<1>2. p.rows[Row(f[2])] # NoRow /\ Newer(p.rows[f], server[f])
  BY <1>1 DEF Compared, Undisturbed
<1>3. Deletion(f[2]) \notin todo
  BY <1>1, FrontPastDeletes, KeyFacts
<1>4. CASE WriteFails(server, f, imp[q].seen)
  BY <1>1, <1>4 DEF WriteRow, Handlers
<1>5. CASE ~WriteFails(server, f, imp[q].seen)
  <2>1. imp'[q].todo = todo \ {f}
    BY <1>1, <1>5 DEF WriteRow, Handlers
  <2>2. server' = [server EXCEPT ![f] = p.rows[f]]
    BY <1>5 DEF WriteRow, Put
  <2>3. server'[f] = p.rows[f] /\ \A e \in Entities \ {f} : server'[e] = server[e]
    BY <1>1, <2>2 DEF Tables
  <2>4. p.rows[f].upd \in Nat
    BY <1>1, ItemFacts, NoRowFacts
  <2>5. \A e \in Entities : Deletion(e[2]) # f
    BY <1>1 DEF Deletion, Entities, RowKinds
  <2>6. ASSUME NEW e \in Entities
        PROVE  After(server'[e], p, todo \ {f}, e) = After(server[e], p, todo, e)
    BY <1>1, <1>2, <1>3, <2>3, <2>5 DEF After
  <2>7. ASSUME NEW e \in Entities
        PROVE  After(server'[e], p, Items(p), e) = After(server[e], p, Items(p), e)
    BY <1>1, <1>2, <2>3, <2>4 DEF After, Newer
  <2>8. Imported(server', p, todo \ {f}) = Imported(server, p, todo)
    BY <2>6, SameImport
  <2>9. Imported(server', p, Items(p)) = Imported(server, p, Items(p))
    BY <2>7, SameImport
  <2> QED BY <2>1, <2>8, <2>9
<1> QED BY <1>4, <1>5

\* The two promises, for one step
MergeStep ==
  \A q \in Requests :
    /\ imp[q].pc = "run" /\ imp'[q].pc = "run" /\ imp'[q] # imp[q]
    /\ Undisturbed(q)
    => Imported(server', imp[q].payload, imp'[q].todo) = Imported(server, imp[q].payload, imp[q].todo)
RetryStep ==
  \A q \in Requests :
    /\ imp[q].pc # "idle" /\ imp'[q] # imp[q]
    /\ Undisturbed(q)
    => LET p == imp[q].payload
       IN Imported(server', p, Items(p)) = Imported(server, p, Items(p))

\* Every step of a handler keeps both.
LEMMA StepsMerge ==
  ASSUME ServerInv, Compared, NEW q \in Requests,
         (\E p \in Payloads : Arrive(q, p)) \/ ImportStep(q) \/ Release(q)
  PROVE  MergeStep /\ RetryStep
<1>1. \A o \in Requests : o # q => imp'[o] = imp[o]
  BY OtherHandlers
<1>2. imp \in [Requests -> Handlers]
  BY DEF ServerInv, ServerTypeOK
<1>3. ASSUME imp[q].pc # "idle", Undisturbed(q)
      PROVE  LET p == imp[q].payload
             IN /\ imp[q].pc = "run" /\ imp'[q].pc = "run"
                     => Imported(server', p, imp'[q].todo) = Imported(server, p, imp[q].todo)
                /\ Imported(server', p, Items(p)) = Imported(server, p, Items(p))
  <2>1. CASE Lookup(q)
    BY <2>1, LookupMerges
  <2>2. CASE WriteDelete(q)
    BY <2>2, WriteDeleteMerges
  <2>3. CASE WriteRow(q)
    BY <1>3, <2>3, WriteRowMerges
  <2>4. CASE Abort(q) \/ Release(q)
    <3>1. UNCHANGED server /\ imp'[q].pc # "run"
      BY <1>2, <2>4, IdleFacts DEF Abort, Release, Handlers
    <3> QED BY <3>1
  <2>5. ASSUME NEW p, Arrive(q, p) PROVE FALSE
    BY <1>3, <2>5 DEF Arrive
  <2> QED BY <2>1, <2>2, <2>3, <2>4, <2>5 DEF ImportStep
<1>4. MergeStep
  BY <1>1, <1>3 DEF MergeStep
<1>5. RetryStep
  BY <1>1, <1>3 DEF RetryStep
<1> QED BY <1>4, <1>5

\* Steps of nobody's handler keep them too.
LEMMA NoHandlerMerges ==
  ASSUME UNCHANGED imp
  PROVE  MergeStep /\ RetryStep
BY DEF MergeStep, RetryStep

\* A step of the server alone is that of a handler or of nobody's.
LEMMA ServerStepMerges ==
  ASSUME ServerAloneInv, [ServerNext]_<<clock, serverVars>>
  PROVE  MergeStep /\ RetryStep
<1>1. ServerInv /\ Compared /\ clock \in Nat
  BY DEF ServerAloneInv, InThePast
<1>2. ASSUME NEW q \in Requests, NEW m \in Movies, NEW v \in Vals, NEW t \in 1 .. clock + 1, Push(q, m, v, t)
      PROVE  \E p \in Payloads : Arrive(q, p)
  <2>1. PICK kinds \in SUBSET RowKinds, dels \in SUBSET {m} :
          Arrive(q, [rows |-> [e \in Entities |-> IF e \in kinds \X {m} THEN [val |-> v, upd |-> t]
                                                  ELSE NoRow],
                     dels |-> dels])
    BY <1>2 DEF Push
  <2>2. t \in Nat \ {0}
    BY <1>1
  <2> QED BY <2>1, <2>2, PushPayloads
<1>3. ASSUME NEW q \in Requests,
             (\E m \in Movies, v \in Vals, t \in 1 .. clock + 1 : Push(q, m, v, t)) \/ ImportStep(q) \/ Release(q)
      PROVE  MergeStep /\ RetryStep
  BY <1>1, <1>2, <1>3, StepsMerge
<1>4. CASE UNCHANGED <<clock, serverVars>>
  BY <1>4, NoHandlerMerges DEF serverVars
<1>5. CASE \/ \E m \in Movies, v \in Vals : RestCreate(m, v)
           \/ \E e \in Entities, v \in Vals : RestSave(e, v)
           \/ \E m \in Movies : RestDelete(m)
  BY <1>5, NoHandlerMerges DEF RestCreate, RestSave, RestDelete
<1> QED BY <1>3, <1>4, <1>5 DEF ServerNext

\* Each step of an import does its part of what the whole import makes of the
\* tables, in any interleaving that leaves its row alone.
THEOREM ImportsAreMerges == ServerSpec => ImportsMerge
<1>1. ServerAloneInv /\ [ServerNext]_<<clock, serverVars>> => [MergeStep]_serverVars
  BY ServerStepMerges
<1> QED BY <1>1, ServerInvariant, PTL DEF ServerSpec, ImportsMerge, MergeStep

\* An import may be repeated, whether it failed on its way or was done.
THEOREM ImportsMayBeRetried == ServerSpec => RetriesAreHarmless
<1>1. ServerAloneInv /\ [ServerNext]_<<clock, serverVars>> => [RetryStep]_serverVars
  BY ServerStepMerges
<1> QED BY <1>1, ServerInvariant, PTL DEF ServerSpec, RetriesAreHarmless, RetryStep

\* A payload that is imported twice comes to what it came to at first: a push
\* whose acknowledgement was lost is sent again.
THEOREM ImportTwice ==
  ASSUME NEW t \in Tables, NEW p \in Payloads
  PROVE  Imported(Imported(t, p, Items(p)), p, Items(p)) = Imported(t, p, Items(p))
<1> DEFINE u == Imported(t, p, Items(p))
<1>1. ASSUME NEW e \in Entities
      PROVE  After(u[e], p, Items(p), e) = After(t[e], p, Items(p), e)
  <2>1. u[e] = After(t[e], p, Items(p), e)
    BY ImportedByRow
  <2>2. p.rows[e].upd \in Nat
    BY ItemFacts, NoRowFacts
  <2> QED BY <2>1, <2>2 DEF After, Newer
<1> HIDE DEF u
<1>2. Imported(u, p, Items(p)) = Imported(t, p, Items(p))
  BY <1>1, SameImport
<1> QED BY <1>2 DEF u

\* Two payloads without deletes may be imported in either order, if no two
\* versions of a row have the same time: last-write-wins needs no order.
THEOREM ImportsCommute ==
  ASSUME NEW t \in Tables, NEW p \in Payloads, NEW s \in Payloads, p.dels = {}, s.dels = {},
         \A e \in Entities : \A a, b \in {t[e], p.rows[e], s.rows[e]} : a.upd = b.upd => a = b
  PROVE  Imported(Imported(t, p, Items(p)), s, Items(s)) = Imported(Imported(t, s, Items(s)), p, Items(p))
<1> DEFINE u == Imported(t, p, Items(p))
           w == Imported(t, s, Items(s))
<1>1. \A e \in Entities : Deletion(e[2]) \notin Items(p) /\ Deletion(e[2]) \notin Items(s)
  BY DEF Items, Deletion, Entities, RowKinds
<1>2. ASSUME NEW e \in Entities
      PROVE  After(u[e], s, Items(s), e) = After(w[e], p, Items(p), e)
  <2>1. u[e] = After(t[e], p, Items(p), e) /\ w[e] = After(t[e], s, Items(s), e)
    BY ImportedByRow
  <2>2. t[e].upd \in Nat /\ p.rows[e].upd \in Nat /\ s.rows[e].upd \in Nat
    BY ItemFacts, NoRowFacts DEF Tables
  <2> HIDE DEF u, w
  <2> QED BY <1>1, <2>1, <2>2 DEF After, Newer
<1>3. Imported(u, s, Items(s)) = [e \in Entities |-> After(u[e], s, Items(s), e)]
  BY ImportedByRow
<1>4. Imported(w, p, Items(p)) = [e \in Entities |-> After(w[e], p, Items(p), e)]
  BY ImportedByRow
<1> HIDE DEF u, w
<1>5. Imported(u, s, Items(s)) = Imported(w, p, Items(p))
  BY <1>2, <1>3, <1>4
<1> QED BY <1>5 DEF u, w
=============================================================================
