------------------------------ MODULE Backups ------------------------------
(***************************************************************************)
(* The backup of configuration and interface state: the row of one account *)
(* on the server, and the transfers that write and read it                 *)
(* (repository/backup_repository.go, service/backup_service.go,            *)
(* server/backup_handlers.go, client/backup_client.go, tui/backup.go).     *)
(*                                                                         *)
(* Rows are keyed by user id and no statement touches two of them, so one  *)
(* row stands for all.  A snapshot is known by its number; what it says is *)
(* told apart only where a restore acts on it.                             *)
(***************************************************************************)
EXTENDS Naturals

CONSTANTS MaxSnapshots \* bound of the model: snapshots this interface ever sends

ASSUME BackupsAssumption == MaxSnapshots \in Nat \ {0}

VARIABLES
  row,       \* the columns config and state of the account
  snapshots, \* snapshots sent so far
  transfers, \* the requests under way, as their commands know them
  late,      \* snapshots whose PUT goes on after the client gave it up
  acked,     \* history: the last snapshot the interface reported as stored,
             \* Blank when the row has been disturbed since
  disturbed  \* history: since the last whole write another writer came in,
             \* or a PUT was given up whose fate is unknown

backupVars == <<row, snapshots, transfers, late, acked, disturbed>>

\* "{}", which Get returns for a missing row and which is read as the defaults;
\* the defaults are also what another client of the account stores.
Blank == 0
Contents == 0 .. MaxSnapshots
Rows == [config : Contents, state : Contents]
BlankRow == [config |-> Blank, state |-> Blank]

Transfers ==
  [kind : {"put", "get"}, pc : {"sent", "answered", "failed"},
   snap : 0 .. MaxSnapshots, got : Contents]

NewTransfer(kind, n) == [kind |-> kind, pc |-> "sent", snap |-> n, got |-> Blank]

FailedTransfer == [NewTransfer("get", 0) EXCEPT !.pc = "failed"]

BackupsTypeOK ==
  /\ row \in Rows
  /\ snapshots \in 0 .. MaxSnapshots
  /\ transfers \subseteq Transfers
  /\ late \subseteq 1 .. MaxSnapshots
  /\ acked \in 0 .. MaxSnapshots
  /\ disturbed \in BOOLEAN

Disturb == disturbed' = TRUE /\ acked' = Blank

Puts == {t \in transfers : t.kind = "put"}

Becomes(t, u) == transfers' = (transfers \ {t}) \cup {u}

(***************************************************************************)
(* The server.                                                             *)
(***************************************************************************)

\* Mutant of UpsertFull: DO UPDATE SET without the state
UpsertFullConfigOnly(n) == [row EXCEPT !.config = n]

UpsertFull(n) == [config |-> n, state |-> n]

UpsertConfig(n) == [row EXCEPT !.config = n]

UpsertState(n) == [row EXCEPT !.state = n]

\* PUT /backup
ImportSnapshot(t) ==
  /\ t.pc = "sent" /\ t.kind = "put"
  /\ row' = UpsertFull(t.snap)
  /\ Becomes(t, [t EXCEPT !.pc = "answered"])
  /\ disturbed' = (late # {})
  /\ UNCHANGED <<snapshots, late, acked>>

\* GET /backup: one SELECT, both columns; of the answer the configuration matters
ExportSnapshot(t) ==
  /\ t.pc = "sent" /\ t.kind = "get"
  /\ Becomes(t, [t EXCEPT !.pc = "answered", !.got = row.config])
  /\ UNCHANGED <<row, snapshots, late, acked, disturbed>>

\* An expired access token, which nobody refreshes here, or an error
Refuse(t) ==
  /\ t.pc = "sent"
  /\ Becomes(t, FailedTransfer)
  /\ UNCHANGED <<row, snapshots, late, acked, disturbed>>

\* A PUT that its client gave up reaches the server after all.
LateImport ==
  /\ \E n \in late : row' = UpsertFull(n) /\ late' = late \ {n}
  /\ Disturb
  /\ UNCHANGED <<snapshots, transfers>>

\* Another client of the account: PUT /backup, /backup/config or /backup/state
ImportByOther ==
  /\ row' \in {UpsertFull(Blank), UpsertConfig(Blank), UpsertState(Blank)}
  /\ Disturb
  /\ UNCHANGED <<snapshots, transfers, late>>

(***************************************************************************)
(* The client.                                                             *)
(***************************************************************************)

\* Mutant of Orphans: any request may still write.
OrphansOfAnyKind(lost) == {t.snap : t \in {u \in lost : u.pc = "sent"}}

\* What a PUT may still do that has lost its client
Orphans(lost) == {t.snap : t \in {u \in lost \cap Puts : u.pc = "sent"}}

\* The commands of these requests wait no longer.
Lose(lost) ==
  /\ late' = late \cup Orphans(lost)
  /\ IF lost \cap Puts # {} THEN Disturb ELSE UNCHANGED <<acked, disturbed>>
  /\ UNCHANGED <<row, snapshots>>

\* The timeout passes or the connection breaks; the request may live on.
GiveUp(t) == t.pc # "failed" /\ Becomes(t, FailedTransfer) /\ Lose({t})

\* The program ends, and its commands with it.
DropTransfers == transfers' = {} /\ Lose(transfers)

StartPut ==
  /\ snapshots < MaxSnapshots
  /\ snapshots' = snapshots + 1
  /\ transfers' = transfers \cup {NewTransfer("put", snapshots + 1)}
  /\ UNCHANGED <<row, late, acked, disturbed>>

StartGet ==
  /\ transfers' = transfers \cup {NewTransfer("get", Blank)}
  /\ UNCHANGED <<row, snapshots, late, acked, disturbed>>

\* The result reaches the interface.
EndTransfer(t) ==
  /\ t.pc # "sent"
  /\ transfers' = transfers \ {t}
  /\ acked' = IF t.pc = "answered" /\ t.kind = "put" /\ ~disturbed THEN t.snap ELSE acked
  /\ UNCHANGED <<row, snapshots, late, disturbed>>

BackupsInit ==
  /\ row = BlankRow /\ snapshots = 0 /\ transfers = {}
  /\ late = {} /\ acked = 0 /\ disturbed = FALSE

BackupStep ==
  \/ \E t \in transfers : ImportSnapshot(t) \/ ExportSnapshot(t) \/ Refuse(t) \/ GiveUp(t)
  \/ LateImport \/ ImportByOther

\* A backup that was reported as stored is on the server, configuration and
\* state together, until the next one is sent, unless another writer came in
\* or the fate of a PUT is unknown (repository/backup_repository.go:83,
\* tui/backup.go:45).
AckedBackupIsStored ==
  acked # Blank =>
    \E n \in {acked} \cup {t.snap : t \in Puts} : row = [config |-> n, state |-> n]
=============================================================================
