----------------------------- MODULE SyncHistory -----------------------------
(***************************************************************************)
(* SyncSystem with two more history variables, for the properties that     *)
(* relate what a device has now to what it pulled or deleted before.  They *)
(* follow the steps of SyncSystem and restrict none.                       *)
(***************************************************************************)
EXTENDS SyncSystem

VARIABLES
  exported, \* exported[d]: the export d took last, as the server sent it
  undone    \* undone[d]: movies whose deletion on d was cut off or crossed

historyVars == <<vars, exported, undone>>

HistoryTypeOK ==
  /\ TypeOK
  /\ exported \in [Devices -> Tables]
  /\ undone \in [Devices -> SUBSET Movies]

HistoryInit ==
  /\ Init
  /\ exported = [d \in Devices |-> EmptyTable]
  /\ undone = [d \in Devices |-> {}]

(***************************************************************************)
(* What the next step does to the history of device d.                     *)
(***************************************************************************)

\* The user's delete takes row e, or the conflict that kept the pull off it is
\* closed: the device need not have the exported version any more.
Withdrawn(d, e) ==
  \/ local[d][e] # NoRow /\ local'[d][e] = NoRow
  \/ \E c \in conflicts[d] \ conflicts'[d] : c.entity = e

\* The rows of the export that d answers for after the step.  A cycle that gets
\* to its end leaves them; the next push, and any error, clears them.
Export(d) ==
  IF run'[d].pc # run[d].pc
  THEN IF run'[d].pc \in {"listed", "pull"} THEN run'[d].snap
       ELSE IF FinishRun(d) THEN exported[d] ELSE EmptyTable
  ELSE IF ui'[d] # ui[d] THEN [e \in Entities |-> IF Withdrawn(d, e) THEN NoRow ELSE exported[d][e]]
  ELSE exported[d]

\* A delete is marked while the pull is at that movie's row, cut off by the end
\* of the process, or taken back by the resolution of a conflict.
Crossed(d, m) ==
  \/ ui'[d].op = "delete" /\ ui'[d].ent = Row(m) /\ run[d].cur = Row(m)
  \/ ui[d].op = "delete" /\ ui[d].ent = Row(m) /\ ui'[d] = NoOp /\ local'[d][Row(m)] # NoRow
  \/ ui'[d].op = "resolve" /\ ui'[d].ent.entity = Row(m)

\* A delete that went through, with the pull at no row of that movie
Deleted(d, m) ==
  /\ ui[d].op = "delete" /\ ui[d].ent = Row(m) /\ ui'[d] = NoOp
  /\ local'[d][Row(m)] = NoRow /\ run[d].cur # Row(m)

HistoryNext ==
  /\ Next
  /\ exported' = [d \in Devices |-> Export(d)]
  /\ undone' = [d \in Devices |-> {m \in Movies :
       /\ Deletion(m) \in pending'[d]
       /\ Crossed(d, m) \/ (m \in undone[d] /\ ~Deleted(d, m))}]

HistorySpec == HistoryInit /\ [][HistoryNext]_historyVars

(***************************************************************************)
(* Properties.                                                             *)
(***************************************************************************)

\* A reason why d may have another version of e than it pulled: an edit that
\* is to be pushed, a delete to be pushed, or a conflict for the user.
Excused(d, e) ==
  \/ e \in pending[d] \cup Unmarked(d) \cup slipped[d]
  \/ Deletion(e[2]) \in pending[d]
  \/ \E c \in conflicts[d] : c.entity = e

\* A pull misses nothing: of every row of the export that it is through with,
\* and of every row when it sets last_sync_at, the device has the exported
\* version or a newer one, unless something of its own is to be pushed or
\* resolved (service.go:162-200).
PulledIsKept ==
  \A d \in Devices, e \in Entities :
    exported[d][e] # NoRow /\ run[d].snap[e] = NoRow
      => local[d][e].upd >= exported[d][e].upd \/ Excused(d, e)

\* The device pulled row e as the server still has it, the server lost no later
\* version to a race, and nothing is to be pushed or resolved.
UpToDate(d, e) ==
  /\ exported[d][e] = server[e] /\ server[e] # NoRow /\ run[d].snap[e] = NoRow
  /\ \A t \in held[e] : t <= server[e].upd
  /\ ~Excused(d, e)

\* A device that is up to date has the server's version, so that any two
\* devices that are agree (service.go:162-200, sync_handlers.go:60-102).  This
\* needs ClocksAgree: else two edits may have the same updated_at.
QuietDevicesAgree ==
  \A d \in Devices, e \in Entities : UpToDate(d, e) => local[d][e] = server[e]

\* ... whatever the clocks, it has a version of the same updated_at.
QuietDevicesAgreeOnTime ==
  \A d \in Devices, e \in Entities : UpToDate(d, e) => local[d][e].upd = server[e].upd

\* A movie whose delete waits to be pushed is gone from the device, and no pull
\* brings it back, except one that was at its row when the delete was marked;
\* so that a push which deletes a movie does not also send it
\* (hybrid_client.go:116-125, service.go:163).
DeletedIsGone ==
  \A d \in Devices, m \in Movies :
    Deletion(m) \in pending[d] =>
      \/ local[d][Row(m)] = NoRow
      \/ ui[d].op = "delete" /\ ui[d].ent = Row(m)
      \/ m \in undone[d]

\* The versions of row e on device d: in its tables, in the export that it
\* applies, and in the conflicts recorded or about to be.
VersionsOn(d, e) ==
  {local[d][e], run[d].snap[e]}
  \cup (IF run[d].cur = e /\ run[d].step \in {"judge", "record"} THEN {run[d].seen} ELSE {})
  \cup UNION {{c.local, c.remote} : c \in {b \in conflicts[d] : b.entity = e}}

\* ... and those anywhere, also at the server, in its tables and in payloads.
Versions(e) ==
  {server[e]} \cup {imp[q].payload.rows[e] : q \in Requests} \cup UNION {VersionsOn(d, e) : d \in Devices}

\* Synchronisation invents nothing: a version that is new in the system is one
\* that a user's edit just wrote, with that device's time; pushes, imports,
\* pulls and resolutions copy updated_at and content together
\* (movie_repository.go:199-255, sync_repository.go:312-369).
NothingInvented ==
  [][\A e \in Entities : \A r \in Versions(e)' \ (Versions(e) \cup {NoRow}) :
       \E d \in Devices : /\ ui'[d] # ui[d] /\ ui'[d].op = "mark" /\ ui'[d].ent = e
                          /\ r = local'[d][e] /\ r.upd = Now(d) + 1]_vars

\* The clocks of all devices agree.
ClocksAgree == \A d, o \in Devices : Skew[d] = Skew[o]

\* An updated_at tells the versions of a row apart, and none is from the future,
\* so that last-write-wins has one winner (service.go:412-458).  This needs
\* ClocksAgree.
OneVersionPerTime ==
  \A e \in Entities : \A r, s \in Versions(e) \ {NoRow} :
    /\ r.upd = s.upd => r = s
    /\ \A d \in Devices : r.upd <= Now(d)

(***************************************************************************)
(* The inductive invariant behind these properties, on top of SystemInv.   *)
(***************************************************************************)

\* A row still to apply is as it was exported, and an idle cycle has none.
ExportKept(d) ==
  \A e \in Entities : run[d].snap[e] # NoRow =>
    run[d].pc # "idle" /\ exported[d][e] \in {NoRow, run[d].snap[e]}

\* The pull that is at the row of a movie has passed HasPendingDelete.
PassedDelete(d) ==
  \A m \in Movies : run[d].cur = Row(m) /\ Deletion(m) \in pending[d] => m \in undone[d]

\* Only movies that were created have versions and pending deletes.
OnlyBorn ==
  \A m \in Movies :
    (Versions(Row(m)) \ {NoRow} # {}) \/ (\E d \in Devices : Deletion(m) \in pending[d]) => m \in born

HistoryInv ==
  /\ HistoryTypeOK /\ SystemInv /\ PulledIsKept /\ DeletedIsGone /\ OnlyBorn
  /\ \A d \in Devices : ExportKept(d) /\ PassedDelete(d)
=============================================================================
