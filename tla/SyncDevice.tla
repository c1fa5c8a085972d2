----------------------------- MODULE SyncDevice -----------------------------
(***************************************************************************)
(* The devices: per device the local tables, sync_pending, the open rows   *)
(* of sync_conflicts and last_sync_at, the user's operations               *)
(* (sync/hybrid_client.go) and the push-then-pull cycle of Service.Run     *)
(* (sync/service.go).                                                      *)
(*                                                                         *)
(* The TUI performs the user's operations one at a time, in Update; Run is *)
(* a goroutine of its own, serialised by runMu.  Between any two of their  *)
(* SQL statements the other may run, and the process may die.  The actions *)
(* that exchange a request with the server are completed in SyncSystem.    *)
(***************************************************************************)
EXTENDS SyncData

CONSTANTS
  Devices,
  Skew     \* Skew[d]: how far the clock of device d is ahead

ASSUME DeviceAssumption == Skew \in [Devices -> Nat]

VARIABLES
  local,     \* local[d]: the tables movies and watch_entries
  pending,   \* pending[d]: sync_pending
  conflicts, \* conflicts[d]: the unresolved rows of sync_conflicts
  lastSync,  \* lastSync[d]: last_sync_at
  ui,        \* ui[d]: the user's operation in progress
  run,       \* run[d]: the sync cycle in progress
  born,      \* the movie ids created so far
  slipped    \* history: slipped[d], edits whose mark was missed or cleared too soon

deviceVars == <<local, pending, conflicts, lastSync, ui, run, born, slipped>>

\* last_sync_at of a device that has not synced
Never == 0

\* twin: recorded though another conflict on the entity was open.
Conflicts == [entity : Entities, local : Rows, remote : Rows, twin : BOOLEAN]

\* What remains to do of the user's operation: mark the row just written,
\* delete the row just marked, or mark and close the conflict just resolved.
NoOp == [op |-> "none", ent |-> None]
Operations == [op : {"mark", "delete"}, ent : Entities] \cup [op : {"resolve", "close"}, ent : Conflicts]

\* A cycle of Run: the marks its push clears, the request awaited, the rows of
\* the export still to apply, and the one being applied: the step to take next,
\* and the local row it goes by.
Runs ==
  [pc : {"idle", "wait", "export", "listed", "pull"}, clear : SUBSET Marks,
   req : Requests \cup {None}, snap : Tables, cur : Entities \cup {None},
   step : {"none", "read", "judge", "record", "compare", "write"}, seen : Rows \cup {NoRow}]

IdleRun ==
  [pc |-> "idle", clear |-> {}, req |-> None, snap |-> EmptyTable,
   cur |-> None, step |-> "none", seen |-> NoRow]

DeviceTypeOK ==
  /\ local \in [Devices -> Tables]
  /\ pending \in [Devices -> SUBSET Marks]
  /\ conflicts \in [Devices -> SUBSET Conflicts]
  /\ lastSync \in [Devices -> Nat]
  /\ ui \in [Devices -> Operations \cup {NoOp}]
  /\ run \in [Devices -> Runs]
  /\ born \in SUBSET Movies
  /\ slipped \in [Devices -> SUBSET Entities]

\* Mutant of Now: the time is read once, when the process starts.
StartTime(d) == Skew[d]

Now(d) == clock + Skew[d]

(***************************************************************************)
(* The user's operations.  Each is two writes: the row and its mark.       *)
(***************************************************************************)

\* The push that is out had row e, and its acknowledgement clears the mark.
WillClear(d, e) == run[d].pc = "wait" /\ e \in run[d].clear

\* The history notes an edit of such a row: its mark will be cleared although
\* the push did not contain it.
NoteLate(d, e) ==
  slipped' = [slipped EXCEPT ![d] = IF WillClear(d, e) THEN @ \cup {e} ELSE @]

\* The mark is set: the edit is safe, unless the mark will be cleared.
NoteMarked(d, e) ==
  slipped' = [slipped EXCEPT ![d] = IF WillClear(d, e) THEN @ ELSE @ \ {e}]

\* The row is written, stamped with the device's time; its mark comes next.
SaveRow(d, e, v) ==
  /\ clock < MaxTime
  /\ ui[d] = NoOp
  /\ clock' = clock + 1
  /\ local' = [local EXCEPT ![d][e] = [val |-> v, upd |-> Now(d) + 1]]
  /\ ui' = [ui EXCEPT ![d] = [op |-> "mark", ent |-> e]]
  /\ NoteLate(d, e)
  /\ UNCHANGED <<pending, conflicts, lastSync, run>>

CreateMovie(d, m, v) ==
  /\ m \notin born
  /\ SaveRow(d, Row(m), v)
  /\ born' = born \cup {m}

\* UpdateMovie of an existing row, SaveWatchEntry of an existing movie
SaveExisting(d, e, v) ==
  /\ local[d][Row(e[2])] # NoRow
  /\ SaveRow(d, e, v)
  /\ UNCHANGED born

\* MarkMoviePending, MarkWatchEntryPending
MarkSaved(d) ==
  /\ ui[d].op = "mark"
  /\ pending' = [pending EXCEPT ![d] = @ \cup {ui[d].ent}]
  /\ NoteMarked(d, ui[d].ent)
  /\ ui' = [ui EXCEPT ![d] = NoOp]
  /\ UNCHANGED <<clock, local, conflicts, lastSync, run, born>>

\* DeleteMovie marks first ...
MarkDelete(d, m) ==
  /\ clock < MaxTime
  /\ ui[d] = NoOp
  /\ local[d][Row(m)] # NoRow
  /\ pending' = [pending EXCEPT ![d] = @ \cup {Deletion(m)}]
  /\ ui' = [ui EXCEPT ![d] = [op |-> "delete", ent |-> Row(m)]]
  /\ clock' = clock + 1
  /\ UNCHANGED <<local, conflicts, lastSync, run, born, slipped>>

\* ... and then deletes the row.
DeleteRow(d) ==
  /\ ui[d].op = "delete"
  /\ local' = [local EXCEPT ![d] = Cascade(@, ui[d].ent[2])]
  /\ ui' = [ui EXCEPT ![d] = NoOp]
  /\ UNCHANGED <<clock, pending, conflicts, lastSync, run, born, slipped>>

\* ResolveConflict hands the chosen version to SyncUpsert.  It fails, and the
\* conflict stays open, when the watch entry's movie is gone (foreign key).
ResolveConflict(d, c, chosen) ==
  /\ ui[d] = NoOp
  /\ LET e == c.entity IN
     /\ Newer(chosen, local[d][e]) => local[d][Row(e[2])] # NoRow \/ e[1] = "movie"
     /\ local' = [local EXCEPT ![d][e] = IF Newer(chosen, @) THEN chosen ELSE @]
     /\ NoteLate(d, e)
  /\ ui' = [ui EXCEPT ![d] = [op |-> "resolve", ent |-> c]]
  /\ UNCHANGED <<clock, pending, conflicts, lastSync, run, born>>

MarkResolved(d) ==
  /\ ui[d].op = "resolve"
  /\ LET e == ui[d].ent.entity IN
     /\ pending' = [pending EXCEPT ![d] = @ \cup {e}]
     /\ NoteMarked(d, e)
  /\ ui' = [ui EXCEPT ![d].op = "close"]
  /\ UNCHANGED <<clock, local, conflicts, lastSync, run, born>>

CloseConflict(d) ==
  /\ ui[d].op = "close"
  /\ conflicts' = [conflicts EXCEPT ![d] = @ \ {ui[d].ent}]
  /\ ui' = [ui EXCEPT ![d] = NoOp]
  /\ UNCHANGED <<clock, local, pending, lastSync, run, born, slipped>>

\* The row written by the user's operation whose mark is still to come
Unmarked(d) ==
  {e \in Entities : \/ ui[d].op = "mark" /\ e = ui[d].ent
                    \/ ui[d].op = "resolve" /\ e = ui[d].ent.entity}

(***************************************************************************)
(* Run: push.                                                              *)
(***************************************************************************)

\* buildPushPayload: the rows with a mark that still exist.  Rows edited after
\* ListPending and before they are read are as if edited before it.
PushPayload(d) ==
  [rows |-> [e \in Entities |-> IF e \in pending[d] THEN local[d][e] ELSE NoRow],
   dels |-> {m \in Movies : Deletion(m) \in pending[d]}]

\* Mutant of Clearable: marks of deleted movies are not cleared either.
ClearableIfPresent(d) == {x \in pending[d] : x[1] # "delete" => local[d][x] # NoRow}

\* The marks the push will clear: those of movies and deletes (pushedIDs,
\* deletedIDs), but of the watch entries only those that exist.
Clearable(d) == {x \in pending[d] : x[1] = "watch_entry" => local[d][x] # NoRow}

\* Run builds the payload and sends it as request q.  What has a mark now is
\* in it, however it came about.
StartPush(d, q) ==
  /\ run[d].pc = "idle"
  /\ run' = [run EXCEPT ![d].pc = "wait", ![d].req = q, ![d].clear = Clearable(d)]
  /\ slipped' = [slipped EXCEPT ![d] = @ \ pending[d]]
  /\ UNCHANGED <<clock, local, pending, conflicts, lastSync, ui, born>>

\* The push p is acknowledged: ClearPending of the marks pushed, one by one; one
\* that fails is logged and the mark stays.  The history notes the watch
\* entries that were pushed without their movie.
ClearPushed(d, p, cleared) ==
  /\ run[d].pc = "wait"
  /\ pending' = [pending EXCEPT ![d] = @ \ cleared]
  /\ slipped' = [slipped EXCEPT ![d] = @ \cup
       {Entry(m) : m \in {n \in Movies : Entry(n) \in cleared /\ p.rows[Row(n)] = NoRow}}]
  /\ run' = [run EXCEPT ![d] = [IdleRun EXCEPT !.pc = "export"]]
  /\ UNCHANGED <<clock, local, conflicts, lastSync, ui, born>>

\* Mutant of RunFails: the marks are cleared although the push failed.
RunFailsCleared(d) ==
  /\ run[d].pc # "idle"
  /\ run' = [run EXCEPT ![d] = IdleRun]
  /\ pending' = [pending EXCEPT ![d] = @ \ run[d].clear]
  /\ UNCHANGED <<clock, local, conflicts, lastSync, ui, born, slipped>>

\* Any error ends the cycle, also a timeout or a lost response; WithRetry and
\* the next tick begin it anew, from the build.
RunFails(d) ==
  /\ run[d].pc # "idle"
  /\ run' = [run EXCEPT ![d] = IdleRun]
  /\ UNCHANGED <<clock, local, pending, conflicts, lastSync, ui, born, slipped>>

(***************************************************************************)
(* Run: pull.                                                              *)
(***************************************************************************)

\* The rows of the export of one kind are read; the export handler reads the
\* movies and then the entries of those movies, in two statements.
ReceiveMovies(d, table) ==
  /\ run[d].pc = "export"
  /\ run' = [run EXCEPT ![d].pc = "listed",
                        ![d].snap = [e \in Entities |-> IF e[1] = "movie" THEN table[e] ELSE NoRow]]
  /\ UNCHANGED <<clock, local, pending, conflicts, lastSync, ui, born, slipped>>

ReceiveEntries(d, table) ==
  /\ run[d].pc = "listed"
  /\ run' = [run EXCEPT ![d].pc = "pull",
                        ![d].snap = [e \in Entities |->
                          IF e[1] = "watch_entry" /\ @[Row(e[2])] # NoRow THEN table[e] ELSE @[e]]]
  /\ UNCHANGED <<clock, local, pending, conflicts, lastSync, ui, born, slipped>>

Pulling(d, step) == run[d].pc = "pull" /\ run[d].step = step

\* Mutant of ToApply: the watch entries of the export are not looked at.
MoviesToApply(d) == {e \in Entities : e[1] = "movie" /\ run[d].snap[e] # NoRow}

ToApply(d) == {e \in Entities : run[d].snap[e] # NoRow}

\* Through with row e of the export
Applied(d, e) ==
  [run EXCEPT ![d].snap[e] = NoRow, ![d].cur = None, ![d].step = "none", ![d].seen = NoRow]

\* Mutant of PullCheck: HasPendingDelete is not asked.
PullCheckAll(d) ==
  /\ Pulling(d, "none")
  /\ \E e \in Front(ToApply(d)) : run' = [run EXCEPT ![d].cur = e, ![d].step = "read"]
  /\ UNCHANGED <<clock, local, pending, conflicts, lastSync, ui, born, slipped>>

\* The next row of the export, skipped when HasPendingDelete
PullCheck(d) ==
  /\ Pulling(d, "none")
  /\ \E e \in Front(ToApply(d)) :
       run' = IF Deletion(e[2]) \in pending[d]
              THEN Applied(d, e)
              ELSE [run EXCEPT ![d].cur = e, ![d].step = "read"]
  /\ UNCHANGED <<clock, local, pending, conflicts, lastSync, ui, born, slipped>>

\* Mutant of HasOpenConflict: the check is missing.
NeverOpen(d, e) == FALSE

HasOpenConflict(d, e) == \E c \in conflicts[d] : c.entity = e

\* Mutant of Clash: the case of a missing local row is forgotten.
ClashWithMissing(mine, theirs) == ContentDiffers(mine, theirs)

\* Both versions exist and differ: moviesConflict, watchEntriesConflict
Clash(mine, theirs) == mine # NoRow /\ ContentDiffers(mine, theirs)

\* shouldRecordConflict: a pending edit, or both edited since the last sync
ShouldRecordConflict(d, e, mine, theirs) ==
  \/ e \in pending[d]
  \/ lastSync[d] # Never /\ mine.upd > lastSync[d] /\ theirs.upd > lastSync[d]

\* applyRemoteMovie, applyRemoteWatchEntry: a row with an open conflict is
\* skipped; else the local row is read.
PullRead(d) ==
  LET e == run[d].cur
      mine == local[d][e]
  IN /\ Pulling(d, "read")
     /\ run' = IF HasOpenConflict(d, e) THEN Applied(d, e)
               ELSE IF Clash(mine, run[d].snap[e])
                    THEN [run EXCEPT ![d].step = "judge", ![d].seen = mine]
                    ELSE [run EXCEPT ![d].step = "compare"]
     /\ UNCHANGED <<clock, local, pending, conflicts, lastSync, ui, born, slipped>>

Judge(d, record) ==
  /\ Pulling(d, "judge")
  /\ run' = IF record THEN [run EXCEPT ![d].step = "record"]
                      ELSE [run EXCEPT ![d].step = "compare", ![d].seen = NoRow]
  /\ UNCHANGED <<clock, local, pending, conflicts, lastSync, ui, born, slipped>>

\* HasPending is asked after the local row was read.
PullJudge(d) == Judge(d, ShouldRecordConflict(d, run[d].cur, run[d].seen, run[d].snap[run[d].cur]))

\* HasPending fails: there is no conflict then.
JudgeFails(d) == Judge(d, FALSE)

\* The SELECT of SyncUpsert reads the local row once more.
PullCompare(d) ==
  LET e == run[d].cur
      mine == local[d][e]
  IN /\ Pulling(d, "compare")
     /\ run' = IF Newer(run[d].snap[e], mine)
               THEN [run EXCEPT ![d].step = "write", ![d].seen = mine]
               ELSE Applied(d, e)
     /\ UNCHANGED <<clock, local, pending, conflicts, lastSync, ui, born, slipped>>

\* The INSERT or UPDATE of SyncUpsert, on the comparison made before
PullWrite(d) ==
  LET e == run[d].cur
  IN /\ Pulling(d, "write")
     /\ IF WriteFails(local[d], e, run[d].seen)
        THEN /\ run' = [run EXCEPT ![d] = IdleRun]
             /\ UNCHANGED local
        ELSE /\ run' = Applied(d, e)
             /\ local' = [local EXCEPT ![d][e] = run[d].snap[e]]
     /\ UNCHANGED <<clock, pending, conflicts, lastSync, ui, born, slipped>>

\* recordConflict, with the two versions compared before
PullRecord(d) ==
  LET e == run[d].cur
  IN /\ Pulling(d, "record")
     /\ conflicts' = [conflicts EXCEPT ![d] =
                        @ \cup {[entity |-> e, local |-> run[d].seen, remote |-> run[d].snap[e],
                                 twin |-> \E c \in conflicts[d] : c.entity = e]}]
     /\ run' = Applied(d, e)
     /\ UNCHANGED <<clock, local, pending, lastSync, ui, born, slipped>>

\* UpdateMetadata: everything was applied; last_sync_at is the time now.
FinishRun(d) ==
  /\ Pulling(d, "none")
  /\ ToApply(d) = {}
  /\ lastSync' = [lastSync EXCEPT ![d] = Now(d)]
  /\ run' = [run EXCEPT ![d] = IdleRun]
  /\ UNCHANGED <<clock, local, pending, conflicts, ui, born, slipped>>

\* The process dies: the database stays, a row it had yet to mark stays too.
Crash(d) ==
  /\ run[d] # IdleRun \/ ui[d] # NoOp
  /\ run' = [run EXCEPT ![d] = IdleRun]
  /\ ui' = [ui EXCEPT ![d] = NoOp]
  /\ slipped' = [slipped EXCEPT ![d] = @ \cup Unmarked(d)]
  /\ UNCHANGED <<clock, local, pending, conflicts, lastSync, born>>

UserStep(d) ==
  \/ \E m \in Movies, v \in Vals : CreateMovie(d, m, v)
  \/ \E e \in Entities, v \in Vals : SaveExisting(d, e, v)
  \/ \E m \in Movies : MarkDelete(d, m)
  \/ \E c \in conflicts[d] : \E chosen \in {c.local, c.remote} : ResolveConflict(d, c, chosen)

\* The rest of an operation begun
UserContinues(d) == MarkSaved(d) \/ DeleteRow(d) \/ MarkResolved(d) \/ CloseConflict(d)

PullStep(d) ==
  PullCheck(d) \/ PullRead(d) \/ PullJudge(d) \/ PullCompare(d) \/ PullWrite(d) \/ PullRecord(d) \/ FinishRun(d)
=============================================================================
