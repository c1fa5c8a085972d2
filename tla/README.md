# Movie tracker: a verification project

A TLA+ development of the movie tracker, an offline-first terminal client (`cmd/cli`) and its
API server (`cmd/server`). Every definition is translated from the Go source under `src/`; the file
`PROJECT.json` names for each the lines it stands for. Names and line numbers below refer to
`src/internal` unless they say otherwise.

The part with the most to get wrong is synchronisation: several devices edit the same
collection offline, push their edits row by row, pull the server's rows, and settle concurrent edits by
last-write-wins or by asking the user. Around it lie the interface that starts and shows it, the
session and accounts it runs for, the files the program lives on between two starts, and the backup of
its settings. The modules here cover these five.

## 1. The system

| Component | State | Operations | Talks to |
|---|---|---|---|
| Movie store (`repository/movie_repository.go`, `watch_entry_repository.go`), on devices and server alike | tables `movies`, `watch_entries` (`updated_at` on each; an entry refers to its movie, `ON DELETE CASCADE`) | `Create`, `Update`, `Upsert`, `Delete`, `SyncUpsert` (last-write-wins in a SELECT and an INSERT or UPDATE) | SQLite, one connection |
| Hybrid client (`sync/hybrid_client.go`) | - | create, update, rate, delete: write locally and mark in `sync_pending` | movie store, marks, sync bridge |
| Sync service (`sync/service.go`) | `sync_pending`, `sync_conflicts`, `sync_metadata` | `Run`: build the payload, push, clear marks, pull, record conflicts, set `last_sync_at`; `ResolveConflict` | server (POST and GET `/api/v1/sync`), movie store |
| Retry (`sync/retry.go`) | attempts, backoff | `WithRetry` around push and pull | sync service |
| Sync scheduling (`tui/sync.go`, `tui/conflicts.go`) | `syncSyncing`, status, counts, the tick chain | tick, bridge request, result | sync service |
| Import and export (`server/sync_handlers.go`) | the server's tables | `importData`, `export` | movie service |
| REST API (`server/movie_handlers.go`, `service/movie_service.go`) | the server's tables | create, update, rate, delete, list | movie store |
| Session and tokens (`client/session.go`, `app/cli.go`, `auth`) | tokens in memory and on disk | login, restore, refresh on 401, logout | server, sync service |
| User identity (`sync/service.go:54-81`, `SyncRepository.MigrateUserID`) | `user_id` of local rows, `user_id_migrated` | adoption of local rows by an account | sync service |
| Middleware (`server/middleware.go`) | a token bucket per address | JWT check, rate limit, purge of idle buckets | every request |
| Backup (`service/backup_service.go`, `tui/backup.go`) | `backups` | save and restore configuration and state | server |
| Configuration (`config`) | `config.json`, `state.json`, `session.json` | load, save, import, export, migration of an old directory | file system |
| TMDB (`tmdb`, `service/tmdb_search_service.go`, `repository/tmdb_cache_repository.go`) | cache | search through server or directly | external service |
| Statistics, search, exports (`stats_repository.go`, `export_service.go`) | - | queries | movie store |
| Migrations (`database`) | schema | goose | SQLite |
| Screens (`tui`) | the Bubble Tea model | keys, results of commands, rendering | everything |

How a change travels: the TUI calls the hybrid client, which writes the row and then its mark (for
a delete: the mark, then the row). A tick of 30 seconds, or a request over the bridge, starts `Run` in
a goroutine. `Run` sends the marked rows that exist and the ids of deleted movies; the server imports
deletes, movies and watch entries in this order, statement by statement, with no transaction. On a 200
the client clears the marks, fetches the export and goes through it: it skips movies with a
pending delete and rows with an open conflict, records a conflict where both versions were edited, and applies
the rest by last-write-wins. At the end it sets `last_sync_at`.

What is hard: the user's operations and `Run` interleave between any two SQL statements; several
requests run on the server at once, and one whose client gave up goes on; a cycle may fail, and the process
may die, after any statement; `last_sync_at`, marks and timestamps of different clocks decide together
whether a version is lost. Commands of the interface (a login, a search, a backup, a cycle) run in goroutines of their
own and answer when the user may be elsewhere, logged out, or somebody else. `PROJECT.json` lists the
39 hazards found in this code, each at its line, with the properties that watch it or the reason why none does.

What makes each component correct:

- *Store and import*: referential integrity on both sides; a success means that the rows were received; an older
  version replaces a newer one never, or only by a named race.
- *Sync service and hybrid client*: no edit is forgotten; marks drain; devices that rest converge.
- *Conflicts*: at most one open per row; an open conflict shields its row; the user's choice is applied.
- *Scheduling and retry*: a cycle is always due while online; two cycles do not work at once; timers do not multiply;
  the footer tells the truth and does not say "syncing" for ever.
- *Session, identity*: the copies of the session belong to who logged in; rows of one account are not pushed as another's.
- *Files*: the next start works and finds the user's last choices, whatever was migrated, saved or exported before.
- *Backup*: what was reported as stored is stored.
- *Screens*: a screen that waits waits for something; late results do not mix into other data; a copy of an entry never
  overwrites a newer one.

## 2. The modules

| Module | What it models | Code |
|---|---|---|
| `SyncData` | rows, tables, marks, payloads, `Newer` (last-write-wins), `Cascade`, `WriteFails`, the import order | `domain/models.go`, `transport/syncdto`, `repository`, `sync/conflict.go` |
| `SyncServer` | the import handlers and the REST handlers on the server's tables | `server/sync_handlers.go`, `server/movie_handlers.go`, `service/movie_service.go` |
| `SyncDevice` | local tables, marks, conflicts, the user's operations, the cycle of `Run` | `sync/hybrid_client.go`, `sync/service.go`, `repository/sync_repository.go` |
| `SyncSystem` | devices and server composed: requests, responses, faults, fairness, the properties | `client/sync_client.go`, `tui/sync.go`, `sync/retry.go` |
| `SyncHistory` | `SyncSystem` with what each device pulled last and which deletes were cut off or crossed; the properties about them | as `SyncSystem` |
| `SerialWork` | the abstract promise of `Run`: jobs wait, work one at a time, leave | the comment at `sync/service.go:84` |
| `TuiSync` | what starts cycles and what their results do; implements `SerialWork` | `tui/sync.go`, `tui/conflicts.go`, `sync/retry.go`, parts of `tui/model.go` |
| `Sessions` | the three copies of the session, the server's tokens, login, restore, refresh | `app/cli.go`, `client/session.go`, `service/auth_service.go` |
| `Accounts` | the owner of each movie over logins, cycles and the migration of the local user id; extends `Sessions` | `sync/service.go`, `service/movie_service.go`, `server/sync_handlers.go` |
| `AppFiles` | the three files, their in-place writes, the start, the handlers that save | `config/config.go`, `config/migrate.go`, `app/cli.go`, `tui` |
| `Backups` | the backup row and the requests on it | `repository/backup_repository.go`, `server/backup_handlers.go`, `client/backup_client.go` |
| `TuiScreens` | keys and late results on each screen; extends `Backups` | `tui/model.go`, `tui/tmdb.go`, `tui/backup.go` |
| `MCSyncServer`, `MCSyncSystem`, `MCSyncHistory`, `MCAccounts` | instances for TLC (the others need only a configuration) | - |
| `SyncDataProofs`, `SyncServerProofs`, `SyncSystemProofs`, `SyncHistoryProofs`, `TuiSyncProofs`, `AccountsProofs`, `AppFilesProofs`, `TuiScreensProofs` | the proofs | - |

How they compose: `SyncSystem` is `SyncServer` and `SyncDevice` on the data of `SyncData`. Each of the other models
takes one concern of the client and abstracts the rest: for `TuiSync` a cycle is attempts that succeed or fail and
may record conflicts, for `Accounts` a movie is the account it belongs to, for `TuiScreens` an entry is how fresh the copy
of it is. They meet in the same functions (`Run`, `handleAuthResult`, `logout`), of which each models what its state
sees.

### State and actions

*Server.* `server` is the tables; `imp[q]` the handler of request slot `q`: its payload, what it has
still to process (`todo`), and the write outstanding since its SELECT (`cur`, `seen`).

| Action | Code |
|---|---|
| `Arrive` | the request is decoded (`sync_handlers.go:44-54`) |
| `Lookup` | the SELECT about the next item: `GetMovie` before a delete, that of `SyncUpsert` before a row; an entry whose movie is not in this payload is skipped (`:88`) |
| `WriteDelete`, `WriteRow` | the DELETE, INSERT or UPDATE. It fails when the row vanished or appeared meanwhile, or when the movie is gone (foreign key); then the handler answers an error and what was written stays |
| `Abort` | a statement fails, or the request context is cancelled |
| `Release` | the response |
| `RestCreate`, `RestSave`, `RestDelete` | the REST handlers |

*Device.* `local`, `pending`, `conflicts`, `lastSync` are the tables; `ui[d]` is the rest of the user's
operation in progress, `run[d]` the cycle in progress.

| Action | Code |
|---|---|
| `CreateMovie`, `SaveExisting`, `MarkSaved` | `HybridClient.CreateMovie`, `UpdateMovie`, `SaveWatchEntry`: row, then mark |
| `MarkDelete`, `DeleteRow` | `HybridClient.DeleteMovie`: mark, then row |
| `ResolveConflict`, `MarkResolved`, `CloseConflict` | `SyncRepository.ResolveConflict`: last-write-wins of the chosen version, mark, close |
| `StartPush` (with `Arrive`: `RequestPush`) | `buildPushPayload` and the POST |
| `ReceiveAck` (`ClearPushed`), `ReceiveError` | the response of the push; `ClearPending` of each mark, of which any may fail |
| `PullMovies`, `PullEntries` | the two SELECTs of the export |
| `PullCheck` | the next row; skipped under a pending delete |
| `PullRead`, `PullJudge`, `PullRecord` | `applyRemoteMovie`, `applyRemoteWatchEntry`: open conflict? versions differ? pending, or both newer than `last_sync_at` (if there is one, `Never` before the first sync)? record |
| `JudgeFails` | the query of the marks fails, which `shouldRecordConflict` takes for no conflict (`sync/service.go:467-470`); the cycle goes on |
| `PullCompare`, `PullWrite` | `SyncUpsert` |
| `FinishRun` | `UpdateMetadata` |
| `RunFails`, `Crash` | any error of the cycle; the end of the process |

*Interface and cycles (`TuiSync`).* A goroutine of `syncCmd` is `cycle[c]`: waiting for `runMu`, trying, sleeping, or
with a result on its way. `ticks` and `requests` are timers and bridge messages under way.

| Action | Code |
|---|---|
| `Tick`, `Request`, `PressSync` | `syncTickMsg`, `SyncRequestMsg`, the key S: all through `startSync` |
| `HandleSyncResult` | status, counts, the next timer if the session is online |
| `TakeLock`, `AttemptSucceeds`, `AttemptFails`, `EndSleep` | `Run` and `WithRetry` |
| `RecordConflict` | a conflict recorded by the attempt |
| `HandleAuthResult`, `Edit`, `ToggleOffline`, `Logout` | the session, and what a local edit asks for |
| `OpenConflicts`, `SelectConflict`, `LeaveConflicts`, `ResolveSelected` | the screen of conflicts; a resolution starts a cycle past `startSync`. `refreshConflicts` and `CountConflicts` are its two reads, each of which may fail and then keeps what was there |
| `Restart` | the program ends and starts again |

*Session and accounts (`Sessions`, `Accounts`).* `memory`, `runtime` and `stored` are the session as the interface, the sync
service and `session.json` have it; a token pair is a number, `issued` says whose. `owner` and `remote` are the `user_id`
of a movie's row on the device and on the server, `edited` and `deleted` its marks.

| Action | Code |
|---|---|
| `LogIn`, `HandleAuthResult`, `LogOut`, `Boot` | login and registration, their result, logout, restore at the start (access token, refresh token, failure, offline) |
| `StartRun`, `BuildPush`, `Import`, `ClearMarks`, `Pull`, `Migrate`, `UpdateMetadata`, `AttemptFails` | `Run`; `Import` refuses a foreign row after storing some others; `Pull` may end with an error after any of its rows, and is tried again |
| `RefreshTokens`, `OnTokens` | `refreshAccess` on the first 401 of a request, and the callback: read, keep, save |
| `Create`, `Edit`, `Delete`, `CreateElsewhere` | the user, here and on another device |

*Files (`AppFiles`).* `todo` are the calls of package `config` that the handler has yet to make, `stage` how far the first of them
is in the migration that each begins with. A file has a content, is `Absent`, or is `Torn`: it does not parse.

| Action | Code |
|---|---|
| `Step` | the next read and write: a stage of `migrateLegacyYAML`, which converts the YAML of an older release (`Converted`), or the call's own file |
| `WriteFails`, `DirFails` | `writeJSON` returns an error; `Dir` does, because it cannot make the directory, or cannot read or parse a legacy file. The error is logged, ends the handler, or ends the start |
| `Boot`, `ReadConfig`, `ReadRest` | `RunCLI`; a file that is `Torn` or cannot be read ends the start (`LoadFails`) |
| `HandleAuthResult`, `Logout`, `ToggleOffline`, `ChangeTheme`, `SaveSettings`, `ApplyBackup`, `ExportLocal`, `PersistState` | the handlers of the interface that save |
| `StartRun`, `OnTokens`, `EndRun` | a cycle, and the callback that writes `session.json` when it has refreshed its tokens, between any two calls of the interface |
| `Stop` | the process is left or killed, in the middle of a write if there is one |

A session of an older release has its keys spelled in one of two ways (`LegacySessions`): as `yaml.v3` spells the names of a struct
without tags, or in snake case as `config.yaml` has them. `readLegacySession` reads only the first.

*Screens (`Backups`, `TuiScreens`).* `route` and the flags are those of the model. Keys are actions named as their handlers;
`handleAuthResult`, `handleTMDBSearchResult`, `handleBackupResult` take the result of any command in flight.
`ImportSnapshot`, `ExportSnapshot`, `Refuse`, `GiveUp`, `LateImport`, `ImportByOther` are the server's side of a backup and what may go
wrong with a request.

### Abstractions

- A row is its content (the fields the conflict check compares, as one value) and `updated_at`.
- One SQL statement is one step (`MaxOpenConns(1)`). A sequence of reads that nothing else depends on is
  joined to the step that uses it: `buildPushPayload` is one step with the ListPending, since an edit
  between the two is as if made before; its late edits are those of the next step. `ResolveConflict`
  reads and writes the chosen version in one step: no other step writes the row while its conflict is open
  (`ConflictShieldsRow`) and the user's operations do not overlap.
- The REST handlers are one statement each; their existence check and their write are joined.
- The GET of the export and its answer are one exchange: a lost one is a `RunFails`.
- Time is the number of edits and deletes so far, so that every edit has a later timestamp than those before it;
  `Skew[d]` says how far a device's clock is ahead. The runs have no skew; the theorems
  hold for any, except `OneVersionPerTime` and `QuietDevicesAgree`, whose theorems name `ClocksAgree` (section 4).
- One account in `SyncSystem`. The first push of an account (which adds all rows and stamps their user id), the refresh of
  tokens and rows the server rejects as another account's are in `Accounts`; rows it rejects by validation are left out,
  since the client validates by the same rules before it stores them.
- The user may be slow: between the two writes of an operation any number of other steps may occur.

- `TuiSync`: the content of a cycle is left to `SyncDevice`; what remains is whether it succeeds and which conflicts are
  open. Of the model's `conflictCount` only `hasConflicts` is kept, and the statuses that no condition tells apart are one (`quiet`). Which errors are retryable, and the backoff and deadlines as times, are choices.
- `Accounts`: whether a remote row is newer is a choice, since the timestamps are those of `SyncDevice`. A movie
  once deleted may come back by a pull, which is why deletes keep no history here.
- `AppFiles`: the configuration's theme and server URL are one value, the interface's state another, a session the account it is of.
  Left out: two processes that run at once; the TMDB key, which no handler sets and which the first save of the interface drops from
  `config.json` (`app/cli.go:230`), so that there is nothing to keep; whether the archive of the legacy directory exists already, which is one of the
  reasons why `Archive` may leave the directory in place. Which accounts a failed restore ends is in `Sessions`.
- `TuiScreens`: the data are one watched movie's entry, of which a copy is current, stale or unread. Rows pulled by a cycle
  under an open detail are left out: that save overwrites them as any edit does. Another client that writes the backup stores the
  defaults. The focus of text fields is abstracted: a key typed into one changes nothing here. A left detail forgets its
  movie in the model (`LeaveDetail`), because every way back selects one.

History variables, which no guard of the code reads: `held` (versions the server ever had), `slipped` (see
`NoEditForgotten`), `twin` in a conflict (another one was open). `born` makes the ids fresh. `SyncHistory` adds two:
`exported[d]`, the export that device `d` took last, without the rows that a delete of its user or the end of a conflict
withdrew; and `undone[d]`, the movies whose delete waits to be pushed though it was cut off between its two writes, was marked while the
pull was at that movie's row, or was taken back by a resolution. `HistoryNext` is `Next` with their next values, so that it restricts
no step.

## 3. What is checked

| Run | Instance | Shows |
|---|---|---|
| `server_import` | 1 movie, 2 contents, 2 requests, 3 edits | `EntryHasMovie`, `DoneMeansReceived`, `OlderNeedsRace`, `ImportsMerge`, `RetriesAreHarmless`: two imports and the REST handlers interleave |
| `one_device` | 1 device, 2 requests, all faults, the movie seeded, no rating yet | `NoEditForgotten`, `LocalEntryHasMovie`, `OneOpenConflict`, `PullOlderNeedsRace` |
| `two_devices` | 2 devices, 1 request, no faults | `PulledIsKept`, `DeletedIsGone`, `OneVersionPerTime`, `NothingInvented`, `QuietDevicesAgree`, `ConflictShieldsRow`: real concurrent edits, deletes, conflicts and resolutions |
| `fair` | 2 devices, nothing seeded, fairness | `Convergence`, `MarksDrain` |
| `tui_sync` | 2 goroutines, 2 attempts, 2 conflicts, 1 trigger, fairness | `OverlapBound`, `TickAccount`, `AutoSyncEndsOffline`, `SelectionIsOpen`, `SyncingEnds`, `AutoSyncGoesOn`, and that `TuiSync` implements `SerialWork` (`RunsAreSerial`) |
| `accounts` | 2 accounts, 1 movie, 3 pairs of tokens | `SessionsBelong`, `CleanSwitchIsSafe`, `LocalRowsAreStray`: logins, logouts, restarts and a cycle interleave at every step |
| `app_files` | 1 account, 2 device ids, every mix of new and legacy files, damaged ones included | `FailsOnlyAfterCut`, `ChoicesSurvive`, `ConfigIsPersistent` over any number of starts, with any read or write failing |
| `tui_screens` | 2 logins and 2 snapshots in flight | `SpinnersAreHonest`, `FormDataIsFresh`, `OwnEntryKept`, `AckedBackupIsStored` |
| `edits`, `silent`, `choice`, `device_id` | as small as shows it (`device_id`: as `app_files`) | a violation each, see below |

*Bounds.* One movie: no step of the code relates rows of two movies, except the order of the import, and
a movie with its entry already shows the order and the foreign key; the contents of different movies do not
interact. Three edits: two concurrent ones and one that comes late, which is what every race here takes.
Two request slots: one for a request that outlives its client, one for the next. Two contents: a conflict
needs a difference; the run with liveness needs none. Devices: two are the fewest that can disagree.
A push in `SyncServer` alone is about one movie and carries one content. Every bound on the number of edits is `MaxTime`, in
`SaveRow`, `MarkDelete` and `Tick`; seeded rows were written at time 1, so that two edits are left where the movie is seeded.
`two_devices` has one more, the constraint `OneAtATime`: a device goes through its export, or is between the writes of a user's operation,
while the other does neither. Those steps read and write the tables of one device, so that the ones of two devices commute but for the clock;
pushes, imports and the two SELECTs of the export interleave freely. The theorems have no such bound. The server alone stops when its clock does, hence `CHECK_DEADLOCK FALSE`
in that run only.

`tui_sync`: two goroutines are the fewest of which one waits; a third would wait like the second (the theorems are for any
number). Two attempts: one that is retried, one that is the last. Two conflicts: a resolution that leaves one and one that leaves none.
`MaxTriggers` bounds the keys, edits and logins that start a cycle between two starts of the program; a restart gives
them anew. `accounts`: two accounts are what a switch needs; three pairs are a login, the login of the other, and a refresh in
between or after. One movie: rows meet only in that a refused one stops the others of its payload, and a refusal is what
`CleanSwitchIsSafe` excludes. That a cycle crosses a second session takes five pairs, with which the run would be some millions of
states larger; the attempt to prove `SessionsBelong` for any number of pairs showed the case, and the theorem covers it. `app_files`: no step looks at which account or theme it saves; two device ids show that a second one is
made. `tui_screens`: two logins in flight are what goes wrong with one; two snapshots are an acknowledged one and a late one.

*Fairness of `TuiSync`.* Timers fire and messages are delivered (`Tick`, `Request`, `HandleSyncResult`); `RunStep` because every
attempt has a timeout and the cycle a deadline (`tui/sync.go:86-99`), so that it ends by itself. A waiting goroutine needs only weak
fairness: while the lock is taken the one that holds it must move. No key and no login is fair, and neither is `Restart`.

*Fairness of `SyncSystem`* (`FairSpec`). `UserContinues`: an operation begun is a function that runs to its end. `RunStep`: `Run` is
a goroutine that goes on, and a result schedules the next tick (`tui/sync.go:110-128`). `ServerStep`,
`LoseResponse`: the server handles what it accepted. `RequestPush` is strongly fair because the request
slots are a bound of the model, for which devices compete; the real server accepts all. Nothing makes the user
edit or resolve. The run has no faults: a cycle that fails for ever never converges.

*Exceptions the properties name.* They are facts of the code, and each is as narrow as TLC allows:

- `NoEditForgotten` excepts `slipped`: an edit whose process died between row and mark; an edit of a row that is in
  the push that is out, whose mark the acknowledgement clears (`WillClear`); a watch entry acknowledged though its movie was not in
  the payload. The last two are the findings of the run `edits`.
- `OlderNeedsRace` and `PullOlderNeedsRace`: `SyncUpsert` reads and writes in two statements, and a row that
  changes in between is overwritten by an older one. The first asks this of the handler that writes.
- `PulledIsKept` excepts rows the device is `Excused` for: an edit, a delete or a conflict of its own is open on them. Once the user
  deletes the row or closes its conflict, the exported version may be missing until the next cycle.
- `DeletedIsGone` excepts `undone` (above). A movie that came back so stays on the device when the push deletes it on the server.
- `QuietDevicesAgree` speaks of rows that are `UpToDate`: exported as the server still has them, nothing open on them, and the server has not
  replaced a later version by an older one (the race of `OlderNeedsRace`). It and `OneVersionPerTime` suppose clocks that agree.
- `ImportsMerge` and `RetriesAreHarmless` except the write of a row that changed since its SELECT (the same race), and `ImportsMerge` a step that
  fails, after which there is no result to speak of.
- `MarksDrain` excepts the mark of a watch entry whose row was deleted: it is neither pushed nor cleared.
- `Convergence` speaks of the rows the server has: the export has no tombstones, and a movie deleted elsewhere stays.
- `SessionsBelong` excepts `crossed`: the tokens of a refresh were kept over a login or a logout that came in during the cycle.
  The next login or logout repairs the copies, unless a cycle that began in between, with the name of one account and the
  tokens of another, refreshes those again and puts them into the new session.
- `CleanSwitchIsSafe` is about `clean` switches only: with pending changes of another account, or a cycle under way, pushes are
  refused from then on, or rows go to the wrong account.
- `LocalRowsAreStray` excepts `stray`: movies created logged out after the migration are adopted by nobody.
- `AutoSyncEndsOffline`, `AutoSyncGoesOn` except `lapsed`: after a tick or a result that found the session offline no timer is left, and
  going online again sets none; S, an edit, a login or a restart does.
- `OverlapBound`, `TickAccount` count `bypasses`: resolutions start cycles and timer chains of their own.
- `SelectionIsOpen` excepts `unread`: conflicts resolved since a re-read of the list failed. The screen then stays open, if the count is not 0
  or cannot be read either, and goes on to offer a conflict that is resolved; enter on it is an error, which changes nothing.
- `FailsOnlyAfterCut` excepts `cut`, a handler's write cut short, failed or not made, and a `Torn` legacy file that has still to be migrated: it bars
  every start until it is repaired or removed. A start that finds a file out of reach (`unreadable`) is not a failed one.
- `ChoicesSurvive` excepts `cut`; for the session also `stuck`, a legacy directory that could not be archived and gives its session back
  after a logout, and `late`, a cycle that refreshed its tokens after the user left its session and wrote that session's file again.
- `ConfigIsPersistent` excepts `cut` and `exported`; without the second it is `DeviceIdIsPersistent`, which the run `device_id` refutes.
- `FormDataIsFresh` excepts `abandoned`: the result of a login takes the screen, also in the middle of a search, and the
  form that is opened next may be offered that search's results.
- `AckedBackupIsStored` excepts `disturbed`: another client, or a PUT given up whose fate is unknown.

### Findings

| Run | The text | The code |
|---|---|---|
| `edits` | "MarkWatchEntryPending records a local watch entry mutation for the next push" (`sync/service.go:370`) | a rating pushed without its movie is skipped by the server, acknowledged, and its mark cleared |
| `edits` | "MarkMoviePending records a local movie mutation for the next push" (`:365`) | an edit during a push of the same movie loses its mark to the acknowledgement of the version before |
| `silent` | "re-sync sans perte silencieuse" (`docs/E2E.md:287`) | an edit made during a cycle is older than the `last_sync_at` that the cycle sets; the next cycle may overwrite it without a conflict |
| `choice` | "ResolveConflict applies the chosen version for a conflict" (`:257`) | the chosen version goes through last-write-wins and is dropped when the local row is newer |
| `device_id` | "Chaque appareil reçoit un `device_id` persistant dans `config.json`" (`src/README.md:94`) | a local export writes `config.json` without it (`tui/backup.go:56`), and the next start makes a new one |
| `app_files` | "Migration automatique depuis l'ancien `~/.movietracker/*.yaml` au premier lancement" (`src/README.md:73`) | a `session.yaml` with snake-case keys, spelled like those of `config.yaml`, is migrated to an empty session, since `Session` has json tags only (`config/config.go:39-44`, `config/migrate.go:87`); `ChoicesSurvive` holds of what the migration could read |
| `tui_sync` | "sync automatique (toutes les 30 s)" (`src/README.md:80`) | after a tick or a result that found the session offline no timer is left, and going online again sets none (`tui/sync.go:72, 82`); `AutoSyncEndsOffline` and `AutoSyncGoesOn` hold up to `lapsed` |

The property of `edits` forbids both losses; TLC reports the shorter, that of the rating. The last two rows are no violations: the model has the code's behaviour, and the
properties name it.

Met while modelling, and stated by no text of the repository that a run could refute; the exceptions above cover them:

- A network error while the session is restored ends it (`app/cli.go`, `RestoreFails`): an online start without a network logs the user out.
- The TMDB key is dropped from `config.json` by any save of the interface (`app/cli.go:230`).
- A file that was cut in a write, or a legacy file that does not parse, bars every later start until it is removed by hand.
- A cycle that refreshes its tokens after a logout writes `session.json` again: the next start is logged in.
- After a resolution whose re-read of the list failed, the screen may go on to offer the resolved conflict.
- Importing the backup of an account that has none applies the defaults, offline mode included.
- A cycle begun while the session is crossed outlives the login that repairs it, and crosses the new session as well.
- A pending row of one account makes the server refuse every payload of the next, from the first foreign row on.
- Two logins in flight: the later result wins, also after a logout in between. Its arrival takes the screen from
  wherever the user is.
- In the search field of the list, ctrl+c is a letter.
- An entry whose read fails is shown empty, and a save of that screen overwrites it.

- A delete is marked before the row goes. A push built in between carries an edited movie and its deletion; the server deletes first, then
  stores the row again, and the next pull brings the movie back.
- A crash between the two writes of a delete leaves a movie on the device that the next push deletes from the server: a row of this device only.
- Resolving a conflict of a movie that was deleted meanwhile inserts it again, beside the delete that waits to be pushed.
- A conflict that is closed while the pull has passed its row leaves the exported version out until the next cycle.

Every property of a passing run has a mutant: a plausible bug (defined beside the operator it changes)
that makes TLC report the property violated.

## 4. What is proved

TLAPS proves the safety properties of the runs for all values of the constants: any set of
movies, contents, devices and request slots, any bound `MaxTime`, any skew, any faults, any seed. The
assumptions are `DataAssumption` (`None` is none of the values), `DeviceAssumption` (skews are naturals)
and `SeedAssumption` (a seeded entry comes with its movie); for the interface `TuiSyncAssumption`, `BackupsAssumption` and
`TuiScreensAssumption` (the bounds are naturals, the set of goroutines is finite, `None` is none of the values); for the
session and the accounts `SessionsAssumption` and `AccountsAssumption` (`None` and `Local` are no accounts), for the files
`AppFilesAssumption` (what marks an absent or a torn file is no content, the default preferences are preferences and the empty URL is not).

| Theorem | Property |
|---|---|
| `ServerTypeCorrect`, `EntriesHaveMovies`, `DoneIsReceived`, `ImportsApplyNewer`, `ImportsAreMerges`, `ImportsMayBeRetried` | `ServerTypeOK`, `EntryHasMovie`, `DoneMeansReceived`, `OlderNeedsRace`, `ImportsMerge`, `RetriesAreHarmless` |
| `PushesAreMerged`, `PushesApplyNewer` (of `SyncSystem`) | `ImportsMerge` and `RetriesAreHarmless`, `OlderNeedsRace` |
| `ImportTwice`, `ImportsCommute` (of the operator `Imported`) | - |
| `TypeCorrect`, `EditsAreNotForgotten`, `LocalEntriesHaveMovies`, `ConflictsAreUnique`, `ConflictsShieldRows`, `PullsApplyNewer` | `TypeOK`, `NoEditForgotten`, `LocalEntryHasMovie`, `OneOpenConflict`, `ConflictShieldsRow`, `PullOlderNeedsRace` |
| `HistoryTypeCorrect`, `PullsMissNothing`, `DeletedMoviesAreGone`, `VersionsAreSaved` | `HistoryTypeOK`, `PulledIsKept`, `DeletedIsGone`, `NothingInvented` |
| `UpToDateDevicesAgreeOnTime`; if `ClocksAgree`: `TimesTellVersionsApart`, `UpToDateDevicesAgree` | `QuietDevicesAgreeOnTime`; `OneVersionPerTime`, `QuietDevicesAgree` |
| `TuiSyncTypeCorrect`, `OverlapTheorem`, `TickTheorem`, `AutoSyncTheorem`, `SelectionTheorem` | `TuiSyncTypeOK`, `OverlapBound`, `TickAccount`, `AutoSyncEndsOffline`, `SelectionIsOpen` |
| `SerialTheorem` | `RunsAreSerial`, the refinement of `SerialWork` |
| `AccountsTypeCorrect`, `SessionsTheorem`, `SwitchTheorem`, `StrayTheorem` | `AccountsTypeOK`, `SessionsBelong`, `CleanSwitchIsSafe`, `LocalRowsAreStray` |
| `AppFilesTypeCorrect`, `StartTheorem`, `ChoicesTheorem`, `ConfigTheorem` | `AppFilesTypeOK`, `FailsOnlyAfterCut`, `ChoicesSurvive`, `ConfigIsPersistent` |
| `ScreensTypeCorrect`, `SpinnersTheorem`, `FormDataTheorem`, `OwnEntryTheorem`, `AckedTheorem` | `TuiScreensTypeOK`, `SpinnersAreHonest`, `FormDataIsFresh`, `OwnEntryKept`, `AckedBackupIsStored` |

*The server.* `DoneMeansReceived` alone is not inductive: it says nothing of a handler half way. `ServerInv` adds
`HandledReceived` (what a handler is through with was received), `HandlersSound` (it works on its payload and
finishes a write before the next item) and `RowsReceived` (the history knows the present rows, so that a row
skipped as not newer is received). That an entry is looked at only after its movie (`FrontFacts`) makes `Synced`
true of every entry whose movie was sent. `OlderNeedsRace` needs `Compared` (an outstanding write is newer than
what its SELECT read; in an order that leaves no earlier item) and `InThePast` (a REST handler's stamp is newer than any row), which hold without skew. There is a lemma
per step of a handler (`KeepsLookup`, ...), used for the server alone and for the system.

*An import as a whole.* `Imported(table, payload, todo)` is what a payload promises: deletes with their entries, then every row that is
newer, entries only along with their movie. `ImportsMerge` says that each statement of a handler does its part of it: what
the remaining items will make of the tables is the same before and after the step, and at the end, with nothing left to do, it is the tables.
The proof goes row by row (`SameImport`): a skipped item changes nothing because of the foreign key or because `Newer` fails, and
`Compared` says that nothing earlier is left when a row is written. With all items in place of the remaining ones the same steps give
`RetriesAreHarmless`. The operator itself is idempotent for every table and payload (`ImportTwice`), and payloads without deletes commute if
times tell versions apart (`ImportsCommute`; with deletes they do not: a row older than the delete comes back or not by the order). In `SyncSystem`
all this needs no bound on the clocks, since only a REST handler's own stamp could be late (`PushesAreMerged`, `PushesApplyNewer`).

*The system.* `SystemInv` adds three things. `PullSound` carries what a pull has established to the
step that relies on it: the step `write` has a newer row, `record` two versions, and from `judge` on no
conflict is open, which only the pull itself could change. `ExportReceived`: an export has only what the server held,
so that applying it leaves nothing unreceived. `Awaits`: a waiting device has a request of its own, and each row whose
mark the response will clear is the one that was sent, is gone, or slipped; with `DoneMeansReceived` this gives
`NoEditForgotten` across an acknowledgement. A lemma per action shows the invariant of the device that moves,
and `DeviceStepKeeps` once for all actions that of the others.

*Pulls and deletes.* `HistoryInv` is `SystemInv` with `PulledIsKept`, `DeletedIsGone` and what they rest on. `ExportKept`: a row still
to apply is as it was exported, so that applying it discharges `exported`. `PassedDelete`: a pull that is at the row of a movie with a
pending delete is past `HasPendingDelete`, hence known to `undone`; no other pull can bring the movie back. `OnlyBorn`: only created ids
have versions, so that a new movie is under no pending delete. The step `compare` that finds the export not newer is where
`PulledIsKept` gets its local row, `record` where it gets its conflict. The proof goes device by device: a lemma per action for the device that
moves, `DeviceHistory` for the others, of which nothing in these properties changes.

*Versions.* For `NothingInvented` each action is shown to move versions only from one place to another (table, payload, export, pull in
progress, conflict), except the row that `SaveRow` writes. With clocks that agree this row is later than every other version,
which keeps `OneVersionPerTime`. The hypothesis `ClocksAgree` is what the code needs, not the prover: with other clocks two devices may
write the same `updated_at`, and as neither version is newer, each side keeps its own for good. What holds for any clocks is
`QuietDevicesAgreeOnTime`: by `PulledIsKept` the local row is at least as new as the server's, by `NoEditForgotten` the server has held one
at least as new as the local row, and unless it lost that to a race the two times are equal. `QuietDevicesAgree` follows from both.
This is the safety half of convergence for any number of devices; that devices do become quiet is `Convergence`, checked by TLC.

*Interface and cycles.* `TuiSyncInv` joins the five invariants, because they need each other (a tick that starts nothing leaves a
cycle or a lapse behind by `OverlapBound`), with `OneRuns`: at most one goroutine holds `runMu`. Every step is for
the goroutines one of six kinds (`Starts`, `Begins`, `TurnsAway`, `GoesOn`, `Leaves`, `Delivers`) or a restart; lemmas about the kinds
say how they change the sets `Busy`, `Waiting` and `Running` and their cardinalities, and serve the invariant and the refinement alike: each
kind is a step of `SerialWork` or a stutter.

*Accounts.* `AccountsInv` has three parts. `TypesPart` adds to the session that every pair in use was issued, so that no later
login changes whose it is. `CleanPart`, as long as switches are clean: the cycle works for the account that is logged in and with that
account's tokens (`CycleInv`), and every movie that is pending or in the cycle's payload is made, owned and held by the server for
that account or nobody (`PendingInv`); hence an import meets no foreign row. A clean login has nothing pending and no
cycle, which is why it keeps both. `StrayPart` starts at the statement of the migration and not at its mark in the
metadata, which is the next one.

*Files.* `ChoicesSurvive` speaks of a running program and says nothing of the files a start reads. `FilesInv` adds what the
next start would find, in a file or through the migration of one (`NextOffline`, `NextSession`): it is the user's choice, unless a call that
will write that file is still due. So a handler is an invariant broken by its assignments to memory and
restored by its calls, one by one, with the call of a refresh between any two of them. `MigrationInv` says how far the conversion of the legacy files is at each stage, and
that a directory that stays has nothing left that would bar a start; `CallsInv` which calls a phase may have before it; `DeviceInv` follows the id from
the start that makes it to the file. All of it holds until a write is `cut`; from then on only `Shape` is claimed, which has the types and `FailsOnlyAfterCut`.

*Screens.* `ScreensInv` has five parts, each of which most actions leave alone. `BackupInv` says that an acknowledged
snapshot is on the server or about to be replaced by an answered one, and that while nobody disturbs the row no PUT is late; it needs
`LockInv`, that one transfer runs at a time, which the lock of the settings gives. `FormInv` says that a search other than the one the form
waits for is left over from a form that a login took away.

*Model-checked only*: `Convergence`, `MarksDrain`, `SyncingEnds` and `AutoSyncGoesOn` (liveness under fairness is out of the
prover's reach), and the four violations.

## 5. Not modelled, and the plan

Done: synchronisation of one account, its scheduling by the interface, sessions and accounts, the files, the backup and the
screens, with the theorems of their safety properties. Next:

1. For the pull what `Imported` is for the push: what an export makes of the local tables and of the open conflicts, kept by each step of
   the loop while the user's operations are ordered around it.

Not modelled, and why:

- *Statistics, search, sort and the exports of movies*: single SQL queries and formatting. They keep no state, and
  what they compute is the text of the query.
- *The rate limiter*: at 5 requests a second and a burst of 20 a limiter that was idle for the five minutes of the purge is full again, so
  that purging it cannot be told from keeping it.
- *External ids*: uniqueness is checked on creation only; a pull may bring the same TMDB movie again by design.
- *Tombstones*: the protocol has none. A movie deleted elsewhere stays on a device, and a push of it from there brings it back; no
  property can forbid what nothing in the code tells apart from a new movie.
- *The TMDB cache*: written, never read.
- *Liveness of backup and search*: that each command answers some time is the timeout of its request; checked with fairness it
  would need an instance smaller than the one that shows the safety properties.
- *SQLite and goose* (one connection, atomic statements and the foreign key are assumptions), the TMDB service, HTTP, security headers,
  rendering.
