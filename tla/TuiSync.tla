------------------------------ MODULE TuiSync ------------------------------
(***************************************************************************)
(* The scheduling of synchronisation by the terminal interface: ticks,     *)
(* requests over the bridge and keys start cycles of Service.Run, whose    *)
(* results come back as messages in any order; the screen of conflicts     *)
(* starts cycles of its own (tui/sync.go, tui/conflicts.go, sync/retry.go).*)
(*                                                                         *)
(* Update handles one message at a time, so each handler is one step.      *)
(***************************************************************************)
EXTENDS Naturals, FiniteSets, FiniteSetsExt

CONSTANTS
  Cycles,       \* the goroutines of syncCmd
  MaxAttempts,  \* maxAttempts of WithRetry
  MaxConflicts, \* bound of the model: conflicts ever recorded
  MaxTriggers,  \* bound of the model: keys, edits and logins that start a cycle
  None

ASSUME TuiSyncAssumption ==
  /\ IsFiniteSet(Cycles)
  /\ MaxAttempts \in Nat \ {0} /\ MaxConflicts \in Nat /\ MaxTriggers \in Nat
  /\ None \notin Nat

VARIABLES
  session,       \* state.Session.Authenticated
  offline,       \* state.Config.OfflineMode
  syncSyncing,   \* a cycle started by startSync is under way
  syncStatus,    \* what the footer says
  hasConflicts,  \* conflictCount > 0, which is all the code asks of it
  onConflicts,   \* the route is sync_conflicts
  listed,        \* conflictRecords
  selected,      \* selectedConflict
  open,          \* the open rows of sync_conflicts
  detected,      \* the conflicts recorded so far, numbered in this order
  ticks,         \* timers of scheduleSyncTick that are running
  requests,      \* SyncRequestMsg on their way
  cycle,         \* cycle[c]: the goroutine c
  triggers,      \* history: cycles started by anything but a tick, since the program started
  bypasses,      \* history: cycles started past syncSyncing, since the program started
  lapsed,        \* history: no cycle began and no timer was set since a tick or
                 \* a result found the session offline or logged out
  unread         \* history: the conflicts resolved since the list was last read

screenVars == <<onConflicts, listed, selected>>
modelVars == <<session, offline, syncSyncing, syncStatus, hasConflicts, screenVars>>
storeVars == <<open, detected>>
queueVars == <<ticks, requests>>
accountVars == <<triggers, bypasses, lapsed>>
historyVars == <<accountVars, unread>>
vars == <<modelVars, storeVars, queueVars, cycle, historyVars>>

Conflicts == 1 .. MaxConflicts

\* Idle, synced and pending, which no condition of the code tells apart, are
\* all "quiet".
SyncStatuses == {"quiet", "syncing", "error", "conflicts"}

\* A goroutine waits for runMu, attempts push and pull, waits between two
\* attempts, or has sent its result.
CycleStates ==
  [pc : {"idle", "wait", "try", "sleep", "done"}, attempt : 0 .. MaxAttempts,
   ok : BOOLEAN, conflicts : BOOLEAN]

IdleCycle == [pc |-> "idle", attempt |-> 0, ok |-> FALSE, conflicts |-> FALSE]
WaitingCycle == [IdleCycle EXCEPT !.pc = "wait"]
FailedCycle == [IdleCycle EXCEPT !.pc = "done"]

Busy == {c \in Cycles : cycle[c].pc # "idle"}
Waiting == {c \in Cycles : cycle[c].pc = "wait"}
Running == {c \in Cycles : cycle[c].pc \in {"try", "sleep"}} \* holds runMu

shouldAutoSync == ~offline /\ session

TuiSyncTypeOK ==
  /\ session \in BOOLEAN /\ offline \in BOOLEAN /\ syncSyncing \in BOOLEAN
  /\ syncStatus \in SyncStatuses
  /\ hasConflicts \in BOOLEAN
  /\ onConflicts \in BOOLEAN
  /\ listed \subseteq Conflicts /\ open \subseteq Conflicts
  /\ selected \in Conflicts \cup {None}
  /\ detected \in 0 .. MaxConflicts
  /\ ticks \in Nat /\ requests \in Nat
  /\ cycle \in [Cycles -> CycleStates]
  /\ triggers \in Nat /\ bypasses \in Nat /\ lapsed \in BOOLEAN
  /\ unread \subseteq Conflicts

(***************************************************************************)
(* The start and the end of a cycle.                                       *)
(***************************************************************************)

\* Mutant of CanStart: startSync without the test of syncSyncing.
CanAlwaysStart == shouldAutoSync

\* startSync goes ahead when a cycle is wanted and none is known to run.
CanStart == shouldAutoSync /\ ~syncSyncing

StartCycle ==
  /\ \E c \in Cycles : cycle[c].pc = "idle" /\ cycle' = [cycle EXCEPT ![c] = WaitingCycle]
  /\ syncSyncing' = TRUE /\ syncStatus' = "syncing"
  /\ lapsed' = FALSE

\* Otherwise it does nothing; in particular it sets no new timer.
IgnoreStart ==
  /\ UNCHANGED <<syncSyncing, syncStatus, cycle>>
  /\ lapsed' = (lapsed \/ ~shouldAutoSync)

startSync == IF CanStart THEN StartCycle ELSE IgnoreStart

\* A trigger other than a tick, which the history counts when it has effect
Triggered == triggers' = IF CanStart THEN triggers + 1 ELSE triggers

\* Mutant of AfterTick: a timer that repeats by itself
TickRepeats == ticks

\* The timer of tea.Tick fires once.
AfterTick == ticks - 1

\* syncTickMsg
Tick ==
  /\ ticks > 0 /\ ticks' = AfterTick
  /\ startSync
  /\ UNCHANGED <<session, offline, hasConflicts, screenVars, storeVars, requests, triggers, bypasses, unread>>

\* SyncRequestMsg
Request ==
  /\ requests > 0 /\ requests' = requests - 1
  /\ startSync /\ Triggered
  /\ UNCHANGED <<session, offline, hasConflicts, screenVars, storeVars, ticks, bypasses, unread>>

\* The key S, which the screen of conflicts ignores
PressSync ==
  /\ triggers + requests < MaxTriggers /\ ~onConflicts
  /\ startSync /\ Triggered
  /\ UNCHANGED <<session, offline, hasConflicts, screenVars, storeVars, queueVars, bypasses, unread>>

\* The status after a cycle that succeeded
StatusOf(r) == IF r.conflicts THEN "conflicts" ELSE "quiet"

\* Mutant of scheduleSyncTick: a result starts a timer, but an error does not.
tickUnlessError(c) == IF shouldAutoSync /\ cycle[c].ok THEN 1 ELSE 0

\* A result schedules the next tick while the session is online.
scheduleSyncTick(c) == IF shouldAutoSync THEN 1 ELSE 0

\* Mutant of SyncingAfter: only a success ends the cycle that startSync began.
SyncingAfterError(c) == syncSyncing /\ ~cycle[c].ok

\* Every result, whoever started its cycle, clears syncSyncing.
SyncingAfter(c) == FALSE

\* handleSyncResult
HandleSyncResult(c) ==
  /\ cycle[c].pc = "done"
  /\ cycle' = [cycle EXCEPT ![c] = IdleCycle]
  /\ syncSyncing' = SyncingAfter(c)
  /\ IF cycle[c].ok
     THEN syncStatus' = StatusOf(cycle[c]) /\ hasConflicts' = cycle[c].conflicts
     ELSE syncStatus' = "error" /\ UNCHANGED hasConflicts
  /\ ticks' = ticks + scheduleSyncTick(c)
  /\ lapsed' = ~shouldAutoSync
  /\ UNCHANGED <<session, offline, screenVars, storeVars, requests, triggers, bypasses, unread>>

(***************************************************************************)
(* Service.Run in its goroutine: runMu, then up to maxAttempts attempts.   *)
(***************************************************************************)

SetCycle(c, r) ==
  /\ cycle' = [cycle EXCEPT ![c] = r]
  /\ UNCHANGED <<modelVars, queueVars, historyVars>>

\* Mutant of LockFree: cycles that overlap
LockIgnored == TRUE

LockFree == Running = {}

\* The lock is taken.  A session offline or logged out, or a deadline that
\* passed during the wait, ends the cycle at once.
TakeLock(c) ==
  /\ cycle[c].pc = "wait" /\ LockFree
  /\ \/ shouldAutoSync /\ SetCycle(c, [cycle[c] EXCEPT !.pc = "try", !.attempt = 1])
     \/ SetCycle(c, FailedCycle)
  /\ UNCHANGED storeVars

\* The pull of an attempt records a conflict.
RecordConflict(c) ==
  /\ cycle[c].pc = "try"
  /\ detected < MaxConflicts
  /\ detected' = detected + 1 /\ open' = open \cup {detected + 1}
  /\ UNCHANGED <<modelVars, queueVars, cycle, historyVars>>

\* An attempt succeeds; the result holds the count of this moment.
AttemptSucceeds(c) ==
  /\ cycle[c].pc = "try"
  /\ SetCycle(c, [IdleCycle EXCEPT !.pc = "done", !.ok = TRUE, !.conflicts = open # {}])
  /\ UNCHANGED storeVars

\* Mutant of AttemptsLeft: one attempt too many
AttemptsLeftOrLast(c) == cycle[c].attempt <= MaxAttempts

AttemptsLeft(c) == cycle[c].attempt < MaxAttempts

\* An attempt fails: on an error that is not retryable, or after the last
\* attempt, Run returns.
AttemptFails(c) ==
  /\ cycle[c].pc = "try"
  /\ \/ AttemptsLeft(c) /\ SetCycle(c, [cycle[c] EXCEPT !.pc = "sleep", !.attempt = @ + 1])
     \/ SetCycle(c, FailedCycle)
  /\ UNCHANGED storeVars

\* The wait before the next attempt ends, by its timer or by the deadline.
EndSleep(c) ==
  /\ cycle[c].pc = "sleep"
  /\ SetCycle(c, [cycle[c] EXCEPT !.pc = "try"]) \/ SetCycle(c, FailedCycle)
  /\ UNCHANGED storeVars

RunStep(c) == TakeLock(c) \/ AttemptSucceeds(c) \/ AttemptFails(c) \/ EndSleep(c)

(***************************************************************************)
(* The session and the other keys.                                         *)
(***************************************************************************)

\* A login or a registration came back with a session: online again, to the
\* main menu, and a cycle.
HandleAuthResult ==
  /\ triggers + requests < MaxTriggers
  /\ session' = TRUE /\ offline' = FALSE /\ onConflicts' = FALSE
  /\ IF syncSyncing THEN UNCHANGED <<syncSyncing, syncStatus, cycle, triggers, lapsed>>
     ELSE StartCycle /\ triggers' = triggers + 1
  /\ UNCHANGED <<hasConflicts, listed, selected, storeVars, queueVars, bypasses, unread>>

\* A local change asks for a cycle over the bridge when the session is online.
Edit ==
  /\ ~onConflicts /\ shouldAutoSync
  /\ triggers + requests < MaxTriggers
  /\ requests' = requests + 1
  /\ UNCHANGED <<modelVars, storeVars, ticks, cycle, historyVars>>

\* The key o of the settings, or a backup whose import ends on any screen
ToggleOffline ==
  /\ offline' = ~offline
  /\ UNCHANGED <<session, syncSyncing, syncStatus, hasConflicts, screenVars,
                 storeVars, queueVars, cycle, historyVars>>

\* logout; a cycle under way goes on, and syncSyncing with it.
Logout ==
  /\ ~onConflicts /\ session
  /\ session' = FALSE /\ syncStatus' = "quiet" /\ hasConflicts' = FALSE
  /\ UNCHANGED <<offline, syncSyncing, screenVars, storeVars, queueVars, cycle, historyVars>>

(***************************************************************************)
(* The screen of conflicts.                                                *)
(***************************************************************************)

\* Mutant of Selected: the selection is kept when the list is read again.
SelectionKept(records) == selected

\* refreshConflicts selects the first record; of an empty list it selects none.
Selected(records) == IF records = {} THEN selected ELSE Min(records)

\* The list is read again; an error keeps the old records and the selection.
refreshConflicts(records, resolved) ==
  \/ listed' = records /\ selected' = Selected(records) /\ unread' = {}
  \/ unread' = unread \cup resolved /\ UNCHANGED <<listed, selected>>

\* The key K: nothing, when the model knows of no conflict
OpenConflicts ==
  /\ ~onConflicts /\ hasConflicts
  /\ onConflicts' = TRUE
  /\ refreshConflicts(open, {})
  /\ UNCHANGED <<session, offline, syncSyncing, syncStatus, hasConflicts,
                 storeVars, queueVars, cycle, accountVars>>

\* up, down
SelectConflict ==
  /\ onConflicts
  /\ selected' \in listed
  /\ UNCHANGED <<session, offline, syncSyncing, syncStatus, hasConflicts, onConflicts, listed,
                 storeVars, queueVars, cycle, historyVars>>

\* esc
LeaveConflicts ==
  /\ onConflicts /\ onConflicts' = FALSE
  /\ UNCHANGED <<session, offline, syncSyncing, syncStatus, hasConflicts, listed, selected,
                 storeVars, queueVars, cycle, historyVars>>

\* refreshConflictCount; an error of the store changes nothing.
CountConflicts(rest) ==
  \/ /\ hasConflicts' = (rest # {})
     /\ syncStatus' = IF rest # {} /\ syncStatus \notin {"syncing", "error"}
                      THEN "conflicts" ELSE syncStatus
  \/ UNCHANGED <<hasConflicts, syncStatus>>

\* The cycle after a resolution: syncCmd, past startSync and its tests
BypassSync ==
  /\ \E c \in Cycles : cycle[c].pc = "idle" /\ cycle' = [cycle EXCEPT ![c] = WaitingCycle]
  /\ bypasses' = bypasses + 1 /\ lapsed' = FALSE

\* enter on a conflict that is open: when none is left the screen closes, and
\* no cycle pushes the choice.  On a resolved one it is an error alone.
ResolveSelected ==
  /\ onConflicts /\ selected \in open
  /\ LET rest == open \ {selected} IN
       open' = rest /\ refreshConflicts(rest, {selected}) /\ CountConflicts(rest)
  /\ IF hasConflicts' THEN BypassSync /\ UNCHANGED onConflicts
     ELSE onConflicts' = FALSE /\ UNCHANGED <<cycle, bypasses, lapsed>>
  /\ UNCHANGED <<session, offline, syncSyncing, detected, queueVars, triggers>>

(***************************************************************************)
(* The end of the program, and its next start.                             *)
(***************************************************************************)

\* New asks the store for the counts, which are 0 when it cannot be read; Init
\* sets the first timer.
Boot ==
  /\ syncSyncing' = FALSE
  /\ hasConflicts' \in {open # {}, FALSE}
  /\ syncStatus' = IF hasConflicts' THEN "conflicts" ELSE "quiet"
  /\ listed' = {} /\ selected' = None
  /\ ticks' = (IF shouldAutoSync THEN 1 ELSE 0) /\ requests' = 0
  /\ triggers' = 0 /\ bypasses' = 0 /\ lapsed' = ~shouldAutoSync /\ unread' = {}

\* Quit or killed, the program takes its goroutines with it; the route, the
\* session and the configuration are read again.
Restart ==
  /\ cycle' = [c \in Cycles |-> IdleCycle]
  /\ Boot
  /\ UNCHANGED <<session, offline, onConflicts, storeVars>>

Init ==
  /\ session \in BOOLEAN /\ offline \in BOOLEAN
  /\ syncSyncing = FALSE /\ syncStatus = "quiet" /\ hasConflicts = FALSE
  /\ onConflicts = FALSE /\ listed = {} /\ selected = None
  /\ open = {} /\ detected = 0
  /\ ticks = (IF shouldAutoSync THEN 1 ELSE 0) /\ requests = 0
  /\ cycle = [c \in Cycles |-> IdleCycle]
  /\ triggers = 0 /\ bypasses = 0 /\ lapsed = ~shouldAutoSync /\ unread = {}

Messages == Tick \/ Request \/ HandleAuthResult \/ \E c \in Cycles : HandleSyncResult(c)

Keys ==
  \/ PressSync \/ Edit \/ ToggleOffline \/ Logout
  \/ OpenConflicts \/ SelectConflict \/ LeaveConflicts \/ ResolveSelected

Next ==
  \/ Messages
  \/ Keys
  \/ \E c \in Cycles : RunStep(c) \/ RecordConflict(c)
  \/ Restart

\* Timers fire, messages are delivered, and every attempt has a deadline.
Fairness ==
  /\ WF_vars(Tick) /\ WF_vars(Request)
  /\ \A c \in Cycles : WF_vars(HandleSyncResult(c)) /\ WF_vars(RunStep(c))

Spec == Init /\ [][Next]_vars /\ Fairness

(***************************************************************************)
(* Properties.                                                             *)
(***************************************************************************)

\* The footer says "syncing" only while a cycle is under way, and the cycles
\* under way beyond the one that startSync knows of are at most the ones the
\* screen of conflicts started past it (tui/sync.go:82, tui/conflicts.go:91).
OverlapBound ==
  /\ syncStatus = "syncing" => syncSyncing
  /\ syncSyncing => Busy # {}
  /\ Cardinality(Busy) <= bypasses + (IF syncSyncing THEN 1 ELSE 0)

\* Every cycle carries the tick chain on when it ends, so chains add up; but
\* only a trigger of the user adds one: ticks and results alone never do.
TickAccount == ticks + Cardinality(Busy) <= 1 + triggers + bypasses

\* Automatic synchronisation does not die while the session stays online: the
\* last timer and the last cycle are gone only after a tick or a result found
\* the session offline or logged out (tui/sync.go:71, 82).
AutoSyncEndsOffline == ticks = 0 /\ Busy = {} => lapsed

\* The screen offers a conflict that is resolved only as long as the list could
\* not be read again after its resolution, and enter resolves one that is
\* listed, although cycles record conflicts while the screen is shown and it
\* closes by a count that may be stale (tui/conflicts.go:29, 84, 179).
SelectionIsOpen == listed # {} => listed \subseteq open \cup unread /\ selected \in listed

\* The footer does not say "syncing" for ever: a cycle that fails on every
\* attempt, waits for the lock of another or outlives a logout ends as well.
SyncingEnds == syncSyncing ~> ~syncSyncing

\* While the session stays online and no timer was lost before, cycles go on.
AutoSyncGoesOn == <>[](shouldAutoSync /\ ~lapsed) => []<>(Busy # {})

Serial == INSTANCE SerialWork WITH Jobs <- Cycles, waiting <- Waiting, working <- Running

\* Concurrent calls of Run are serialised: one attempt or backoff at a time,
\* begun from the waiting ones (sync/service.go:84).
RunsAreSerial == Serial!SerialSpec
=============================================================================
