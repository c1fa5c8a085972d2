------------------------------ MODULE AppFiles ------------------------------
(***************************************************************************)
(* The files of the terminal client: config.json, state.json and           *)
(* session.json, which the start reads, the interface writes in place, and *)
(* an older release may have left as YAML (config/config.go,               *)
(* config/migrate.go, app/cli.go, tui/model.go, tui/backup.go).            *)
(*                                                                         *)
(* A handler of the interface sets the memory and makes its calls of       *)
(* package config one after the other; the goroutine of a cycle makes one  *)
(* as well, between two of them, when it has refreshed its tokens.  The    *)
(* process may die, or the disk fail, at each read and each write.         *)
(***************************************************************************)
EXTENDS Naturals, Sequences

CONSTANTS
  Accounts,
  Prefs, DefaultPrefs, \* theme and server URL
  Unset,               \* an empty server URL
  Views, DefaultView,  \* route, filter, sort and time of the last sync
  None,                \* no account; no legacy directory
  Absent,              \* no such file
  Torn,                \* a file that does not parse, such as one whose write was cut
  MaxDevices           \* bound of the model: device ids ever made

NoDevice == 0
Configs(prefs) == [prefs : prefs, offline : BOOLEAN, device : 0 .. MaxDevices]

\* The YAML of an older release: a session has the account of its tokens, and
\* keys as yaml.v3 makes them of the names of a struct, or as its own tags.
LegacyConfigs == [prefs : {DefaultPrefs, Unset}, offline : BOOLEAN, device : {NoDevice}]
LegacySessions == [account : Accounts, keys : {"lowercase", "snake_case"}]
Legacies ==
  [config : LegacyConfigs \cup {Absent, Torn},
   session : LegacySessions \cup {Absent, Torn}]

ASSUME AppFilesAssumption ==
  /\ DefaultPrefs \in Prefs /\ Unset \notin Prefs
  /\ DefaultView \in Views
  /\ None \notin Accounts
  /\ {Absent, Torn} \cap (Accounts \cup Views \cup Configs(Prefs) \cup {None}) = {}
  /\ {Absent, Torn} \cap (LegacyConfigs \cup LegacySessions) = {}
  /\ None \notin Legacies
  /\ Absent # Torn
  /\ MaxDevices \in Nat

VARIABLES
  files,    \* the three files
  legacy,   \* the YAML files of ~/.movietracker
  phase,    \* of the program
  memory,   \* the interface's configuration, view and session
  todo,     \* the calls of package config that the handler has yet to make
  stage,    \* the part of the migration that the first of them is in
  syncing,  \* the account whose session the cycle under way began with
  device,   \* history: the first device id
  devices,  \* history: device ids made so far
  chosen,   \* history: the offline mode and the account of the user's last choice
  cut,      \* history: a handler's writes were cut short, or one failed
  stuck,    \* history: the legacy directory could not be archived
  late,     \* history: tokens were refreshed for a session that the user had left
  exported  \* history: a local export wrote config.json

diskVars == <<files, legacy>>
progress == <<todo, stage>>
deviceVars == <<device, devices>>
historyVars == <<deviceVars, chosen, cut, stuck, late, exported>>
vars == <<diskVars, phase, memory, progress, syncing, historyVars>>

DefaultConfig == [prefs |-> DefaultPrefs, offline |-> TRUE, device |-> NoDevice]

Memories ==
  [config : Configs(Prefs \cup {Unset}), view : Views, session : Accounts \cup {None}]

\* The memory of no process
NoMemory == [config |-> DefaultConfig, view |-> DefaultView, session |-> None]

\* A call: the file it is about, none for Dir and the loads, and whether its
\* error ends the handler.
Calls == [name : {"dir", "boot", "config", "export", "state", "session", "tokens"}, strict : BOOLEAN]
Call(name) == [name |-> name, strict |-> FALSE]
Checked(name) == [name |-> name, strict |-> TRUE]

Ready == phase = "running" /\ todo = <<>>

AppFilesTypeOK ==
  /\ files.config \in Configs(Prefs) \cup {Absent, Torn}
  /\ files.state \in Views \cup {Absent, Torn}
  /\ files.session \in Accounts \cup {None, Absent, Torn}
  /\ legacy \in Legacies \cup {None}
  /\ phase \in {"off", "failed", "unreadable", "dir", "config", "running"}
  /\ memory \in Memories
  /\ todo \in Seq(Calls) /\ Len(todo) <= 4
  /\ stage \in {"config", "session", "archive", "call"}
  /\ syncing \in Accounts \cup {None}
  /\ device \in 0 .. MaxDevices /\ devices \in 0 .. MaxDevices
  /\ chosen \in [offline : BOOLEAN, session : Accounts \cup {None}]
  /\ \A history \in {cut, stuck, late, exported} : history \in BOOLEAN

(***************************************************************************)
(* The calls, write by write.                                              *)
(***************************************************************************)

\* Mutant of normalizeConfig: the configuration is saved as it is.
asItIs(config) == config

normalizeConfig(config) == [config EXCEPT !.prefs = IF @ = Unset THEN DefaultPrefs ELSE @]

\* Mutant of InterfaceConfig: without the device id
InterfaceConfigOfScreen == [memory.config EXCEPT !.device = NoDevice]

\* SaveConfig of the interface names the fields that it keeps.
InterfaceConfig == memory.config

\* currentBackupSnapshot has no device id.
SnapshotConfig == [memory.config EXCEPT !.device = NoDevice]

\* The file that a call writes
FileOf(name) ==
  CASE name \in {"boot", "config", "export"} -> {"config"}
    [] name \in {"session", "tokens"} -> {"session"}
    [] OTHER -> {name} \cap {"state"}

\* Its new content; an empty session removes its file.
Saved(name) ==
  CASE name = "boot" -> normalizeConfig(memory.config)
    [] name = "config" -> normalizeConfig(InterfaceConfig)
    [] name = "export" -> normalizeConfig(SnapshotConfig)
    [] name = "state" -> memory.view
    [] name = "session" -> IF memory.session = None THEN Absent ELSE memory.session
    [] name = "tokens" -> syncing
    [] OTHER -> Absent

\* Every call begins with Dir, and Dir with migrateLegacyYAML.
Migrating == legacy # None /\ stage # "call"

\* Session has no YAML tags, so keys of another spelling are passed over.
readLegacySession(session) == IF session.keys = "lowercase" THEN session.account ELSE None

\* The migration of a file that this release does not have, and an older one has
Converts(f) == legacy # None /\ files[f] = Absent /\ legacy[f] # Absent

Converted(f) ==
  IF f = "config" THEN normalizeConfig(legacy.config) ELSE readLegacySession(legacy.session)

\* The migration reads a file at this stage, and the file does not parse.
Reads == Migrating /\ stage # "archive" /\ Converts(stage)
Unparsed == Reads /\ legacy[stage] = Torn

\* What the present step writes
Writing ==
  IF ~Migrating THEN FileOf(Head(todo).name)
  ELSE IF Reads /\ ~Unparsed THEN {stage} ELSE {}

Content == IF Migrating THEN Converted(stage) ELSE Saved(Head(todo).name)

After(content) == [f \in DOMAIN files |-> IF f \in Writing THEN content ELSE files[f]]

\* Mutant of Archive: the directory stays where it is.
NoArchive == UNCHANGED <<legacy, stuck>>

\* The rename is skipped when there is an archive already, and its error ignored.
Archive ==
  \/ legacy' = None /\ UNCHANGED stuck
  \/ stuck' = TRUE /\ UNCHANGED legacy

NextStage == [config |-> "session", session |-> "archive", archive |-> "call"]

Step ==
  /\ todo # <<>> /\ ~Unparsed
  /\ IF Writing = {} THEN UNCHANGED files ELSE files' = After(Content)
  /\ IF Migrating THEN stage' = NextStage[stage] /\ UNCHANGED todo
     ELSE stage' = "config" /\ todo' = Tail(todo)
  /\ IF Migrating /\ stage = "archive" THEN Archive ELSE UNCHANGED <<legacy, stuck>>
  /\ UNCHANGED <<phase, memory, syncing, deviceVars, chosen, cut, late, exported>>

\* A write that does not succeed leaves the old file or a torn one; a failed
\* removal leaves the old one.
CutShort == files' \in {files} \cup {After(Torn) : c \in {Content} \ {Absent}}

\* The error of a call is logged, or it ends the handler, or the start.
CallFails(failure) ==
  /\ stage' = "config"
  /\ todo' = IF Head(todo).strict THEN <<>> ELSE Tail(todo)
  /\ IF Head(todo).strict /\ phase # "running" THEN phase' = failure /\ memory' = NoMemory
     ELSE UNCHANGED <<phase, memory>>
  /\ UNCHANGED <<legacy, syncing, deviceVars, chosen, stuck, late, exported>>

WriteFails ==
  /\ todo # <<>> /\ Writing # {}
  /\ CutShort /\ cut' = TRUE
  /\ CallFails("failed")

\* Dir finds no directory, or cannot make it, or a legacy file cannot be read;
\* one that does not parse is an error every time.  What the call was to write
\* is not written.
DirFails ==
  /\ todo # <<>> /\ (stage = "config" \/ Reads)
  /\ UNCHANGED files /\ cut' = (cut \/ FileOf(Head(todo).name) # {})
  /\ CallFails("unreadable") \/ (Unparsed /\ CallFails("failed"))

\* The program is left, or killed, at any time.
Stop ==
  /\ phase \in {"dir", "config", "running"}
  /\ IF todo # <<>> /\ Writing # {} THEN CutShort ELSE UNCHANGED files
  /\ phase' = "off" /\ memory' = NoMemory /\ todo' = <<>> /\ stage' = "config"
  /\ syncing' = None
  /\ cut' = (cut \/ todo # <<>>)
  /\ UNCHANGED <<legacy, deviceVars, chosen, stuck, late, exported>>

(***************************************************************************)
(* The start: RunCLI.                                                      *)
(***************************************************************************)

Goes(name, calls) == phase' = name /\ todo' = calls /\ stage' = "config"

\* config.Dir, and the Dir of LoadConfig
Boot ==
  /\ phase \in {"off", "failed", "unreadable"}
  /\ Goes("dir", <<Checked("dir"), Checked("dir")>>)
  /\ UNCHANGED <<diskVars, memory, syncing, historyVars>>

\* A file that does not parse, or cannot be read, ends the start.
BootFails(failure) ==
  /\ phase' = failure /\ memory' = NoMemory
  /\ UNCHANGED <<diskVars, progress, syncing, historyVars>>

\* Mutant of Parses: a file that is not there is an error as well.
IsThere(f) == files[f] \notin {Absent, Torn}

Parses(f) == files[f] # Torn

\* The start reads its files; one that is there may be out of reach.
LoadFails(loaded) ==
  \/ (\E f \in loaded : ~Parses(f)) /\ BootFails("failed")
  \/ (\E f \in loaded : files[f] # Absent) /\ BootFails("unreadable")

LoadedConfig ==
  IF files.config = Absent THEN DefaultConfig ELSE normalizeConfig(files.config)

\* ensureDeviceConfig
EnsureDevice(config) ==
  IF config.device # NoDevice
  THEN memory' = [memory EXCEPT !.config = config] /\ UNCHANGED deviceVars
  ELSE /\ devices < MaxDevices /\ devices' = devices + 1
       /\ memory' = [memory EXCEPT !.config = [config EXCEPT !.device = devices + 1]]
       /\ device' = IF device = NoDevice THEN devices + 1 ELSE device

\* LoadConfig, SaveConfig, whose error is logged, LoadState and LoadSession
ReadConfig ==
  /\ phase = "dir" /\ todo = <<>>
  /\ \/ LoadFails({"config"})
     \/ /\ Parses("config")
        /\ EnsureDevice(LoadedConfig)
        /\ Goes("config", <<Call("boot"), Checked("dir"), Checked("dir")>>)
        /\ UNCHANGED <<diskVars, syncing, chosen, cut, stuck, late, exported>>

LoadedView == IF files.state = Absent THEN DefaultView ELSE files.state
LoadedSession == IF files.session = Absent THEN None ELSE files.session

Runs(account) ==
  /\ memory' = [memory EXCEPT !.view = LoadedView, !.session = account]
  /\ UNCHANGED <<diskVars, syncing, deviceVars, cut, stuck, late, exported>>

\* A session is restored by the server, which may end it; offline, it is taken
\* as it is.
RestoreSession ==
  IF memory.config.offline \/ LoadedSession = None
  THEN Runs(LoadedSession) /\ Goes("running", <<>>) /\ UNCHANGED chosen
  ELSE /\ Goes("running", <<Call("session")>>)
       /\ \/ Runs(LoadedSession) /\ UNCHANGED chosen
          \/ Runs(None) /\ chosen' = [chosen EXCEPT !.session = None]

ReadRest ==
  /\ phase = "config" /\ todo = <<>>
  /\ \/ LoadFails({"state", "session"})
     \/ Parses("state") /\ Parses("session") /\ RestoreSession

(***************************************************************************)
(* The cycles of Service.Run and the tokens they refresh.                  *)
(***************************************************************************)

KeepsFiles ==
  UNCHANGED <<diskVars, phase, memory, stage, deviceVars, chosen, cut, stuck, exported>>

\* A cycle takes the session of the moment, and keeps it.
StartRun ==
  /\ Ready /\ syncing = None
  /\ ~memory.config.offline /\ memory.session # None
  /\ syncing' = memory.session
  /\ UNCHANGED <<todo, late>> /\ KeepsFiles

EndRun ==
  /\ syncing # None /\ Call("tokens") \notin {todo[i] : i \in DOMAIN todo}
  /\ syncing' = None
  /\ UNCHANGED <<todo, late>> /\ KeepsFiles

\* The callback of a refresh, which writes session.json whoever is logged in now
OnTokens ==
  /\ syncing # None /\ stage = "config"
  /\ Call("tokens") \notin {todo[i] : i \in DOMAIN todo}
  /\ todo' = <<Call("tokens")>> \o todo
  /\ late' = (late \/ syncing # chosen.session)
  /\ UNCHANGED syncing /\ KeepsFiles

(***************************************************************************)
(* The handlers of the interface that save.                                *)
(***************************************************************************)

Saves(calls) ==
  /\ Ready
  /\ todo' = calls
  /\ UNCHANGED <<diskVars, phase, stage, syncing, deviceVars, cut, stuck, late>>

\* The session, then the configuration; goTo saves the state.
HandleAuthResult(a) ==
  /\ Saves(<<Call("session"), Call("config"), Call("state")>>)
  /\ memory' = [memory EXCEPT !.session = a, !.config.offline = FALSE]
  /\ chosen' = [session |-> a, offline |-> FALSE]
  /\ UNCHANGED exported

Logout ==
  /\ Saves(<<Call("session")>>)
  /\ memory.session # None
  /\ memory' = [memory EXCEPT !.session = None]
  /\ chosen' = [chosen EXCEPT !.session = None]
  /\ UNCHANGED exported

ToggleOffline ==
  /\ Saves(<<Call("config")>>)
  /\ memory' = [memory EXCEPT !.config.offline = ~@]
  /\ chosen' = [chosen EXCEPT !.offline = ~memory.config.offline]
  /\ UNCHANGED exported

\* The keys of the theme change the memory alone.
ChangeTheme(p) ==
  /\ Saves(<<>>)
  /\ memory' = [memory EXCEPT !.config.prefs = p]
  /\ UNCHANGED <<chosen, exported>>

SaveSettings(p) ==
  /\ Saves(<<Checked("config"), Call("state")>>)
  /\ memory' = [memory EXCEPT !.config.prefs = p]
  /\ UNCHANGED <<chosen, exported>>

\* A backup of the server may hold an empty URL.
ApplyBackup(p, offline, v) ==
  /\ Saves(<<Checked("config"), Call("state")>>)
  /\ memory' = [memory EXCEPT !.config.prefs = p, !.config.offline = offline, !.view = v]
  /\ chosen' = [chosen EXCEPT !.offline = offline]
  /\ UNCHANGED exported

ExportLocal ==
  /\ Saves(<<Checked("export"), Checked("state")>>)
  /\ exported' = TRUE /\ UNCHANGED <<memory, chosen>>

\* goTo, a filter, a sort, the result of a cycle, the keys that quit
PersistState(v) ==
  /\ Saves(<<Call("state")>>)
  /\ memory' = [memory EXCEPT !.view = v]
  /\ UNCHANGED <<chosen, exported>>

Handlers ==
  \/ Logout \/ ToggleOffline \/ ExportLocal
  \/ \E a \in Accounts : HandleAuthResult(a)
  \/ \E p \in Prefs : ChangeTheme(p) \/ SaveSettings(p)
  \/ \E v \in Views : PersistState(v) \/ \E p \in Prefs \cup {Unset}, o \in BOOLEAN : ApplyBackup(p, o, v)

Calling == Step \/ WriteFails \/ DirFails
Starting == Boot \/ ReadConfig \/ ReadRest
Cycle == StartRun \/ EndRun \/ OnTokens

Next == Calling \/ Stop \/ Starting \/ Cycle \/ Handlers

Nothing == [config |-> Absent, state |-> Absent, session |-> Absent]

\* The first start finds no file of this release, except a config.json that the
\* user wrote to give the TMDB key, and perhaps the files of an older one.
Init ==
  /\ files \in {Nothing, [Nothing EXCEPT !.config = DefaultConfig]}
  /\ legacy \in Legacies \cup {None}
  /\ phase = "off" /\ todo = <<>> /\ stage = "config"
  /\ memory = NoMemory
  /\ device = NoDevice /\ devices = 0
  /\ syncing = None
  /\ LET migrates(f) == Converts(f) /\ legacy[f] # Torn IN
       chosen = [offline |-> IF migrates("config") THEN Converted("config").offline ELSE TRUE,
                 session |-> IF migrates("session") THEN Converted("session") ELSE None]
  /\ cut = FALSE /\ stuck = FALSE /\ late = FALSE /\ exported = FALSE

Spec == Init /\ [][Next]_vars

(***************************************************************************)
(* Properties.                                                             *)
(***************************************************************************)

\* A start that can read its files fails only when a write was cut short, or
\* failed, some time before, or when a file that it has to migrate does not
\* parse: absent files and empty fields never keep the program from starting,
\* and neither does a damaged legacy file once this release has its own
\* (config/config.go:102, config/migrate.go:24).
FailsOnlyAfterCut ==
  phase = "failed" => cut \/ \E f \in {"config", "session"} : Converts(f) /\ legacy[f] = Torn

\* Every start finds the offline mode and the account of the user's last choice,
\* or before the first one what the migration could read of an older release's,
\* over any number of restarts, unless a handler's writes were cut short or not
\* made.  A logout is undone only by a cycle that refreshes its tokens after it,
\* and by a legacy directory that could not be archived, whose session is
\* migrated again (config/migrate.go:34, 45; app/cli.go:147; tui/model.go:313).
ChoicesSurvive ==
  phase = "running" /\ ~cut =>
    /\ memory.config.offline = chosen.offline
    /\ ~stuck /\ ~late => memory.session = chosen.session

\* Nothing but a local export changes the device id, however many saves,
\* restarts and migrations there are (app/cli.go:230, 310).
ConfigIsPersistent ==
  ~cut /\ ~exported /\ memory.config.device # NoDevice => memory.config.device = device

\* The device keeps the id that config.json got at the first start: what
\* src/README.md:94 says, without the exception of the local export.
DeviceIdIsPersistent ==
  ~cut /\ memory.config.device # NoDevice => memory.config.device = device
=============================================================================
