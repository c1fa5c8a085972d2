----------------------------- MODULE TuiScreens -----------------------------
(***************************************************************************)
(* The screens of the terminal interface: which key does what on which     *)
(* screen, and the results of the commands (login, search at TMDB, backup) *)
(* that arrive while the user has gone elsewhere                           *)
(* (tui/model.go, tui/tmdb.go, tui/backup.go).                             *)
(*                                                                         *)
(* Update handles one message at a time, so each key and each result is    *)
(* one step.  A key may also go to a text field that has the focus: then   *)
(* nothing below changes.  The keys of synchronisation are in TuiSync.     *)
(***************************************************************************)
EXTENDS Backups, FiniteSets

CONSTANTS
  MaxLogins, \* bound of the model: login commands in flight
  None

ASSUME TuiScreensAssumption ==
  /\ MaxLogins \in Nat \ {0}
  /\ None \notin {"last", "old", "now", "before", "watched", "other"}

VARIABLES
  route,
  searchFocused, \* the search field of the list has the focus
  session,       \* state.Session.Authenticated
  offline,       \* state.Config.OfflineMode
  authLoading,
  logins,        \* login and registration commands in flight
  backupLoading,
  formMode,      \* movieFormMode
  tmdbSearching,
  searches,      \* searches in flight: the last one of this visit, older ones
  results,       \* whose results are offered
  external,      \* selectedExternalID: chosen in this visit of the form, or before
  abandoned,     \* history: the form was left during a search
  written,       \* the watched movie has an entry the user saved
  listed,        \* how the list's copy, watchEntries, stands to that entry
  opened,        \* selectedMovie: the watched movie, another one, or none
  shown          \* how selectedEntry stands to that entry

authVars == <<session, authLoading, logins>>
formVars == <<formMode, tmdbSearching, searches, results, external, abandoned>>
detailVars == <<written, opened, shown>>
vars == <<backupVars, route, searchFocused, authVars, offline, backupLoading,
          formVars, listed, detailVars>>

Routes ==
  {"splash", "main_menu", "movie_list", "movie_form", "movie_detail", "stats",
   "settings", "login", "register", "help", "sync_conflicts"}
MenuRoutes == {"movie_list", "stats", "settings", "login", "help"}
Ages == {"last", "old"}
Copies == {"current", "unread", "stale"} \* "unread": the read failed, the copy is empty

TuiScreensTypeOK ==
  /\ BackupsTypeOK
  /\ route \in Routes
  /\ searchFocused \in BOOLEAN /\ session \in BOOLEAN /\ offline \in BOOLEAN
  /\ authLoading \in BOOLEAN /\ logins \in 0 .. MaxLogins
  /\ backupLoading \in BOOLEAN
  /\ formMode \in {"manual", "search"} /\ tmdbSearching \in BOOLEAN
  /\ searches \subseteq Ages /\ results \in Ages \cup {None}
  /\ external \in {"now", "before", None} /\ abandoned \in BOOLEAN
  /\ written \in BOOLEAN /\ listed \in Copies /\ shown \in Copies
  /\ opened \in {"watched", "other", None}

(***************************************************************************)
(* What several handlers do.                                               *)
(***************************************************************************)

\* An entry that is there may fail to be read; then its movie is listed without it.
Reading(stored) == {"current"} \cup (IF stored THEN {"unread"} ELSE {})

\* refreshMovies reads the movies and their entries, or fails as a whole and
\* keeps the copy it had.
RefreshFrom(copy, stored) == listed' \in {copy} \cup Reading(stored)

refreshMovies == RefreshFrom(listed, written)

\* goTo ends the wait for a login on every screen; the command goes on.
goTo(r) ==
  /\ route' = r /\ searchFocused' = FALSE
  /\ authLoading' = FALSE
  /\ IF r = "movie_list" THEN refreshMovies ELSE UNCHANGED listed

\* On these screens the keys reach the shortcuts of handleKey.
Shortcuts == route \in {"splash", "main_menu", "movie_list", "stats", "help"} /\ ~searchFocused

OnList == route = "movie_list" /\ ~searchFocused

(***************************************************************************)
(* Moving between screens.                                                 *)
(***************************************************************************)

\* The selected movie and its entry are dead once their screen is left: the
\* way back selects anew.
LeaveDetail == opened' = None /\ shown' = "current" /\ UNCHANGED written

\* A key that shows the screen r and does nothing else
Show(r) ==
  /\ goTo(r) /\ LeaveDetail
  /\ UNCHANGED <<backupVars, session, logins, offline, backupLoading, formVars>>

EscTarget ==
  CASE route = "register" -> "login"
    [] route \in {"movie_form", "movie_detail"} -> "movie_list"
    [] OTHER -> "main_menu"

\* esc, where it leaves the screen: the search of the form and the search
\* field of the list keep it to themselves.
PressEsc ==
  /\ route \notin {"main_menu", "splash"} /\ ~searchFocused
  /\ ~(route = "movie_form" /\ formMode = "search")
  /\ Show(EscTarget)

\* enter on the splash, and on an item of the menu
PressEnter ==
  \/ route = "splash" /\ Show("main_menu")
  \/ route = "main_menu" /\ \E r \in MenuRoutes : Show(r)

\* ?, h, m, s, l, and K when the model knows of a conflict
PressShortcut ==
  /\ Shortcuts
  /\ \E r \in {"help", "main_menu", "settings", "login", "sync_conflicts"} :
       /\ route = "splash" => r \in {"help", "main_menu"}
       /\ Show(r)

\* The last conflict is resolved.
CloseConflicts == route = "sync_conflicts" /\ Show("main_menu")

\* ctrl+r on the login screen
ToRegister == route = "login" /\ ~authLoading /\ ~session /\ Show("register")

(***************************************************************************)
(* The list.                                                               *)
(***************************************************************************)

\* A step that reads the list again, and no more
Reread ==
  /\ refreshMovies
  /\ UNCHANGED <<backupVars, route, searchFocused, authVars, offline, backupLoading, formVars, detailVars>>

\* A letter typed in the search field (there every key but esc is one, ctrl+c
\* too), the keys f, t and c, a conflict resolved, a cycle that succeeded
RefreshList ==
  \/ route = "movie_list" /\ Reread
  \/ route = "sync_conflicts" /\ Reread
  \/ session /\ Reread

\* / and esc
FocusSearch ==
  /\ route = "movie_list" /\ searchFocused' = ~searchFocused
  /\ UNCHANGED <<backupVars, route, authVars, offline, backupLoading, formVars, listed, detailVars>>

\* d: the watched movie, after which the model watches one without an entry,
\* or another
DeleteMovie ==
  /\ OnList
  /\ written' \in {written, FALSE}
  /\ RefreshFrom(IF written' THEN listed ELSE "current", written')
  /\ UNCHANGED <<backupVars, route, searchFocused, authVars, offline, backupLoading, formVars, opened, shown>>

\* openMovieDetail takes the entry from the list's copy.
openMovieDetail(movie) ==
  /\ opened' = movie
  /\ shown' = IF movie = "watched" THEN listed ELSE "current"

\* enter
OpenDetail ==
  /\ OnList
  /\ \E movie \in {"watched", "other"} : openMovieDetail(movie)
  /\ goTo("movie_detail")
  /\ UNCHANGED <<backupVars, session, logins, offline, backupLoading, formVars, written>>

(***************************************************************************)
(* The form of a new movie and its search at TMDB.                         *)
(***************************************************************************)

\* Mutant of KeptExternal: prepareMovieForm without the reset
ExternalKept == IF external = None THEN None ELSE "before"

KeptExternal == None

\* a: prepareMovieForm; a search still in flight is one of an earlier visit.
AddMovie ==
  /\ OnList
  /\ external' = KeptExternal /\ formMode' = "manual"
  /\ results' = None /\ tmdbSearching' = FALSE
  /\ searches' = IF searches = {} THEN {} ELSE {"old"}
  /\ goTo("movie_form")
  /\ UNCHANGED <<backupVars, session, logins, offline, backupLoading, abandoned, detailVars>>

\* A key of the form that changes the form only
FormKey ==
  /\ route = "movie_form"
  /\ UNCHANGED <<backupVars, route, searchFocused, authVars, offline, backupLoading,
                 abandoned, listed, detailVars>>

\* ctrl+t
enterTMDBSearch ==
  /\ FormKey /\ formMode = "manual"
  /\ formMode' = "search" /\ results' = None /\ tmdbSearching' = FALSE
  /\ UNCHANGED <<searches, external>>

\* While a search is under way its keys are ignored.
SearchKeys == formMode = "search" /\ ~tmdbSearching

\* esc
LeaveSearch ==
  /\ FormKey /\ SearchKeys
  /\ formMode' = "manual" /\ results' = None
  /\ UNCHANGED <<tmdbSearching, searches, external>>

\* enter with no result on offer
SearchTMDB ==
  /\ FormKey /\ SearchKeys /\ results = None
  /\ tmdbSearching' = TRUE
  /\ searches' = {"last"} \cup (IF searches = {} THEN {} ELSE {"old"})
  /\ UNCHANGED <<formMode, results, external>>

\* enter with results on offer, whatever the query says by now
applyTMDBSelection ==
  /\ FormKey /\ SearchKeys /\ results # None
  /\ external' = IF results = "last" THEN "now" ELSE "before"
  /\ formMode' = "manual" /\ results' = None
  /\ UNCHANGED <<tmdbSearching, searches>>

\* SearchMovies, through the server or directly: an error leaves what is on
\* offer, no match clears it, and matches replace it.
SearchMovies(s) == {results, None, s}

\* The handler does not ask whose results they are.
handleTMDBSearchResult ==
  /\ \E s \in searches :
       /\ searches' = searches \ {s}
       /\ results' \in SearchMovies(s)
  /\ tmdbSearching' = FALSE
  /\ UNCHANGED <<backupVars, route, searchFocused, authVars, offline, backupLoading,
                 formMode, external, abandoned, listed, detailVars>>

\* enter on the form: the movie is created and shown.
CreateMovie ==
  /\ route = "movie_form" /\ formMode = "manual"
  /\ refreshMovies
  /\ opened' = "other" /\ shown' = "current"
  /\ route' = "movie_detail" /\ searchFocused' = FALSE /\ authLoading' = FALSE
  /\ UNCHANGED <<backupVars, session, logins, offline, backupLoading, formVars, written>>

(***************************************************************************)
(* The detail of a movie.                                                  *)
(***************************************************************************)

\* Mutant of ListedAfterSave: saveMovieDetail without its last line
NotListedAfterSave == "stale"

\* The saved entry goes into the list's copy.
ListedAfterSave == "current"

\* enter: saveMovieDetail writes the whole entry as the screen shows it, then
\* the list is read again.  Nothing is saved when no movie is selected, as
\* after a restart on this screen.
SaveDetail ==
  /\ route = "movie_detail" /\ opened # None
  /\ IF opened = "watched"
     THEN written' = TRUE /\ shown' = "current" /\ RefreshFrom(ListedAfterSave, TRUE)
     ELSE refreshMovies /\ UNCHANGED <<written, shown>>
  /\ UNCHANGED <<backupVars, route, searchFocused, authVars, offline, backupLoading, formVars, opened>>

(***************************************************************************)
(* Login and logout.                                                       *)
(***************************************************************************)

\* enter on the last field; the registration does not ask for the session.
SubmitLogin ==
  /\ route = "register" \/ (route = "login" /\ ~session)
  /\ ~authLoading /\ logins < MaxLogins
  /\ authLoading' = TRUE /\ logins' = logins + 1
  /\ UNCHANGED <<backupVars, route, searchFocused, session, offline, backupLoading,
                 formVars, listed, detailVars>>

\* d on the login screen or in the settings
Logout ==
  /\ session
  /\ (route = "login" /\ ~authLoading) \/ (route = "settings" /\ ~backupLoading)
  /\ session' = FALSE
  /\ UNCHANGED <<backupVars, route, searchFocused, authLoading, logins, offline, backupLoading,
                 formVars, listed, detailVars>>

AuthFails ==
  /\ logins > 0 /\ logins' = logins - 1 /\ authLoading' = FALSE
  /\ UNCHANGED <<backupVars, route, searchFocused, session, offline, backupLoading,
                 formVars, listed, detailVars>>

\* A session, whatever the user did meanwhile: the main menu takes the screen.
AuthSucceeds ==
  /\ logins > 0 /\ logins' = logins - 1
  /\ session' = TRUE /\ offline' = FALSE
  /\ goTo("main_menu") /\ LeaveDetail
  /\ abandoned' = (abandoned \/ tmdbSearching)
  /\ UNCHANGED <<backupVars, backupLoading, formMode, tmdbSearching, searches, results, external>>

handleAuthResult == AuthFails \/ AuthSucceeds

(***************************************************************************)
(* The settings.                                                           *)
(***************************************************************************)

\* Mutant of SettingsKeys: keys are taken during a backup.
SettingsKeysAlways == route = "settings"

SettingsKeys == route = "settings" /\ ~backupLoading

\* o
ToggleOffline ==
  /\ SettingsKeys /\ offline' = ~offline
  /\ UNCHANGED <<backupVars, route, searchFocused, authVars, backupLoading, formVars, listed, detailVars>>

\* e writes the backup to the server, i reads it from there.
StartBackup ==
  /\ SettingsKeys /\ session /\ ~offline
  /\ backupLoading' = TRUE
  /\ StartPut \/ StartGet
  /\ UNCHANGED <<route, searchFocused, authVars, offline, formVars, listed, detailVars>>

\* The default configuration is offline; a snapshot of this interface is not,
\* since it is sent only online.
OfflineIn(content) == content = Blank

\* handleBackupResult: a snapshot that was read is applied, whatever the
\* screen and the session are by now.
handleBackupResult ==
  /\ \E t \in transfers :
       /\ EndTransfer(t)
       /\ IF t.pc = "answered" /\ t.kind = "get"
          THEN offline' = OfflineIn(t.got) ELSE UNCHANGED offline
  /\ backupLoading' = FALSE
  /\ UNCHANGED <<route, searchFocused, authVars, formVars, listed, detailVars>>

(***************************************************************************)
(* The next start of the program: the route and the settings are read from *)
(* disk, the session may not be restored, all else begins anew.            *)
(***************************************************************************)

Restart ==
  /\ DropTransfers
  /\ session' \in {session, FALSE}
  /\ searchFocused' = FALSE /\ authLoading' = FALSE /\ logins' = 0 /\ backupLoading' = FALSE
  /\ formMode' = "manual" /\ tmdbSearching' = FALSE /\ searches' = {} /\ results' = None
  /\ external' = None /\ abandoned' = FALSE
  /\ opened' = None /\ shown' = "current"
  /\ listed' \in Reading(written)
  /\ UNCHANGED <<route, offline, written>>

Init ==
  /\ BackupsInit
  /\ route = "splash" /\ searchFocused = FALSE
  /\ session \in BOOLEAN /\ offline \in BOOLEAN
  /\ authLoading = FALSE /\ logins = 0 /\ backupLoading = FALSE
  /\ formMode = "manual" /\ tmdbSearching = FALSE /\ searches = {} /\ results = None
  /\ external = None /\ abandoned = FALSE
  /\ written = FALSE /\ listed = "current" /\ opened = None /\ shown = "current"

Screens == PressEsc \/ PressEnter \/ PressShortcut \/ CloseConflicts \/ ToRegister

Movies ==
  \/ RefreshList \/ FocusSearch \/ DeleteMovie \/ OpenDetail \/ SaveDetail
  \/ AddMovie \/ enterTMDBSearch \/ LeaveSearch \/ SearchTMDB \/ applyTMDBSelection
  \/ CreateMovie

Server ==
  /\ BackupStep
  /\ UNCHANGED <<route, searchFocused, authVars, offline, backupLoading, formVars, listed, detailVars>>

Next ==
  \/ Screens \/ Movies \/ SubmitLogin \/ Logout \/ ToggleOffline \/ StartBackup
  \/ handleAuthResult \/ handleTMDBSearchResult \/ handleBackupResult
  \/ Server \/ Restart

Spec == Init /\ [][Next]_vars

(***************************************************************************)
(* Properties.                                                             *)
(***************************************************************************)

\* A screen that says it is waiting waits for something, although the user may
\* leave it, log out and come back meanwhile, and a backup keeps the settings
\* locked exactly as long as its one request runs (tui/model.go:557, 647, 937).
SpinnersAreHonest ==
  /\ Cardinality(transfers) = IF backupLoading THEN 1 ELSE 0
  /\ authLoading => logins > 0 /\ route \in {"login", "register"}
  /\ tmdbSearching => "last" \in searches

\* The results on offer and the id a new movie will carry come from the last
\* search of this visit of the form, unless a login took the screen away
\* during a search (tui/tmdb.go:145, tui/model.go:1075).
FormDataIsFresh == results = "old" \/ external = "before" => abandoned

\* The detail never shows, and so never saves over, a state of the entry older
\* than the user's own last save; only an entry whose read failed is shown empty
\* (tui/model.go:1114, 1181).
OwnEntryKept == shown # "stale"
=============================================================================
