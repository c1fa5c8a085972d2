-------------------------- MODULE TuiScreensProofs --------------------------
(***************************************************************************)
(* Proofs about the screens and the backups they start.  ScreensInv, the   *)
(* conjunction of five parts, is inductive; the part about the backup row  *)
(* needs that one transfer runs at a time, which the lock of the settings  *)
(* gives.                                                                  *)
(***************************************************************************)
EXTENDS TuiScreens, FiniteSetTheorems, TLAPS

\* The server holds snapshot n, configuration and state.
Holds(n) == row = [config |-> n, state |-> n]

\* An acknowledged snapshot is on the server until a later PUT is answered;
\* while nobody disturbs the row, no PUT is late and an answered one is stored.
BackupInv ==
  /\ BackupsTypeOK
  /\ \A t \in Puts : t.snap # Blank
  /\ ~disturbed => late = {}
  /\ ~disturbed => \A t \in Puts : t.pc = "answered" => Holds(t.snap)
  /\ acked # Blank => ~disturbed
  /\ acked # Blank => Holds(acked) \/ \E t \in Puts : t.pc = "answered" /\ Holds(t.snap)

\* The settings are locked exactly while a transfer runs, and one at a time.
LockInv ==
  /\ transfers = {} <=> ~backupLoading
  /\ \A t, u \in transfers : t = u

\* The other variables have their types.
ScreenTypes ==
  /\ route \in Routes
  /\ searchFocused \in BOOLEAN /\ session \in BOOLEAN /\ offline \in BOOLEAN
  /\ authLoading \in BOOLEAN /\ logins \in 0 .. MaxLogins
  /\ backupLoading \in BOOLEAN
  /\ formMode \in {"manual", "search"} /\ tmdbSearching \in BOOLEAN
  /\ searches \subseteq Ages /\ results \in Ages \cup {None}
  /\ external \in {"now", "before", None} /\ abandoned \in BOOLEAN
  /\ written \in BOOLEAN /\ listed \in Copies /\ shown \in Copies
  /\ opened \in {"watched", "other", None}

\* Who waits for a login is on its screen and has a command in flight.
WaitInv == authLoading => logins > 0 /\ route \in {"login", "register"}

\* Searches other than the one the form waits for are left over from a form
\* that a login took away.
FormInv ==
  /\ tmdbSearching => "last" \in searches
  /\ tmdbSearching => abandoned \/ (route = "movie_form" /\ formMode = "search")
  /\ "last" \in searches => tmdbSearching \/ abandoned
  /\ "old" \in searches => abandoned
  /\ results = "old" \/ external = "before" => abandoned

\* No copy of the watched entry is older than the stored one.
CopyInv == listed # "stale" /\ shown # "stale"

ScreensInv == BackupInv /\ LockInv /\ ScreenTypes /\ WaitInv /\ FormInv /\ CopyInv

(***************************************************************************)
(* The backup row.                                                         *)
(***************************************************************************)

\* New transfers and snapshots have their types.
LEMMA TransferFacts ==
  /\ BlankRow \in Rows /\ Blank \in Contents
  /\ FailedTransfer \in Transfers /\ FailedTransfer.kind = "get" /\ FailedTransfer.pc = "failed"
  /\ \A kind \in {"put", "get"}, n \in 0 .. MaxSnapshots :
       /\ NewTransfer(kind, n) \in Transfers
       /\ NewTransfer(kind, n).kind = kind /\ NewTransfer(kind, n).pc = "sent"
       /\ NewTransfer(kind, n).snap = n
  /\ \A n \in Contents : UpsertFull(n) \in Rows
BY BackupsAssumption DEF BlankRow, Blank, Contents, Rows, FailedTransfer, NewTransfer,
     Transfers, UpsertFull

\* The server's import of a PUT stores the whole snapshot.
LEMMA ImportSnapshotKeeps ==
  ASSUME BackupInv, LockInv, NEW t \in transfers, ImportSnapshot(t)
  PROVE  BackupInv'
<1> DEFINE u == [t EXCEPT !.pc = "answered"]
<1>1. t \in Transfers /\ t.kind = "put" /\ t \in Puts /\ t.snap \in Contents /\ t.snap # Blank
  BY DEF BackupInv, BackupsTypeOK, Transfers, ImportSnapshot, Puts, Contents
<1>2. u \in Transfers /\ u.snap = t.snap /\ u.kind = "put" /\ u.pc = "answered"
  BY <1>1 DEF Transfers
<1>3. transfers' = {u}
  BY DEF ImportSnapshot, Becomes, LockInv
<1>4. Puts' = {u}
  BY <1>2, <1>3 DEF Puts
<1>5. Holds(t.snap)' /\ row' \in Rows
  BY <1>1, TransferFacts DEF ImportSnapshot, UpsertFull, Holds
<1> HIDE DEF u
<1>6. BackupsTypeOK'
  BY <1>2, <1>3, <1>5 DEF BackupInv, BackupsTypeOK, ImportSnapshot
<1> QED BY <1>1, <1>2, <1>4, <1>5, <1>6 DEF BackupInv, ImportSnapshot, Holds

\* Steps that end a request at the server without storing anything.
LEMMA AnswerKeeps ==
  ASSUME BackupInv, LockInv, NEW t \in transfers, ExportSnapshot(t) \/ Refuse(t)
  PROVE  BackupInv'
<1>1. PICK u \in Transfers : transfers' = {u} /\ u.kind = "get"
  <2>1. CASE ExportSnapshot(t)
    <3> DEFINE v == [t EXCEPT !.pc = "answered", !.got = row.config]
    <3>1. t \in Transfers /\ row.config \in Contents
      BY DEF BackupInv, BackupsTypeOK, Rows
    <3>2. v \in Transfers /\ v.kind = "get"
      BY <2>1, <3>1 DEF Transfers, ExportSnapshot
    <3>3. transfers' = {v}
      BY <2>1 DEF ExportSnapshot, Becomes, LockInv
    <3> QED BY <3>2, <3>3
  <2>2. CASE Refuse(t)
    BY <2>2, TransferFacts DEF Refuse, Becomes, LockInv
  <2> QED BY <2>1, <2>2
<1>2. Puts' = {}
  BY <1>1 DEF Puts
<1>3. t.pc = "sent" /\ UNCHANGED <<row, snapshots, late, acked, disturbed>>
  BY DEF ExportSnapshot, Refuse
<1>4. \A p \in Puts : p = t
  BY DEF LockInv, Puts
<1> QED BY <1>1, <1>2, <1>3, <1>4 DEF BackupInv, BackupsTypeOK, Holds

\* Whoever else writes the row, disturbs it.
LEMMA OthersKeep ==
  ASSUME BackupInv, LateImport \/ ImportByOther
  PROVE  BackupInv'
<1>1. disturbed' = TRUE /\ acked' = Blank /\ UNCHANGED <<transfers, snapshots>> /\ Puts' = Puts
  BY DEF LateImport, ImportByOther, Disturb, Puts
<1>2. row' \in Rows /\ late' \subseteq late
  <2>1. CASE LateImport
    <3>1. \A n \in late : n \in Contents
      BY DEF BackupInv, BackupsTypeOK, Contents
    <3> QED BY <2>1, <3>1, TransferFacts DEF LateImport
  <2>2. CASE ImportByOther
    <3>1. row \in Rows
      BY DEF BackupInv, BackupsTypeOK
    <3> QED BY <2>2, <3>1, TransferFacts DEF ImportByOther, UpsertConfig, UpsertState, Rows
  <2> QED BY <2>1, <2>2
<1>3. BackupsTypeOK'
  BY <1>1, <1>2, BackupsAssumption DEF BackupInv, BackupsTypeOK, Blank
<1> QED BY <1>1, <1>3 DEF BackupInv

\* A request that is lost leaves at most its own snapshot late.
LEMMA OrphanFacts ==
  ASSUME BackupInv, NEW lost \in SUBSET transfers
  PROVE  /\ Orphans(lost) \subseteq 1 .. MaxSnapshots
         /\ lost \cap Puts = {} => Orphans(lost) = {}
<1>1. \A t \in Puts : t.snap \in 1 .. MaxSnapshots
  BY BackupsAssumption DEF BackupInv, BackupsTypeOK, Transfers, Puts, Blank
<1> QED BY <1>1 DEF Orphans

\* The client gives a request up, or the program ends.
LEMMA LoseKeeps ==
  ASSUME BackupInv, LockInv, NEW lost \in SUBSET transfers, Lose(lost),
         transfers' \in SUBSET {FailedTransfer}, transfers # {} => lost = transfers
  PROVE  BackupInv'
<1>1. Puts' = {}
  BY TransferFacts DEF Puts
<1>2. BackupsTypeOK'
  <2>1. Orphans(lost) \subseteq 1 .. MaxSnapshots
    BY OrphanFacts, Zenon
  <2>2. acked' \in 0 .. MaxSnapshots /\ disturbed' \in BOOLEAN
    <3>1. acked \in 0 .. MaxSnapshots /\ disturbed \in BOOLEAN
      BY DEF BackupInv, BackupsTypeOK
    <3>2. (acked' = acked /\ disturbed' = disturbed) \/ (acked' = 0 /\ disturbed' = TRUE)
      BY DEF Lose, Disturb, Blank
    <3>3. 0 \in 0 .. MaxSnapshots
      BY BackupsAssumption
    <3> QED BY <3>1, <3>2, <3>3, Zenon
  <2>3. transfers' \subseteq Transfers
    BY TransferFacts
  <2> QED BY <2>1, <2>2, <2>3 DEF BackupInv, BackupsTypeOK, Lose
<1>3. CASE lost \cap Puts = {}
  <2>1. Puts = {}
    BY <1>3 DEF Puts
  <2>2. UNCHANGED <<row, snapshots, late, acked, disturbed>>
    BY <1>3, OrphanFacts DEF Lose
  <2> QED BY <1>1, <1>2, <2>1, <2>2 DEF BackupInv, Holds
<1>4. CASE lost \cap Puts # {}
  BY <1>1, <1>2, <1>4 DEF BackupInv, Lose, Disturb
<1> QED BY <1>3, <1>4

\* A transfer is started while none runs.
LEMMA StartKeeps ==
  ASSUME BackupInv, transfers = {}, StartPut \/ StartGet
  PROVE  /\ BackupInv'
         /\ \E t : transfers' = {t}
<1>1. UNCHANGED <<row, late, acked, disturbed>>
  BY DEF StartPut, StartGet
<1>2. PICK t \in Transfers : transfers' = {t} /\ t.pc = "sent" /\ (t.kind = "put" => t.snap # Blank)
  <2>1. CASE StartPut
    <3>1. snapshots + 1 \in 0 .. MaxSnapshots /\ snapshots + 1 # Blank
      BY <2>1, BackupsAssumption DEF StartPut, BackupInv, BackupsTypeOK, Blank
    <3> QED BY <2>1, <3>1, TransferFacts DEF StartPut
  <2>2. CASE StartGet
    BY <2>2, TransferFacts, BackupsAssumption DEF StartGet, Blank
  <2> QED BY <2>1, <2>2
<1>3. \A p \in Puts' : p = t
  BY <1>2 DEF Puts
<1>4. snapshots' \in 0 .. MaxSnapshots
  BY BackupsAssumption DEF StartPut, StartGet, BackupInv, BackupsTypeOK
<1>5. BackupsTypeOK'
  BY <1>1, <1>2, <1>4 DEF BackupInv, BackupsTypeOK
<1>6. Puts = {}
  BY DEF Puts
<1>7. \A p \in Puts' : p.pc # "answered" /\ p.snap # Blank
  BY <1>2, <1>3 DEF Puts
<1> QED BY <1>1, <1>2, <1>5, <1>6, <1>7 DEF BackupInv, Holds

\* A result reaches the interface: what it acknowledges is stored.
LEMMA EndKeeps ==
  ASSUME BackupInv, LockInv, NEW t \in transfers, EndTransfer(t)
  PROVE  BackupInv' /\ transfers' = {}
<1>1. transfers' = {} /\ Puts' = {}
  BY DEF EndTransfer, LockInv, Puts
<1>2. t \in Transfers /\ t.pc # "sent"
  BY DEF BackupInv, BackupsTypeOK, EndTransfer
<1>3. BackupsTypeOK'
  BY <1>1, <1>2 DEF BackupInv, BackupsTypeOK, EndTransfer, Transfers
<1>4. UNCHANGED <<row, late, disturbed>>
  BY DEF EndTransfer
<1>5. \A p \in Puts : p = t
  BY DEF LockInv, Puts
<1>6. CASE t.pc = "answered" /\ t.kind = "put" /\ ~disturbed
  <2>1. acked' = t.snap /\ Holds(t.snap)
    BY <1>6 DEF EndTransfer, BackupInv, Puts
  <2> QED BY <1>1, <1>3, <1>4, <1>6, <2>1 DEF BackupInv, Holds
<1>7. CASE ~(t.pc = "answered" /\ t.kind = "put" /\ ~disturbed)
  <2>1. acked' = acked
    BY <1>7 DEF EndTransfer
  <2>2. acked # Blank => ~\E p \in Puts : p.pc = "answered"
    BY <1>5, <1>7 DEF BackupInv, Puts
  <2> QED BY <1>1, <1>3, <1>4, <2>1, <2>2 DEF BackupInv, Holds
<1> QED BY <1>6, <1>7

(***************************************************************************)
(* The screens.                                                            *)
(***************************************************************************)

\* The steps that read the list leave it current or unread, but never older
\* than what is stored, if it was not before.
LEMMA RefreshFacts ==
  ASSUME NEW copy \in Copies, NEW stored \in BOOLEAN, RefreshFrom(copy, stored)
  PROVE  listed' \in Copies /\ (copy # "stale" => listed' # "stale")
BY DEF RefreshFrom, Reading, Copies

\* Every change of screen.
LEMMA GoToFacts ==
  ASSUME ScreenTypes, CopyInv, NEW r, goTo(r)
  PROVE  /\ route' = r /\ searchFocused' = FALSE /\ authLoading' = FALSE
         /\ listed' \in Copies /\ listed' # "stale"
BY RefreshFacts DEF goTo, refreshMovies, ScreenTypes, CopyInv

\* A step that shows a screen and, by itself, touches nothing else; the form
\* is left only when no search is under way.
LEMMA ShowKeeps ==
  ASSUME ScreensInv, NEW r \in Routes, Show(r), ~(route = "movie_form" /\ formMode = "search")
  PROVE  ScreensInv'
<1>1. route' = r /\ searchFocused' = FALSE /\ authLoading' = FALSE
      /\ listed' \in Copies /\ listed' # "stale"
  BY GoToFacts DEF Show, ScreensInv
<1>2. UNCHANGED <<backupVars, session, logins, offline, backupLoading, formVars, written>>
      /\ opened' = None /\ shown' = "current"
  BY DEF Show, LeaveDetail
<1>3. ScreenTypes'
  BY <1>1, <1>2 DEF ScreensInv, ScreenTypes, formVars, Copies
<1>4. BackupInv' /\ LockInv'
  BY <1>2 DEF ScreensInv, BackupInv, BackupsTypeOK, Puts, Holds, LockInv, backupVars
<1>5. WaitInv' /\ CopyInv' /\ FormInv'
  BY <1>1, <1>2 DEF ScreensInv, WaitInv, CopyInv, FormInv, formVars
<1> QED BY <1>3, <1>4, <1>5 DEF ScreensInv

\* What leaves the backups alone keeps what is said of them.
LEMMA BackupUnchanged ==
  ASSUME BackupInv, LockInv, UNCHANGED <<backupVars, backupLoading>>
  PROVE  BackupInv' /\ LockInv'
BY DEF BackupInv, BackupsTypeOK, Puts, Holds, LockInv, backupVars

\* Moving between screens.
LEMMA ScreensKeep ==
  ASSUME ScreensInv, Screens
  PROVE  ScreensInv'
<1>1. CASE PressEsc
  <2>1. EscTarget \in Routes
    BY <1>1 DEF PressEsc, EscTarget, Routes
  <2> QED BY <1>1, <2>1, ShowKeeps DEF PressEsc
<1>2. CASE PressEnter
  BY <1>2, ShowKeeps DEF PressEnter, Routes, MenuRoutes
<1>3. CASE PressShortcut
  BY <1>3, ShowKeeps DEF PressShortcut, Shortcuts, Routes
<1>4. CASE CloseConflicts
  BY <1>4, ShowKeeps DEF CloseConflicts, Routes
<1>5. CASE ToRegister
  BY <1>5, ShowKeeps DEF ToRegister, Routes
<1> QED BY <1>1, <1>2, <1>3, <1>4, <1>5 DEF Screens

\* The list, the form and the detail; none of their keys touches a backup or
\* a login.
LEMMA MoviesKeep ==
  ASSUME ScreensInv, Movies
  PROVE  ScreensInv'
<1>0. BackupInv /\ LockInv /\ ScreenTypes /\ WaitInv /\ FormInv /\ CopyInv
  BY DEF ScreensInv
<1>1. CASE RefreshList \/ FocusSearch \/ DeleteMovie
  <2>1. UNCHANGED <<backupVars, route, authVars, offline, backupLoading, formVars, opened, shown>>
    BY <1>1 DEF RefreshList, Reread, FocusSearch, DeleteMovie, detailVars
  <2>2. searchFocused' \in BOOLEAN /\ written' \in BOOLEAN
    BY <1>0, <1>1 DEF RefreshList, Reread, FocusSearch, DeleteMovie, detailVars, ScreenTypes
  <2>3. listed' \in Copies /\ listed' # "stale"
    <3>1. CASE RefreshList
      BY <1>0, <3>1, RefreshFacts DEF RefreshList, Reread, refreshMovies, ScreenTypes, CopyInv
    <3>2. CASE FocusSearch
      BY <1>0, <3>2 DEF FocusSearch, ScreenTypes, CopyInv
    <3>3. CASE DeleteMovie
      <4> DEFINE copy == IF written' THEN listed ELSE "current"
      <4>1. copy \in Copies /\ copy # "stale"
        BY <1>0 DEF ScreenTypes, CopyInv, Copies
      <4>2. RefreshFrom(copy, written')
        BY <3>3 DEF DeleteMovie
      <4> QED BY <4>1, <4>2 DEF RefreshFrom, Reading, Copies
    <3> QED BY <1>1, <3>1, <3>2, <3>3
  <2>4. ScreenTypes'
    BY <1>0, <2>1, <2>2, <2>3 DEF ScreenTypes, authVars, formVars
  <2>5. WaitInv' /\ FormInv' /\ CopyInv'
    BY <1>0, <2>1, <2>3 DEF WaitInv, FormInv, CopyInv, authVars, formVars
  <2> QED BY <1>0, <2>1, <2>4, <2>5, BackupUnchanged DEF ScreensInv
<1>2. CASE OpenDetail \/ CreateMovie
  <2>1. /\ UNCHANGED <<backupVars, session, logins, offline, backupLoading, formVars, written>>
        /\ route' = "movie_detail" /\ searchFocused' = FALSE /\ authLoading' = FALSE
        /\ ~(route = "movie_form" /\ formMode = "search")
    BY <1>2 DEF OpenDetail, OnList, CreateMovie, goTo
  <2>2. listed' \in Copies /\ listed' # "stale"
    BY <1>0, <1>2, GoToFacts, RefreshFacts DEF OpenDetail, CreateMovie, refreshMovies, ScreenTypes, CopyInv
  <2>3. opened' \in {"watched", "other", None} /\ shown' \in Copies /\ shown' # "stale"
    BY <1>0, <1>2 DEF OpenDetail, CreateMovie, openMovieDetail, ScreenTypes, CopyInv, Copies
  <2>4. ScreenTypes'
    BY <1>0, <2>1, <2>2, <2>3 DEF ScreenTypes, formVars, Routes
  <2>5. WaitInv' /\ FormInv' /\ CopyInv'
    BY <1>0, <2>1, <2>2, <2>3 DEF WaitInv, FormInv, CopyInv, formVars
  <2> QED BY <1>0, <2>1, <2>4, <2>5, BackupUnchanged DEF ScreensInv
<1>3. CASE SaveDetail
  <2>1. UNCHANGED <<backupVars, route, searchFocused, authVars, offline, backupLoading, formVars, opened>>
    BY <1>3 DEF SaveDetail
  <2>2. written' \in BOOLEAN /\ shown' \in Copies /\ shown' # "stale"
    BY <1>0, <1>3 DEF SaveDetail, ScreenTypes, CopyInv, Copies
  <2>3. listed' \in Copies /\ listed' # "stale"
    BY <1>0, <1>3, RefreshFacts DEF SaveDetail, ListedAfterSave, refreshMovies, ScreenTypes, CopyInv, Copies
  <2>4. ScreenTypes'
    BY <1>0, <2>1, <2>2, <2>3 DEF ScreenTypes, authVars, formVars
  <2>5. WaitInv' /\ FormInv' /\ CopyInv'
    BY <1>0, <2>1, <2>2, <2>3 DEF WaitInv, FormInv, CopyInv, authVars, formVars
  <2> QED BY <1>0, <2>1, <2>4, <2>5, BackupUnchanged DEF ScreensInv
<1>4. CASE AddMovie
  <2>1. /\ UNCHANGED <<backupVars, session, logins, offline, backupLoading, abandoned, detailVars>>
        /\ route = "movie_list" /\ route' = "movie_form"
        /\ searchFocused' = FALSE /\ authLoading' = FALSE
        /\ external' = None /\ formMode' = "manual" /\ results' = None /\ tmdbSearching' = FALSE
        /\ searches' = (IF searches = {} THEN {} ELSE {"old"})
    BY <1>4 DEF AddMovie, KeptExternal, goTo, OnList
  <2>2. listed' \in Copies /\ listed' # "stale"
    BY <1>0, <1>4, GoToFacts DEF AddMovie
  <2>3. searches # {} => abandoned
    BY <1>0, <2>1 DEF FormInv, ScreenTypes, Ages
  <2>4. ScreenTypes'
    BY <1>0, <2>1, <2>2 DEF ScreenTypes, detailVars, Routes, Ages
  <2>5. FormInv'
    BY <1>0, <2>1, <2>3, TuiScreensAssumption DEF FormInv
  <2>6. WaitInv' /\ CopyInv'
    BY <1>0, <2>1, <2>2 DEF WaitInv, CopyInv, detailVars
  <2> QED BY <1>0, <2>1, <2>4, <2>5, <2>6, BackupUnchanged DEF ScreensInv
<1>5. CASE enterTMDBSearch \/ LeaveSearch \/ SearchTMDB \/ applyTMDBSelection
  <2>1. UNCHANGED <<backupVars, route, searchFocused, authVars, offline, backupLoading,
                    abandoned, listed, detailVars>> /\ route = "movie_form"
    BY <1>5 DEF enterTMDBSearch, LeaveSearch, SearchTMDB, applyTMDBSelection, FormKey
  <2>2. WaitInv' /\ CopyInv'
    BY <1>0, <2>1 DEF WaitInv, CopyInv, authVars, detailVars
  <2>3. ScreenTypes' /\ FormInv'
    <3>1. CASE enterTMDBSearch
      BY <1>0, <2>1, <3>1, TuiScreensAssumption
         DEF enterTMDBSearch, ScreenTypes, FormInv, authVars, detailVars
    <3>2. CASE LeaveSearch
      BY <1>0, <2>1, <3>2, TuiScreensAssumption
         DEF LeaveSearch, SearchKeys, ScreenTypes, FormInv, authVars, detailVars
    <3>3. CASE SearchTMDB
      <4>1. searches = {} \/ abandoned
        BY <1>0, <3>3 DEF SearchTMDB, SearchKeys, FormInv, ScreenTypes, Ages
      <4> QED BY <1>0, <2>1, <3>3, <4>1
              DEF SearchTMDB, SearchKeys, ScreenTypes, FormInv, Ages, authVars, detailVars
    <3>4. CASE applyTMDBSelection
      BY <1>0, <2>1, <3>4, TuiScreensAssumption
         DEF applyTMDBSelection, SearchKeys, ScreenTypes, FormInv, Ages, authVars, detailVars
    <3> QED BY <1>5, <3>1, <3>2, <3>3, <3>4
  <2> QED BY <1>0, <2>1, <2>2, <2>3, BackupUnchanged DEF ScreensInv
<1> QED BY <1>1, <1>2, <1>3, <1>4, <1>5 DEF Movies

\* Logins, logouts and the settings.
LEMMA SessionsKeep ==
  ASSUME ScreensInv, SubmitLogin \/ Logout \/ ToggleOffline \/ handleAuthResult
  PROVE  ScreensInv'
<1>0. BackupInv /\ LockInv /\ ScreenTypes /\ WaitInv /\ FormInv /\ CopyInv
  BY DEF ScreensInv
<1>1. CASE AuthSucceeds
  <2>1. /\ UNCHANGED <<backupVars, backupLoading, formMode, tmdbSearching, searches, results,
                       external, written>>
        /\ route' = "main_menu" /\ searchFocused' = FALSE /\ authLoading' = FALSE
        /\ session' = TRUE /\ offline' = FALSE /\ logins > 0 /\ logins' = logins - 1
        /\ opened' = None /\ shown' = "current"
        /\ abandoned' = (abandoned \/ tmdbSearching)
    BY <1>1 DEF AuthSucceeds, goTo, LeaveDetail
  <2>2. listed' \in Copies /\ listed' # "stale"
    BY <1>0, <1>1, GoToFacts DEF AuthSucceeds
  <2>3. ScreenTypes'
    <3>1. logins' \in 0 .. MaxLogins
      BY <1>0, <2>1, TuiScreensAssumption DEF ScreenTypes
    <3>2. abandoned' \in BOOLEAN
      BY <2>1
    <3> QED BY <1>0, <2>1, <2>2, <3>1, <3>2 DEF ScreenTypes, Routes, Copies
  <2>4. WaitInv' /\ FormInv' /\ CopyInv'
    BY <1>0, <2>1, <2>2 DEF WaitInv, FormInv, CopyInv
  <2> QED BY <1>0, <2>1, <2>3, <2>4, BackupUnchanged DEF ScreensInv
<1>2. CASE SubmitLogin \/ Logout \/ ToggleOffline \/ AuthFails
  <2>1. UNCHANGED <<backupVars, route, searchFocused, backupLoading, formVars, listed, detailVars>>
    BY <1>2 DEF SubmitLogin, Logout, ToggleOffline, AuthFails
  <2>2. /\ session' \in BOOLEAN /\ offline' \in BOOLEAN
        /\ authLoading' \in BOOLEAN /\ logins' \in 0 .. MaxLogins
    <3>1. CASE SubmitLogin
      <4>1. logins' \in 0 .. MaxLogins
        BY <1>0, <3>1, TuiScreensAssumption DEF SubmitLogin, ScreenTypes
      <4> QED BY <1>0, <3>1, <4>1 DEF SubmitLogin, ScreenTypes
    <3>2. CASE Logout \/ ToggleOffline
      BY <1>0, <3>2 DEF Logout, ToggleOffline, ScreenTypes, authVars
    <3>3. CASE AuthFails
      <4>1. logins' \in 0 .. MaxLogins
        BY <1>0, <3>3, TuiScreensAssumption DEF AuthFails, ScreenTypes
      <4> QED BY <1>0, <3>3, <4>1 DEF AuthFails, ScreenTypes
    <3> QED BY <1>2, <3>1, <3>2, <3>3
  <2>3. ScreenTypes'
    BY <1>0, <2>1, <2>2 DEF ScreenTypes, formVars, detailVars
  <2>4. FormInv' /\ CopyInv'
    BY <1>0, <2>1 DEF FormInv, CopyInv, formVars, detailVars
  <2>5. WaitInv'
    <3>1. CASE SubmitLogin
      <4>1. logins' > 0 /\ route' \in {"login", "register"}
        BY <1>0, <3>1, TuiScreensAssumption DEF SubmitLogin, ScreenTypes
      <4> QED BY <4>1 DEF WaitInv
    <3>2. CASE Logout \/ ToggleOffline
      BY <1>0, <3>2 DEF Logout, ToggleOffline, WaitInv, authVars
    <3>3. CASE AuthFails
      BY <3>3 DEF AuthFails, WaitInv
    <3> QED BY <1>2, <3>1, <3>2, <3>3
  <2> QED BY <1>0, <2>1, <2>3, <2>4, <2>5, BackupUnchanged DEF ScreensInv
<1> QED BY <1>1, <1>2 DEF handleAuthResult

\* The start and the end of a backup, and what the server does meanwhile.
LEMMA BackupsKeep ==
  ASSUME ScreensInv, StartBackup \/ handleBackupResult \/ Server
  PROVE  ScreensInv'
<1>0. BackupInv /\ LockInv /\ ScreenTypes /\ WaitInv /\ FormInv /\ CopyInv
  BY DEF ScreensInv
<1>1. UNCHANGED <<route, searchFocused, authVars, formVars, listed, detailVars>>
  BY DEF StartBackup, handleBackupResult, Server
<1>2. offline' \in BOOLEAN /\ backupLoading' \in BOOLEAN
  BY <1>0 DEF StartBackup, handleBackupResult, Server, OfflineIn, ScreenTypes
<1>3. ScreenTypes' /\ WaitInv' /\ FormInv' /\ CopyInv'
  BY <1>0, <1>1, <1>2
     DEF ScreenTypes, WaitInv, FormInv, CopyInv, authVars, formVars, detailVars
<1>4. BackupInv' /\ LockInv'
  <2>1. CASE StartBackup
    <3>1. transfers = {} /\ backupLoading' = TRUE
      BY <1>0, <2>1 DEF StartBackup, SettingsKeys, LockInv, ScreenTypes
    <3>2. BackupInv' /\ \E t : transfers' = {t}
      BY <1>0, <2>1, <3>1, StartKeeps DEF StartBackup
    <3> QED BY <3>1, <3>2 DEF LockInv
  <2>2. CASE handleBackupResult
    <3>1. PICK t \in transfers : EndTransfer(t)
      BY <2>2 DEF handleBackupResult
    <3>2. BackupInv' /\ transfers' = {}
      BY <1>0, <3>1, EndKeeps
    <3>3. backupLoading' = FALSE
      BY <2>2 DEF handleBackupResult
    <3> QED BY <3>2, <3>3 DEF LockInv
  <2>3. CASE Server
    <3>1. backupLoading' = backupLoading
      BY <2>3 DEF Server
    <3>2. CASE LateImport \/ ImportByOther
      <4>1. transfers' = transfers
        BY <3>2 DEF LateImport, ImportByOther
      <4> QED BY <1>0, <3>1, <3>2, <4>1, OthersKeep DEF LockInv
    <3>3. CASE \E t \in transfers :
                 ImportSnapshot(t) \/ ExportSnapshot(t) \/ Refuse(t) \/ GiveUp(t)
      <4>1. PICK t \in transfers :
                 ImportSnapshot(t) \/ ExportSnapshot(t) \/ Refuse(t) \/ GiveUp(t)
        BY <3>3
      <4>2. transfers = {t}
        BY <1>0 DEF LockInv
      <4>3. \E u : transfers' = {u}
        BY <4>1, <4>2 DEF ImportSnapshot, ExportSnapshot, Refuse, GiveUp, Becomes
      <4>4. LockInv'
        BY <1>0, <3>1, <4>2, <4>3 DEF LockInv
      <4>5. CASE GiveUp(t)
        <5>1. Lose({t}) /\ transfers' = {FailedTransfer}
          BY <4>2, <4>5 DEF GiveUp, Becomes
        <5>2. BackupInv'
          BY <1>0, <4>2, <5>1, LoseKeeps
        <5> QED BY <4>4, <5>2
      <4>6. CASE ImportSnapshot(t) \/ ExportSnapshot(t) \/ Refuse(t)
        BY <1>0, <4>4, <4>6, ImportSnapshotKeeps, AnswerKeeps
      <4> QED BY <4>1, <4>5, <4>6
    <3> QED BY <2>3, <3>2, <3>3 DEF Server, BackupStep
  <2> QED BY <2>1, <2>2, <2>3
<1> QED BY <1>3, <1>4 DEF ScreensInv

\* A search that ends, whoever asked.
LEMMA SearchResultKeeps ==
  ASSUME ScreensInv, handleTMDBSearchResult
  PROVE  ScreensInv'
<1>0. BackupInv /\ LockInv /\ ScreenTypes /\ WaitInv /\ FormInv /\ CopyInv
  BY DEF ScreensInv
<1>1. UNCHANGED <<backupVars, route, searchFocused, authVars, offline, backupLoading,
                  formMode, external, abandoned, listed, detailVars>> /\ tmdbSearching' = FALSE
  BY DEF handleTMDBSearchResult
<1>2. PICK s \in searches : searches' = searches \ {s} /\ results' \in {results, None, s}
  BY DEF handleTMDBSearchResult, SearchMovies
<1>3. s \in Ages
  BY <1>0 DEF ScreenTypes
<1>4. ScreenTypes'
  <2>1. searches' \subseteq Ages /\ results' \in Ages \cup {None}
    BY <1>0, <1>2, <1>3 DEF ScreenTypes
  <2> QED BY <1>0, <1>1, <2>1 DEF ScreenTypes, authVars, detailVars
<1>5. FormInv'
  BY <1>0, <1>1, <1>2, <1>3, TuiScreensAssumption DEF FormInv, Ages
<1>6. WaitInv' /\ CopyInv'
  BY <1>0, <1>1 DEF WaitInv, CopyInv, authVars, detailVars
<1> QED BY <1>0, <1>1, <1>4, <1>5, <1>6, BackupUnchanged DEF ScreensInv

\* The program ends and starts again.
LEMMA RestartKeeps ==
  ASSUME ScreensInv, Restart
  PROVE  ScreensInv'
<1>1. ScreenTypes' /\ WaitInv' /\ FormInv' /\ CopyInv'
  <2>1. logins' \in 0 .. MaxLogins
    BY TuiScreensAssumption DEF Restart
  <2>2. listed' \in Copies /\ listed' # "stale"
    BY DEF Restart, Reading, Copies
  <2>3. session' \in BOOLEAN
    BY DEF Restart, ScreensInv, ScreenTypes
  <2>4. ScreenTypes'
    BY <2>1, <2>2, <2>3 DEF Restart, ScreensInv, ScreenTypes, Copies
  <2>5. WaitInv' /\ FormInv'
    BY TuiScreensAssumption DEF Restart, WaitInv, FormInv
  <2>6. CopyInv'
    BY <2>2 DEF Restart, CopyInv
  <2> QED BY <2>4, <2>5, <2>6
<1>2. Lose(transfers) /\ transfers' = {} /\ backupLoading' = FALSE
  BY DEF Restart, DropTransfers
<1>3. BackupInv'
  BY <1>2, LoseKeeps DEF ScreensInv
<1> QED BY <1>1, <1>2, <1>3 DEF ScreensInv, LockInv

(***************************************************************************)
(* The theorems.                                                           *)
(***************************************************************************)

\* The program starts in a state of ScreensInv.
LEMMA ScreensInit == Init => ScreensInv
<1> SUFFICES ASSUME Init PROVE ScreensInv
  OBVIOUS
<1>1. ScreenTypes
  <2>1. logins \in 0 .. MaxLogins
    BY TuiScreensAssumption DEF Init
  <2> QED BY <2>1 DEF Init, ScreenTypes, Routes, Copies
<1>2. WaitInv /\ FormInv /\ CopyInv /\ LockInv
  BY TuiScreensAssumption DEF Init, BackupsInit, WaitInv, FormInv, CopyInv, LockInv
<1>3. BackupInv
  <2>1. BackupsTypeOK
    <3>1. 0 \in 0 .. MaxSnapshots
      BY BackupsAssumption
    <3> QED BY <3>1, TransferFacts DEF Init, BackupsInit, BackupsTypeOK
  <2>2. Puts = {} /\ late = {} /\ acked = Blank
    BY DEF Init, BackupsInit, Puts, Blank
  <2> QED BY <2>1, <2>2 DEF BackupInv
<1> QED BY <1>1, <1>2, <1>3 DEF ScreensInv

\* Every key and every message preserves ScreensInv.
LEMMA ScreensStep == ScreensInv /\ [Next]_vars => ScreensInv'
<1> SUFFICES ASSUME ScreensInv, [Next]_vars PROVE ScreensInv'
  OBVIOUS
<1>1. CASE UNCHANGED vars
  <2>1. BackupInv' /\ LockInv'
    BY <1>1, BackupUnchanged DEF ScreensInv, vars
  <2>2. ScreenTypes' /\ WaitInv' /\ FormInv' /\ CopyInv'
    BY <1>1 DEF ScreensInv, ScreenTypes, WaitInv, FormInv, CopyInv, vars, authVars, formVars, detailVars
  <2> QED BY <2>1, <2>2 DEF ScreensInv
<1>2. CASE Next
  BY <1>2, ScreensKeep, MoviesKeep, SessionsKeep, BackupsKeep, SearchResultKeeps, RestartKeeps
     DEF Next
<1> QED BY <1>1, <1>2

\* ScreensInv holds in every reachable state.
THEOREM ScreensInvariant == Spec => []ScreensInv
<1> QED BY ScreensInit, ScreensStep, PTL DEF Spec

\* Every variable of the screens and of the backups keeps its type.
THEOREM ScreensTypeCorrect == Spec => []TuiScreensTypeOK
<1>1. ScreensInv => TuiScreensTypeOK
  BY DEF ScreensInv, BackupInv, ScreenTypes, TuiScreensTypeOK
<1> QED BY <1>1, ScreensInvariant, PTL

\* A screen that waits for a login, a search or a backup waits for one that
\* is in flight, and the settings are locked while exactly one transfer is.
THEOREM SpinnersTheorem == Spec => []SpinnersAreHonest
<1>1. ScreensInv => SpinnersAreHonest
  <2> SUFFICES ASSUME ScreensInv PROVE SpinnersAreHonest
    OBVIOUS
  <2>1. Cardinality(transfers) = IF backupLoading THEN 1 ELSE 0
    <3>1. CASE transfers = {}
      BY <3>1, FS_EmptySet DEF ScreensInv, LockInv
    <3>2. CASE transfers # {}
      <4>1. PICK t : transfers = {t}
        BY <3>2 DEF ScreensInv, LockInv
      <4>2. Cardinality(transfers) = 1
        BY <4>1, FS_Singleton
      <4> QED BY <3>2, <4>2 DEF ScreensInv, LockInv
    <3> QED BY <3>1, <3>2
  <2> QED BY <2>1 DEF ScreensInv, WaitInv, FormInv, SpinnersAreHonest
<1> QED BY <1>1, ScreensInvariant, PTL

\* What the form offers and saves comes from this visit, unless a login took
\* it away during a search.
THEOREM FormDataTheorem == Spec => []FormDataIsFresh
<1>1. ScreensInv => FormDataIsFresh
  BY DEF ScreensInv, FormInv, FormDataIsFresh
<1> QED BY <1>1, ScreensInvariant, PTL

\* The detail never shows an entry older than the user's own last save.
THEOREM OwnEntryTheorem == Spec => []OwnEntryKept
<1>1. ScreensInv => OwnEntryKept
  BY DEF ScreensInv, CopyInv, OwnEntryKept
<1> QED BY <1>1, ScreensInvariant, PTL

\* A backup that was acknowledged is what the server holds.
THEOREM AckedTheorem == Spec => []AckedBackupIsStored
<1>1. ScreensInv => AckedBackupIsStored
  BY DEF ScreensInv, BackupInv, AckedBackupIsStored, Holds
<1> QED BY <1>1, ScreensInvariant, PTL
=============================================================================
