------------------------------ MODULE Accounts ------------------------------
(***************************************************************************)
(* One device used with several accounts: which account a movie belongs to *)
(* on the device and on the server, over logins, logouts, refreshes of     *)
(* tokens and the migration of the local user id (sync/service.go,         *)
(* service/movie_service.go, server/sync_handlers.go).                     *)
(*                                                                         *)
(* The content of movies is that of SyncDevice; here a pull that finds a   *)
(* newer row is a choice.                                                  *)
(***************************************************************************)
EXTENDS Sessions

CONSTANTS
  Movies,
  Local \* LocalUserID

ASSUME AccountsAssumption == Local \notin Users \cup {None}

VARIABLES
  owner,    \* owner[m]: user_id of the device's row, None when there is none
  edited,   \* movies with a pending upsert
  deleted,  \* movies with a pending delete
  migrated, \* user_id_migrated
  remote,   \* remote[m]: user_id of the server's row
  run,      \* the cycle: the session it took, what it pushes
  maker,    \* history: the user id under which m was created, anywhere
  stray,    \* history: rows created under Local too late for the migration
  refused,  \* history: the server refused a movie of another account
  clean     \* history: no login met a pending change of another account, and no
            \* login or logout a cycle under way

rowVars == <<owner, edited, deleted, migrated, remote>>
historyVars == <<maker, stray, refused, clean>>
vars == <<sessionVars, rowVars, run, historyVars>>

Owners == Users \cup {Local, None}

Runs ==
  [pc : {"idle", "build", "push", "repush", "acked", "pull", "repull", "migrate", "commit"},
   callback : {"none", "tokens", "save"},
   pair : Pairs, user : Users \cup {None}, read : SessionRecords,
   upserts : SUBSET Movies, rows : SUBSET Movies, drops : SUBSET Movies]

IdleRun ==
  [pc |-> "idle", callback |-> "none", pair |-> 0, user |-> None, read |-> NoSession,
   upserts |-> {}, rows |-> {}, drops |-> {}]

AccountsTypeOK ==
  /\ SessionsTypeOK
  /\ owner \in [Movies -> Owners] /\ remote \in [Movies -> Users \cup {None}]
  /\ edited \subseteq Movies /\ deleted \subseteq Movies /\ migrated \in BOOLEAN
  /\ run \in Runs
  /\ run.pc # "idle" => run.pair \in DOMAIN issued /\ run.user \in Users
  /\ maker \in [Movies -> Owners] /\ stray \subseteq Movies
  /\ refused \in BOOLEAN /\ clean \in BOOLEAN

Init ==
  /\ SessionsInit
  /\ owner = [m \in Movies |-> None] /\ remote = [m \in Movies |-> None]
  /\ edited = {} /\ deleted = {} /\ migrated = FALSE
  /\ run = IdleRun
  /\ maker = [m \in Movies |-> None] /\ stray = {}
  /\ refused = FALSE /\ clean = TRUE

\* UserID: the user id of reads and writes
UserID == IF migrated /\ runtime.user # None THEN runtime.user ELSE Local

\* The rows of the account before its first complete cycle have no mark.
Unmarked == IF migrated THEN {} ELSE {m \in Movies : owner[m] = Local}

(***************************************************************************)
(* The user.                                                               *)
(***************************************************************************)

\* A row created now under Local is not reached by the migration any more.
TooLate == migrated \/ run.pc = "commit"

Create(m) ==
  /\ maker[m] = None
  /\ owner' = [owner EXCEPT ![m] = UserID] /\ edited' = edited \cup {m}
  /\ maker' = [maker EXCEPT ![m] = UserID]
  /\ stray' = IF UserID = Local /\ TooLate THEN stray \cup {m} ELSE stray
  /\ UNCHANGED <<sessionVars, deleted, migrated, remote, run, refused, clean>>

\* Mutant of Visible: lists without their user id
VisibleToAll(m) == owner[m] # None

\* The lists show the rows of UserID.
Visible(m) == owner[m] = UserID

Edit(m) ==
  /\ Visible(m)
  /\ edited' = edited \cup {m}
  /\ UNCHANGED <<sessionVars, owner, deleted, migrated, remote, run, historyVars>>

Delete(m) ==
  /\ Visible(m)
  /\ owner' = [owner EXCEPT ![m] = None] /\ deleted' = deleted \cup {m}
  /\ UNCHANGED <<sessionVars, edited, migrated, remote, run, historyVars>>

\* Another device of the account u creates a movie.
CreateElsewhere(m, u) ==
  /\ maker[m] = None
  /\ remote' = [remote EXCEPT ![m] = u] /\ maker' = [maker EXCEPT ![m] = u]
  /\ UNCHANGED <<sessionVars, owner, edited, deleted, migrated, run, stray, refused, clean>>

\* Nothing ties m to another account than u: not its maker, nor its rows.
FreeFor(u, m) == {maker[m], owner[m], remote[m]} \subseteq {None, Local, u}

\* A login of u meets no cycle and nothing pending of another account.
Undisturbed(u) ==
  /\ run.pc = "idle"
  /\ \A m \in edited \cup deleted \cup Unmarked : FreeFor(u, m)

Session ==
  \/ /\ (\E u \in Users : LogIn(u)) \/ (\E p \in DOMAIN issued : Expire(p)) \/ ToggleOffline
     /\ UNCHANGED <<rowVars, run, historyVars>>
  \/ /\ LogOut
     /\ clean' = (clean /\ run.pc = "idle")
     /\ UNCHANGED <<rowVars, run, maker, stray, refused>>
  \/ \E s \in answers :
       /\ HandleAuthResult(s)
       /\ clean' = (clean /\ Undisturbed(s.user))
       /\ UNCHANGED <<rowVars, run, maker, stray, refused>>

\* The process ends, and its cycle with it; the next one boots.
Restart ==
  /\ Boot
  /\ run' = IdleRun
  /\ UNCHANGED <<rowVars, historyVars>>

(***************************************************************************)
(* The cycle.  It keeps the session it took for all its attempts.          *)
(***************************************************************************)

StartRun ==
  /\ run.pc = "idle" /\ Online
  /\ run' = [IdleRun EXCEPT !.pc = "build", !.pair = runtime.pair, !.user = runtime.user]
  /\ UNCHANGED <<sessionVars, rowVars, historyVars>>

\* buildPushPayload sends marked rows whatever their owner.
BuildPush ==
  /\ run.pc = "build"
  /\ LET upserts == edited \cup Unmarked IN
       run' = [run EXCEPT !.pc = "push", !.upserts = upserts, !.drops = deleted,
                          !.rows = {m \in upserts : owner[m] # None}]
  /\ UNCHANGED <<sessionVars, rowVars, historyVars>>

\* What an attempt begins with
Unbuilt == [run EXCEPT !.pc = "build", !.upserts = {}, !.rows = {}, !.drops = {}]

Requests == run.pc \in {"push", "repush", "pull", "repull"} /\ run.callback = "none"

\* The first answer 401 of a request makes the cycle refresh its tokens.
RefreshTokens ==
  /\ Requests /\ run.pc \in {"push", "pull"} /\ ~Accepts(run.pair)
  /\ Refreshed(run.pair)
  /\ run' = [run EXCEPT !.pc = IF @ = "push" THEN "repush" ELSE "repull",
                        !.callback = "tokens", !.pair = NewPair, !.read = runtime]
  /\ UNCHANGED <<rowVars, historyVars>>

OnTokens ==
  \/ /\ run.callback = "tokens"
     /\ KeepTokens(run.read, run.pair)
     /\ run' = [run EXCEPT !.callback = "save"]
     /\ UNCHANGED <<rowVars, historyVars>>
  \/ /\ run.callback = "save"
     /\ SaveTokens(run.read, run.pair)
     /\ run' = [run EXCEPT !.callback = "none", !.read = NoSession]
     /\ UNCHANGED <<rowVars, historyVars>>

\* The row of m on the server belongs to another account.
Foreign(m, account) == remote[m] \notin {None, account}

\* The deletes of the payload that are the account's own
Dropped(account) == {m \in run.drops : remote[m] = account}

StoreRemote(account, rows) ==
  remote' = [m \in Movies |-> IF m \in rows THEN account
                              ELSE IF m \in Dropped(account) THEN None ELSE remote[m]]

\* importData: deletes of the account's own movies, then the rows under the
\* account of the token; the first foreign one ends it, after some others.
Import ==
  /\ Requests /\ run.pc \in {"push", "repush"} /\ Accepts(run.pair)
  /\ LET account == Claims(run.pair)
         foreign == {m \in run.rows : Foreign(m, account)} IN
       IF foreign = {}
       THEN /\ StoreRemote(account, run.rows)
            /\ run' = [run EXCEPT !.pc = "acked"]
            /\ UNCHANGED refused
       ELSE /\ \E some \in SUBSET (run.rows \ foreign) : StoreRemote(account, some)
            /\ run' = Unbuilt
            /\ refused' = TRUE
  /\ UNCHANGED <<sessionVars, owner, edited, deleted, migrated, maker, stray, clean>>

\* The marks of what was pushed are cleared, those of skipped deletes too.
ClearMarks ==
  /\ run.pc = "acked"
  /\ edited' = edited \ run.upserts /\ deleted' = deleted \ run.drops
  /\ run' = [run EXCEPT !.pc = "pull", !.upserts = {}, !.rows = {}, !.drops = {}]
  /\ UNCHANGED <<sessionVars, owner, migrated, remote, historyVars>>

\* The rows of the account come back under its user id: the missing ones, and
\* of the others those that are newer there; or an error ends that half way.
Pull ==
  /\ Requests /\ run.pc \in {"pull", "repull"} /\ Accepts(run.pair)
  /\ LET account == Claims(run.pair)
         known == {m \in Movies \ deleted : remote[m] = account} IN
       \E written \in SUBSET known :
         /\ owner' = [m \in Movies |-> IF m \in written THEN account ELSE owner[m]]
         /\ run' = IF \A m \in known \ written : owner[m] # None
                   THEN [run EXCEPT !.pc = "migrate"] ELSE Unbuilt
  /\ UNCHANGED <<sessionVars, edited, deleted, migrated, remote, historyVars>>

\* Mutant of MigrateUserID: the metadata are written before the rows.
MetadataFirst == migrated' = TRUE /\ UNCHANGED owner

\* The rows of Local become those of the account, in one statement...
MigrateUserID ==
  /\ owner' = [m \in Movies |-> IF owner[m] = Local THEN run.user ELSE owner[m]]
  /\ UNCHANGED migrated

Migrate ==
  /\ run.pc = "migrate"
  /\ IF migrated THEN run' = IdleRun /\ UNCHANGED <<owner, migrated>>
     ELSE run' = [run EXCEPT !.pc = "commit"] /\ MigrateUserID
  /\ UNCHANGED <<sessionVars, edited, deleted, remote, historyVars>>

\* ... and the metadata say so in another.
UpdateMetadata ==
  /\ run.pc = "commit"
  /\ migrated' = TRUE /\ run' = IdleRun
  /\ UNCHANGED <<sessionVars, owner, edited, deleted, remote, historyVars>>

\* An error ends the attempt; another follows with the same session, or none.
AttemptFails ==
  /\ run.pc # "idle" /\ run.callback = "none"
  /\ run' \in {Unbuilt, IdleRun}
  /\ UNCHANGED <<sessionVars, rowVars, historyVars>>

Cycle ==
  \/ StartRun \/ BuildPush \/ RefreshTokens \/ OnTokens
  \/ Import \/ ClearMarks \/ Pull \/ Migrate \/ UpdateMetadata \/ AttemptFails

User == \E m \in Movies : Create(m) \/ Edit(m) \/ Delete(m) \/ \E u \in Users : CreateElsewhere(m, u)

Next == Session \/ Restart \/ Cycle \/ User

Spec == Init /\ [][Next]_vars

(***************************************************************************)
(* Properties.                                                             *)
(***************************************************************************)

\* The copies of the session belong to the account the user logged in with, or
\* are empty after a logout, and the interface, the sync service and the file
\* agree on it, until a refresh of a cycle comes in over a login or a logout.
\* The next login or logout repairs that, unless a cycle that began in between,
\* with the tokens of the one account and the name of the other, refreshes them
\* again (app/cli.go:147).
SessionsBelong ==
  ~crossed =>
    /\ \A s \in {memory, runtime, stored} :
         s = NoSession \/ (s.user = wanted /\ Claims(s.pair) = wanted)
    /\ memory.user = runtime.user /\ stored.user = runtime.user

\* When every login of another account finds nothing pending and no cycle under
\* way, no push is refused and no movie goes to an account that did not make it
\* (sync/service.go:293, service/movie_service.go:192).
CleanSwitchIsSafe ==
  clean =>
    /\ ~refused
    /\ \A m \in Movies : remote[m] # None => maker[m] \in {Local, remote[m]}

\* After the migration a row is left under Local, out of the lists of a logged
\* in user, only when it was created logged out, or while the migration was
\* under way (sync/service.go:210).
LocalRowsAreStray == migrated => \A m \in Movies : owner[m] = Local => m \in stray
=============================================================================
