------------------------------ MODULE Sessions ------------------------------
(***************************************************************************)
(* The login session of the terminal client.  It is held three times: by   *)
(* the model of the interface (memory), by the runtime state that the sync *)
(* service reads (runtime), and in session.json (stored).  A session is an *)
(* account with a pair of tokens; the server reads the account of a        *)
(* request from its token (app/cli.go, client/session.go,                  *)
(* service/auth_service.go, tui/model.go).                                 *)
(*                                                                         *)
(* A pair is its number in the order of issue.  Authenticated is a field   *)
(* of the code's session that is set exactly when an account and tokens    *)
(* are there, and is computed here.                                        *)
(***************************************************************************)
EXTENDS Naturals, Sequences

CONSTANTS
  Users,
  None,    \* no account
  MaxPairs \* bound of the model: pairs of tokens ever issued

ASSUME SessionsAssumption == None \notin Users /\ MaxPairs \in Nat

VARIABLES
  memory,      \* m.state.Session
  runtime,     \* runtime.session
  stored,      \* session.json
  offlineMode, \* the configuration, in memory and on disk
  issued,      \* issued[p]: the account of pair p, on the server
  expired,     \* the pairs whose access token has expired
  answers,     \* sessions of authResultMsg on their way to the interface
  wanted,      \* history: the account of the last login, None after a logout
  crossed      \* history: since the last login or logout, the tokens of a
               \* refresh were kept in a session of another account, or over
               \* a session that had changed

copies == <<memory, runtime, stored>>
tokenVars == <<issued, expired>>
sessionVars == <<copies, offlineMode, tokenVars, answers, wanted, crossed>>

Pairs == 0 .. MaxPairs
SessionRecords == [pair : Pairs, user : Users \cup {None}]
NoSession == [pair |-> 0, user |-> None]

Authenticated(s) == s.pair # 0 /\ s.user # None

\* Mutant of Online: the configuration alone decides.
OnlineByConfig == ~offlineMode

\* isOnline, as the sync service asks it
Online == ~offlineMode /\ Authenticated(runtime)

SessionsTypeOK ==
  /\ memory \in SessionRecords /\ runtime \in SessionRecords /\ stored \in SessionRecords
  /\ offlineMode \in BOOLEAN
  /\ issued \in Seq(Users) /\ Len(issued) <= MaxPairs
  /\ expired \subseteq DOMAIN issued
  /\ answers \subseteq SessionRecords
  /\ wanted \in Users \cup {None} /\ crossed \in BOOLEAN

SessionsInit ==
  /\ memory = NoSession /\ runtime = NoSession /\ stored = NoSession
  /\ offlineMode \in BOOLEAN
  /\ issued = <<>> /\ expired = {} /\ answers = {}
  /\ wanted = None /\ crossed = FALSE

(***************************************************************************)
(* The server's tokens.                                                    *)
(***************************************************************************)

\* issueTokens
Issue(u) == Len(issued) < MaxPairs /\ issued' = Append(issued, u)
NewPair == Len(issued) + 1

\* JWTMiddleware lets a request through with the account of its access token.
Accepts(pair) == pair \in DOMAIN issued \ expired
Claims(pair) == issued[pair]

Expire(pair) ==
  /\ Accepts(pair)
  /\ expired' = expired \cup {pair}
  /\ UNCHANGED <<copies, offlineMode, issued, answers, wanted, crossed>>

(***************************************************************************)
(* Login, logout and the offline mode.                                     *)
(***************************************************************************)

\* loginCmd and registerCmd, which are not offered to a logged in user; the
\* result of one may be on its way when the user leaves the screen and starts
\* another.
LogIn(u) ==
  /\ ~Authenticated(memory)
  /\ Issue(u)
  /\ answers' = answers \cup {[pair |-> NewPair, user |-> u]}
  /\ UNCHANGED <<copies, offlineMode, expired, wanted, crossed>>

Keep(s) == memory' = s /\ runtime' = s /\ stored' = s

HandleAuthResult(s) ==
  /\ s \in answers /\ answers' = answers \ {s}
  /\ Keep(s) /\ offlineMode' = FALSE
  /\ wanted' = s.user /\ crossed' = FALSE
  /\ UNCHANGED tokenVars

\* Mutant of Cleared: a logout that forgets the copy of the sync service
ClearedButRuntime == memory' = NoSession /\ stored' = NoSession /\ UNCHANGED runtime

\* clearSession
Cleared == Keep(NoSession)

LogOut ==
  /\ Authenticated(memory)
  /\ Cleared
  /\ wanted' = None /\ crossed' = FALSE
  /\ UNCHANGED <<offlineMode, tokenVars, answers>>

ToggleOffline ==
  /\ offlineMode' = ~offlineMode
  /\ UNCHANGED <<copies, tokenVars, answers, wanted, crossed>>

(***************************************************************************)
(* The start of the program: an online start restores the stored session.  *)
(***************************************************************************)

MustRestore == ~offlineMode /\ stored.pair # 0

\* The access token is accepted: the account is the one of the token.
RestoreByAccess ==
  /\ MustRestore /\ Accepts(stored.pair)
  /\ Keep([pair |-> stored.pair, user |-> Claims(stored.pair)])
  /\ UNCHANGED <<issued, crossed>>

\* It is refused, and the refresh token buys a new pair.
RestoreByRefresh ==
  /\ MustRestore /\ ~Accepts(stored.pair)
  /\ Issue(Claims(stored.pair))
  /\ Keep([pair |-> NewPair, user |-> Claims(stored.pair)])
  /\ UNCHANGED crossed

\* Any error, that of the network included, ends the session.
RestoreFails ==
  /\ MustRestore
  /\ Keep(NoSession)
  /\ crossed' = FALSE /\ UNCHANGED issued

\* Offline, or without tokens, the file is taken as it is.
NoRestore ==
  /\ ~MustRestore
  /\ Keep(stored)
  /\ UNCHANGED <<issued, crossed>>

Boot ==
  /\ RestoreByAccess \/ RestoreByRefresh \/ RestoreFails \/ NoRestore
  /\ answers' = {}
  /\ UNCHANGED <<offlineMode, expired, wanted>>

(***************************************************************************)
(* The refresh of a cycle's tokens.  The callback onTokens reads the       *)
(* runtime session, writes it back with the new pair, and saves it: three  *)
(* steps, in the goroutine of the cycle.                                   *)
(***************************************************************************)

\* The server issues a pair for the account of the old one.
Refreshed(pair) ==
  /\ Issue(Claims(pair))
  /\ UNCHANGED <<copies, offlineMode, expired, answers, wanted, crossed>>

\* The new pair is not of the account of the session that was read.
Crosses(read, pair) == read.user # Claims(pair)

KeepTokens(read, pair) ==
  /\ runtime' = [read EXCEPT !.pair = pair]
  /\ crossed' = (crossed \/ Crosses(read, pair) \/ runtime # read)
  /\ UNCHANGED <<memory, stored, offlineMode, tokenVars, answers, wanted>>

SaveTokens(read, pair) ==
  /\ stored' = [read EXCEPT !.pair = pair]
  /\ crossed' = (crossed \/ Crosses(read, pair) \/ runtime # stored')
  /\ UNCHANGED <<memory, runtime, offlineMode, tokenVars, answers, wanted>>
=============================================================================
