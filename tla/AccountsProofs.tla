--------------------------- MODULE AccountsProofs ---------------------------
(***************************************************************************)
(* Proofs about sessions and accounts (Sessions, Accounts).                *)
(*                                                                         *)
(* Three things are shown.  The copies of the session agree until a        *)
(* refresh crosses a login or logout.  While every switch of accounts is   *)
(* clean, the cycle works for the account that is logged in, and all that  *)
(* is pending is that account's own.  Rows of Local are strays once the    *)
(* migration has passed.                                                   *)
(***************************************************************************)
EXTENDS Accounts, TLAPS

\* Every pair that a copy, an answer or the cycle holds was issued.
PairsIssued ==
  /\ \A s \in {memory, runtime, stored} :
       s.pair \in 0 .. Len(issued) /\ (s.pair = 0 => s = NoSession)
  /\ \A s \in answers : s.pair \in DOMAIN issued /\ s.user = Claims(s.pair)

\* A callback runs inside a request.
CallbackInv ==
  /\ run.callback # "none" => run.pc \in {"repush", "repull"}
  /\ run.rows \subseteq run.upserts

SessionFine == SessionsTypeOK /\ PairsIssued /\ SessionsBelong

RowFine ==
  /\ owner \in [Movies -> Owners] /\ remote \in [Movies -> Users \cup {None}]
  /\ edited \subseteq Movies /\ deleted \subseteq Movies /\ migrated \in BOOLEAN
  /\ maker \in [Movies -> Owners] /\ stray \subseteq Movies
  /\ refused \in BOOLEAN /\ clean \in BOOLEAN

RunFine ==
  /\ run \in Runs
  /\ run.pc # "idle" => run.pair \in DOMAIN issued /\ run.user \in Users
  /\ CallbackInv

TypesPart == SessionFine /\ RowFine /\ RunFine

\* A movie nobody created is nowhere.
UnmadeInv ==
  \A m \in Movies : maker[m] = None =>
    /\ owner[m] = None /\ remote[m] = None
    /\ m \notin edited \cup deleted \cup run.upserts \cup run.drops

\* A row on the device or the server is of an account that made it, or adopted
\* it, and the two agree.
OwnersInv ==
  \A m \in Movies :
    /\ owner[m] \in Users => maker[m] \in {Local, owner[m]} /\ remote[m] \in {None, owner[m]}
    /\ remote[m] # None => maker[m] \in {Local, remote[m]}

\* The cycle works for the account that is logged in.
CycleInv ==
  run.pc # "idle" =>
    /\ run.user = wanted /\ runtime.user = wanted /\ Claims(run.pair) = wanted
    /\ run.callback = "tokens" => run.read = runtime
    /\ run.callback = "save" => runtime = [run.read EXCEPT !.pair = run.pair]
    /\ run.callback = "save" => run.read.user = wanted
    /\ \A m \in run.upserts \cup run.drops : FreeFor(wanted, m)

\* What is pending is free for the account that is logged in.
PendingInv ==
  runtime.user # None => \A m \in edited \cup deleted \cup Unmarked : FreeFor(wanted, m)

CleanPart ==
  clean => ~refused /\ ~crossed /\ UnmadeInv /\ OwnersInv /\ CycleInv /\ PendingInv

StrayPart ==
  migrated \/ run.pc = "commit" => \A m \in Movies : owner[m] = Local => m \in stray

AccountsInv == TypesPart /\ CleanPart /\ StrayPart

(***************************************************************************)
(* The session.                                                            *)
(***************************************************************************)

\* A new pair does not touch those issued before.
LEMMA IssueFacts ==
  ASSUME SessionFine, NEW u \in Users, Issue(u)
  PROVE  /\ issued \in Seq(Users) /\ issued' \in Seq(Users)
         /\ Len(issued) \in Nat /\ Len(issued') = Len(issued) + 1 /\ Len(issued') <= MaxPairs
         /\ DOMAIN issued = 1 .. Len(issued) /\ DOMAIN issued' = 1 .. Len(issued')
         /\ NewPair \in Pairs /\ NewPair \in DOMAIN issued' /\ issued'[NewPair] = u
         /\ \A p \in DOMAIN issued : p \in DOMAIN issued' /\ issued'[p] = issued[p]
<1>1. issued \in Seq(Users) /\ Len(issued) < MaxPairs /\ MaxPairs \in Nat
  BY SessionsAssumption DEF SessionFine, SessionsTypeOK, Issue
<1>2. issued' = Append(issued, u)
  BY DEF Issue
<1> QED BY <1>1, <1>2 DEF NewPair, Pairs

\* What the types say of a copy of the session
LEMMA CopyFacts ==
  ASSUME SessionFine
  PROVE  /\ \A s \in {memory, runtime, stored} :
              /\ s \in SessionRecords /\ s.pair \in Pairs /\ s.user \in Users \cup {None}
              /\ s = [pair |-> s.pair, user |-> s.user]
              /\ s.pair # 0 => s.pair \in DOMAIN issued /\ Claims(s.pair) \in Users
         /\ issued \in Seq(Users) /\ Len(issued) \in Nat /\ DOMAIN issued = 1 .. Len(issued)
         /\ Len(issued) <= MaxPairs /\ 0 \in Pairs /\ NoSession \in SessionRecords
         /\ \A p \in DOMAIN issued : p \in Pairs /\ p # 0 /\ Claims(p) \in Users
<1>1. issued \in Seq(Users) /\ Len(issued) <= MaxPairs /\ MaxPairs \in Nat
  BY SessionsAssumption DEF SessionFine, SessionsTypeOK
<1>2. /\ Len(issued) \in Nat /\ DOMAIN issued = 1 .. Len(issued) /\ 0 \in Pairs
      /\ \A p \in DOMAIN issued : p \in Pairs /\ p # 0 /\ Claims(p) \in Users
  BY <1>1 DEF Pairs, Claims
<1>3. NoSession \in SessionRecords
  BY <1>2 DEF NoSession, SessionRecords
<1>4. ASSUME NEW s \in {memory, runtime, stored}
      PROVE  /\ s \in SessionRecords /\ s.pair \in Pairs /\ s.user \in Users \cup {None}
             /\ s = [pair |-> s.pair, user |-> s.user]
             /\ s.pair # 0 => s.pair \in DOMAIN issued /\ Claims(s.pair) \in Users
  <2>1. s \in SessionRecords
    BY DEF SessionFine, SessionsTypeOK
  <2>2. s.pair \in Pairs /\ s.user \in Users \cup {None} /\ s = [pair |-> s.pair, user |-> s.user]
    BY <2>1 DEF SessionRecords
  <2>3. s.pair \in 0 .. Len(issued)
    BY DEF SessionFine, PairsIssued
  <2>4. s.pair # 0 => s.pair \in DOMAIN issued
    BY <1>2, <2>3
  <2> QED BY <1>2, <2>1, <2>2, <2>4
<1> QED BY <1>1, <1>2, <1>3, <1>4

LEMMA SessionSame ==
  ASSUME SessionFine, UNCHANGED sessionVars
  PROVE  SessionFine'
<1>1. UNCHANGED <<memory, runtime, stored, offlineMode, issued, expired, answers, wanted, crossed>>
  BY DEF sessionVars, copies, tokenVars
<1> QED BY <1>1 DEF SessionFine, SessionsTypeOK, PairsIssued, SessionsBelong, Claims

\* All three copies become s, a session of the wanted account or none, unless
\* the copies were crossed before and still are.
LEMMA KeepFacts ==
  ASSUME SessionFine, NEW s \in SessionRecords, Keep(s),
         issued' \in Seq(Users), Len(issued') <= MaxPairs, Len(issued) <= Len(issued'),
         \A p \in DOMAIN issued : issued'[p] = issued[p],
         s.pair \in 0 .. Len(issued'), s.pair = 0 => s = NoSession,
         expired' \subseteq DOMAIN issued, offlineMode' \in BOOLEAN,
         answers' \subseteq answers, wanted' \in Users \cup {None}, crossed' \in BOOLEAN,
         ~crossed' => s = NoSession \/ (s.user = wanted' /\ issued'[s.pair] = wanted')
  PROVE  SessionFine'
<1>1. memory' = s /\ runtime' = s /\ stored' = s
  BY DEF Keep
<1>2. Len(issued) \in Nat /\ Len(issued') \in Nat /\ DOMAIN issued = 1 .. Len(issued)
  BY CopyFacts
<1>3. DOMAIN issued' = 1 .. Len(issued') /\ DOMAIN issued \subseteq DOMAIN issued'
  BY <1>2
<1>4. SessionsTypeOK'
  BY <1>1, <1>3 DEF SessionFine, SessionsTypeOK, SessionRecords, Pairs
<1>5. PairsIssued'
  BY <1>1, <1>3 DEF SessionFine, PairsIssued, Claims
<1>6. SessionsBelong'
  BY <1>1 DEF SessionsBelong, Claims
<1> QED BY <1>4, <1>5, <1>6 DEF SessionFine

LEMMA LogInKeeps ==
  ASSUME SessionFine, NEW u \in Users, LogIn(u)
  PROVE  /\ SessionFine'
         /\ \A p \in DOMAIN issued : p \in DOMAIN issued' /\ issued'[p] = issued[p]
<1> DEFINE s == [pair |-> NewPair, user |-> u]
<1>1. /\ Issue(u) /\ answers' = answers \cup {s}
      /\ UNCHANGED <<memory, runtime, stored, offlineMode, expired, wanted, crossed>>
  BY DEF LogIn, copies
<1>2. /\ issued' \in Seq(Users) /\ Len(issued) \in Nat /\ Len(issued') = Len(issued) + 1
      /\ Len(issued') <= MaxPairs
      /\ NewPair \in Pairs /\ NewPair \in DOMAIN issued' /\ issued'[NewPair] = u
      /\ \A p \in DOMAIN issued : p \in DOMAIN issued' /\ issued'[p] = issued[p]
  BY <1>1, IssueFacts
<1>3. s \in SessionRecords /\ s.pair = NewPair /\ s.user = u
  BY <1>2 DEF SessionRecords
<1> HIDE DEF s
<1>4. SessionsTypeOK'
  BY <1>1, <1>2, <1>3 DEF SessionFine, SessionsTypeOK, SessionRecords, Pairs
<1>5. PairsIssued'
  <2>1. \A c \in {memory, runtime, stored} :
          c.pair \in 0 .. Len(issued) /\ (c.pair = 0 => c = NoSession)
    BY DEF SessionFine, PairsIssued
  <2>2. \A c \in {memory', runtime', stored'} :
          c.pair \in 0 .. Len(issued') /\ (c.pair = 0 => c = NoSession)
    BY <1>1, <1>2, <2>1
  <2>3. \A c \in answers' : c.pair \in DOMAIN issued' /\ c.user = issued'[c.pair]
    BY <1>1, <1>2, <1>3 DEF SessionFine, PairsIssued, Claims
  <2> QED BY <2>2, <2>3 DEF PairsIssued, Claims
<1>6. SessionsBelong'
  <2>1. ASSUME ~crossed, NEW c \in {memory, runtime, stored}, c # NoSession
        PROVE  c.user = wanted /\ issued'[c.pair] = wanted
    <3>1. c.user = wanted /\ Claims(c.pair) = wanted
      BY <2>1 DEF SessionFine, SessionsBelong
    <3>2. c.pair # 0
      BY <2>1 DEF SessionFine, PairsIssued
    <3> QED BY <1>2, <2>1, <3>1, <3>2, CopyFacts DEF Claims
  <2> QED BY <1>1, <2>1 DEF SessionFine, SessionsBelong, Claims
<1> QED BY <1>2, <1>4, <1>5, <1>6 DEF SessionFine

LEMMA ExpireKeeps ==
  ASSUME SessionFine, NEW p, Expire(p)
  PROVE  SessionFine' /\ UNCHANGED issued
<1>1. /\ p \in DOMAIN issued /\ expired' = expired \cup {p}
      /\ UNCHANGED <<memory, runtime, stored, offlineMode, issued, answers, wanted, crossed>>
  BY DEF Expire, Accepts, copies
<1> QED BY <1>1 DEF SessionFine, SessionsTypeOK, PairsIssued, SessionsBelong, Claims

LEMMA ToggleKeeps ==
  ASSUME SessionFine, ToggleOffline
  PROVE  SessionFine' /\ UNCHANGED issued
<1>1. /\ offlineMode' = ~offlineMode
      /\ UNCHANGED <<memory, runtime, stored, issued, expired, answers, wanted, crossed>>
  BY DEF ToggleOffline, copies, tokenVars
<1> QED BY <1>1 DEF SessionFine, SessionsTypeOK, PairsIssued, SessionsBelong, Claims

LEMMA LogOutKeeps ==
  ASSUME SessionFine, LogOut
  PROVE  SessionFine' /\ UNCHANGED issued
<1>1. /\ Keep(NoSession) /\ wanted' = None /\ crossed' = FALSE
      /\ UNCHANGED <<offlineMode, issued, expired, answers>>
  BY DEF LogOut, Cleared, tokenVars
<1>2. NoSession \in SessionRecords /\ NoSession.pair = 0
  BY CopyFacts DEF NoSession
<1>3. /\ issued \in Seq(Users) /\ Len(issued) \in Nat /\ Len(issued) <= MaxPairs
      /\ expired \subseteq DOMAIN issued /\ offlineMode \in BOOLEAN
  BY CopyFacts DEF SessionFine, SessionsTypeOK
<1>4. crossed' \in BOOLEAN /\ offlineMode' \in BOOLEAN
  BY <1>1, <1>3
<1>5. NoSession.pair \in 0 .. Len(issued')
  BY <1>1, <1>2, <1>3
<1>6. wanted' \in Users \cup {None} /\ answers' \subseteq answers /\ expired' \subseteq DOMAIN issued
  BY <1>1, <1>3
<1>7. SessionFine'
  BY <1>1, <1>2, <1>3, <1>4, <1>5, <1>6, KeepFacts
<1> QED BY <1>1, <1>7

LEMMA AuthKeeps ==
  ASSUME SessionFine, NEW s \in answers, HandleAuthResult(s)
  PROVE  /\ SessionFine' /\ UNCHANGED issued
         /\ s.user \in Users /\ runtime' = s /\ wanted' = s.user /\ crossed' = FALSE
<1>1. /\ Keep(s) /\ wanted' = s.user /\ crossed' = FALSE /\ offlineMode' = FALSE
      /\ answers' = answers \ {s} /\ UNCHANGED <<issued, expired>>
  BY DEF HandleAuthResult, tokenVars
<1>2. /\ issued \in Seq(Users) /\ Len(issued) \in Nat /\ Len(issued) <= MaxPairs
      /\ expired \subseteq DOMAIN issued /\ answers \subseteq SessionRecords
  BY CopyFacts DEF SessionFine, SessionsTypeOK
<1>3. s \in SessionRecords /\ s.pair \in DOMAIN issued /\ s.user = issued[s.pair]
  BY <1>2 DEF SessionFine, PairsIssued, Claims
<1>4. s.pair \in 0 .. Len(issued) /\ s.pair # 0 /\ s.user \in Users
  BY <1>2, <1>3
<1>5. crossed' \in BOOLEAN /\ offlineMode' \in BOOLEAN
  BY <1>1
<1>6. wanted' \in Users \cup {None} /\ answers' \subseteq answers /\ expired' \subseteq DOMAIN issued
  BY <1>1, <1>2, <1>4
<1>7. SessionFine'
  BY <1>1, <1>2, <1>3, <1>4, <1>5, <1>6, KeepFacts
<1> QED BY <1>1, <1>4, <1>7 DEF Keep

LEMMA BootKeeps ==
  ASSUME SessionFine, Boot
  PROVE  /\ SessionFine' /\ DOMAIN issued \subseteq DOMAIN issued'
         /\ UNCHANGED wanted /\ (~crossed => ~crossed')
         /\ ~crossed => runtime'.user \in {runtime.user, None}
<1>1. /\ issued \in Seq(Users) /\ Len(issued) \in Nat /\ Len(issued) <= MaxPairs
      /\ DOMAIN issued = 1 .. Len(issued)
      /\ expired \subseteq DOMAIN issued /\ offlineMode \in BOOLEAN
      /\ wanted \in Users \cup {None} /\ crossed \in BOOLEAN
  BY CopyFacts DEF SessionFine, SessionsTypeOK
<1>2. answers' = {} /\ UNCHANGED <<offlineMode, expired, wanted>>
  BY DEF Boot
<1>3. /\ stored \in SessionRecords /\ stored.pair \in Pairs
      /\ stored.pair \in 0 .. Len(issued) /\ (stored.pair = 0 => stored = NoSession)
      /\ stored.pair # 0 => stored.pair \in DOMAIN issued /\ Claims(stored.pair) \in Users
  BY CopyFacts DEF SessionFine, PairsIssued
<1>4. NoSession \in SessionRecords /\ NoSession.pair = 0 /\ NoSession.user = None
  BY CopyFacts DEF NoSession
<1>5. ~crossed => /\ stored = NoSession \/ (stored.user = wanted /\ Claims(stored.pair) = wanted)
                  /\ stored.user = runtime.user
  BY DEF SessionFine, SessionsBelong
<1>6. CASE RestoreByAccess
  <2> DEFINE s == [pair |-> stored.pair, user |-> Claims(stored.pair)]
  <2>1. Keep(s) /\ UNCHANGED <<issued, crossed>> /\ stored.pair # 0
    BY <1>6 DEF RestoreByAccess, MustRestore
  <2>2. /\ s \in SessionRecords /\ s.pair = stored.pair /\ s.user = Claims(stored.pair)
    BY <1>3, <2>1 DEF SessionRecords
  <2>3. ~crossed => s.user = wanted /\ issued[s.pair] = wanted /\ s.user = runtime.user
    BY <1>4, <1>5, <2>1, <2>2 DEF Claims
  <2> HIDE DEF s
  <2>4. SessionFine'
    BY <1>1, <1>2, <1>3, <2>1, <2>2, <2>3, KeepFacts
  <2> QED BY <1>2, <2>1, <2>3, <2>4 DEF Keep
<1>7. CASE RestoreByRefresh
  <2> DEFINE s == [pair |-> NewPair, user |-> Claims(stored.pair)]
  <2>1. Keep(s) /\ UNCHANGED crossed /\ stored.pair # 0 /\ Issue(Claims(stored.pair))
    BY <1>7 DEF RestoreByRefresh, MustRestore
  <2>2. /\ issued' \in Seq(Users) /\ Len(issued') = Len(issued) + 1 /\ Len(issued') <= MaxPairs
        /\ DOMAIN issued' = 1 .. Len(issued')
        /\ NewPair \in Pairs /\ NewPair \in DOMAIN issued' /\ issued'[NewPair] = Claims(stored.pair)
        /\ \A p \in DOMAIN issued : p \in DOMAIN issued' /\ issued'[p] = issued[p]
    BY <1>3, <2>1, IssueFacts
  <2>3. s \in SessionRecords /\ s.pair = NewPair /\ s.user = Claims(stored.pair)
    BY <1>3, <2>1, <2>2 DEF SessionRecords
  <2>4. ~crossed => s.user = wanted /\ issued'[s.pair] = wanted /\ s.user = runtime.user
    BY <1>4, <1>5, <2>1, <2>2, <2>3
  <2> HIDE DEF s
  <2>5. s.pair \in 0 .. Len(issued') /\ s.pair # 0 /\ Len(issued) <= Len(issued')
    BY <1>1, <2>2, <2>3
  <2>6. SessionFine'
    BY <1>1, <1>2, <2>1, <2>2, <2>3, <2>4, <2>5, KeepFacts
  <2> QED BY <1>2, <2>1, <2>2, <2>4, <2>6 DEF Keep
<1>8. CASE RestoreFails
  <2>1. Keep(NoSession) /\ crossed' = FALSE /\ UNCHANGED issued
    BY <1>8 DEF RestoreFails
  <2>2. crossed' \in BOOLEAN /\ offlineMode' \in BOOLEAN
    BY <1>1, <1>2, <2>1
  <2>3. NoSession.pair \in 0 .. Len(issued')
    BY <1>1, <1>4, <2>1
  <2>4. SessionFine'
    BY <1>1, <1>2, <1>4, <2>1, <2>2, <2>3, KeepFacts
  <2> QED BY <1>2, <1>4, <2>1, <2>4 DEF Keep
<1>9. CASE NoRestore
  <2>1. Keep(stored) /\ UNCHANGED <<issued, crossed>>
    BY <1>9 DEF NoRestore
  <2>2. SessionFine'
    BY <1>1, <1>2, <1>3, <1>5, <2>1, KeepFacts DEF Claims
  <2> QED BY <1>2, <1>5, <2>1, <2>2 DEF Keep
<1> QED BY <1>6, <1>7, <1>8, <1>9 DEF Boot

LEMMA RefreshedKeeps ==
  ASSUME SessionFine, NEW p \in DOMAIN issued, Refreshed(p)
  PROVE  /\ SessionFine'
         /\ \A q \in DOMAIN issued : q \in DOMAIN issued' /\ issued'[q] = issued[q]
         /\ NewPair \in Pairs /\ NewPair \in DOMAIN issued' /\ issued'[NewPair] = issued[p]
         /\ UNCHANGED <<memory, runtime, stored, wanted, crossed>>
<1>1. /\ Issue(Claims(p)) /\ Claims(p) \in Users
      /\ UNCHANGED <<memory, runtime, stored, offlineMode, expired, answers, wanted, crossed>>
  BY CopyFacts DEF Refreshed, copies
<1>2. /\ issued' \in Seq(Users) /\ Len(issued) \in Nat /\ Len(issued') = Len(issued) + 1
      /\ Len(issued') <= MaxPairs
      /\ NewPair \in Pairs /\ NewPair \in DOMAIN issued' /\ issued'[NewPair] = Claims(p)
      /\ \A q \in DOMAIN issued : q \in DOMAIN issued' /\ issued'[q] = issued[q]
  BY <1>1, IssueFacts
<1>3. SessionsTypeOK'
  BY <1>1, <1>2 DEF SessionFine, SessionsTypeOK, SessionRecords, Pairs
<1>4. PairsIssued'
  <2>1. \A c \in {memory, runtime, stored} :
          c.pair \in 0 .. Len(issued) /\ (c.pair = 0 => c = NoSession)
    BY DEF SessionFine, PairsIssued
  <2>2. \A c \in {memory', runtime', stored'} :
          c.pair \in 0 .. Len(issued') /\ (c.pair = 0 => c = NoSession)
    BY <1>1, <1>2, <2>1
  <2>3. \A c \in answers' : c.pair \in DOMAIN issued' /\ c.user = issued'[c.pair]
    BY <1>1, <1>2 DEF SessionFine, PairsIssued, Claims
  <2> QED BY <2>2, <2>3 DEF PairsIssued, Claims
<1>5. SessionsBelong'
  <2>1. ASSUME ~crossed, NEW c \in {memory, runtime, stored}, c # NoSession
        PROVE  c.user = wanted /\ issued'[c.pair] = wanted
    <3>1. c.user = wanted /\ Claims(c.pair) = wanted
      BY <2>1 DEF SessionFine, SessionsBelong
    <3>2. c.pair # 0
      BY <2>1 DEF SessionFine, PairsIssued
    <3> QED BY <1>2, <2>1, <3>1, <3>2, CopyFacts DEF Claims
  <2> QED BY <1>1, <2>1 DEF SessionFine, SessionsBelong, Claims
<1> QED BY <1>1, <1>2, <1>3, <1>4, <1>5 DEF SessionFine, Claims

\* The tokens kept are of the account whose session was read, or the copies are
\* crossed from now on.
LEMMA KeepTokensKeeps ==
  ASSUME SessionFine, NEW read \in SessionRecords, NEW p \in DOMAIN issued, KeepTokens(read, p)
  PROVE  SessionFine' /\ UNCHANGED issued
<1>1. /\ runtime' = [read EXCEPT !.pair = p]
      /\ crossed' = (crossed \/ read.user # Claims(p) \/ runtime # read)
      /\ UNCHANGED <<memory, stored, offlineMode, issued, expired, answers, wanted>>
  BY DEF KeepTokens, Crosses, tokenVars
<1>2. p \in Pairs /\ p # 0 /\ Claims(p) \in Users /\ p \in 0 .. Len(issued)
  BY CopyFacts
<1>3. /\ runtime' \in SessionRecords /\ runtime'.pair = p /\ runtime'.user = read.user
  BY <1>1, <1>2 DEF SessionRecords
<1>4. crossed' \in BOOLEAN
  BY <1>1
<1>5. SessionsTypeOK'
  BY <1>1, <1>3, <1>4 DEF SessionFine, SessionsTypeOK
<1>6. PairsIssued'
  BY <1>1, <1>2, <1>3 DEF SessionFine, PairsIssued, Claims
<1>7. SessionsBelong'
  <2> SUFFICES ASSUME ~crossed'
               PROVE  /\ \A s \in {memory, runtime', stored} :
                           s = NoSession \/ (s.user = wanted /\ Claims(s.pair) = wanted)
                      /\ memory.user = runtime'.user /\ stored.user = runtime'.user
    BY <1>1 DEF SessionsBelong, Claims
  <2>1. ~crossed /\ read.user = Claims(p) /\ runtime = read
    BY <1>1
  <2>2. runtime.user # None
    BY <1>2, <2>1, SessionsAssumption
  <2>3. runtime.user = wanted /\ memory.user = runtime.user /\ stored.user = runtime.user
    BY <2>1, <2>2 DEF SessionFine, SessionsBelong, NoSession
  <2>4. runtime'.user = wanted /\ Claims(runtime'.pair) = wanted
    BY <1>3, <2>1, <2>3
  <2> QED BY <1>3, <2>1, <2>3, <2>4 DEF SessionFine, SessionsBelong
<1> QED BY <1>1, <1>5, <1>6, <1>7 DEF SessionFine

LEMMA SaveTokensKeeps ==
  ASSUME SessionFine, NEW read \in SessionRecords, NEW p \in DOMAIN issued, SaveTokens(read, p)
  PROVE  SessionFine' /\ UNCHANGED issued
<1>1. /\ stored' = [read EXCEPT !.pair = p]
      /\ crossed' = (crossed \/ read.user # Claims(p) \/ runtime # stored')
      /\ UNCHANGED <<memory, runtime, offlineMode, issued, expired, answers, wanted>>
  BY DEF SaveTokens, Crosses, tokenVars
<1>2. p \in Pairs /\ p # 0 /\ p \in 0 .. Len(issued)
  BY CopyFacts
<1>3. /\ stored' \in SessionRecords /\ stored'.pair = p
  BY <1>1, <1>2 DEF SessionRecords
<1>4. crossed' \in BOOLEAN
  BY <1>1
<1>5. SessionsTypeOK'
  BY <1>1, <1>3, <1>4 DEF SessionFine, SessionsTypeOK
<1>6. PairsIssued'
  BY <1>1, <1>2, <1>3 DEF SessionFine, PairsIssued, Claims
<1>7. SessionsBelong'
  BY <1>1 DEF SessionFine, SessionsBelong, Claims
<1> QED BY <1>1, <1>5, <1>6, <1>7 DEF SessionFine

(***************************************************************************)
(* The rows and the cycle.                                                 *)
(***************************************************************************)

LEMMA RunFacts ==
  ASSUME NEW r \in Runs
  PROVE  /\ r.pc \in {"idle", "build", "push", "repush", "acked", "pull", "repull", "migrate", "commit"}
         /\ r.callback \in {"none", "tokens", "save"}
         /\ r.pair \in Pairs /\ r.user \in Users \cup {None} /\ r.read \in SessionRecords
         /\ r.upserts \subseteq Movies /\ r.rows \subseteq Movies /\ r.drops \subseteq Movies
BY DEF Runs

\* What the idle cycle and a new attempt are
LEMMA IdleFacts ==
  ASSUME TypesPart
  PROVE  /\ IdleRun \in Runs /\ Unbuilt \in Runs
         /\ IdleRun.pc = "idle" /\ IdleRun.callback = "none"
         /\ IdleRun.upserts = {} /\ IdleRun.rows = {} /\ IdleRun.drops = {}
         /\ Unbuilt.pc = "build" /\ Unbuilt.callback = run.callback
         /\ Unbuilt.pair = run.pair /\ Unbuilt.user = run.user /\ Unbuilt.read = run.read
         /\ Unbuilt.upserts = {} /\ Unbuilt.rows = {} /\ Unbuilt.drops = {}
<1>1. 0 \in Pairs /\ NoSession \in SessionRecords
  BY CopyFacts DEF TypesPart
<1>2. IdleRun \in Runs
  BY <1>1 DEF IdleRun, Runs
<1>3. run \in Runs
  BY DEF TypesPart, RunFine
<1>4. Unbuilt \in Runs
  BY <1>3 DEF Unbuilt, Runs
<1> QED BY <1>2, <1>3, <1>4 DEF IdleRun, Unbuilt, Runs

\* The accounts and Local are different.
LEMMA LocalFacts == Local \notin Users /\ Local # None /\ None \notin Users
BY AccountsAssumption, SessionsAssumption

LEMMA RowSame ==
  ASSUME RowFine, UNCHANGED <<rowVars, historyVars>>
  PROVE  RowFine'
BY DEF RowFine, rowVars, historyVars

\* A step that changes neither the rows nor the cycle nor whose session it is
LEMMA CleanSame ==
  ASSUME TypesPart, CleanPart, UNCHANGED <<rowVars, historyVars, run, runtime, wanted, crossed>>,
         \A p \in DOMAIN issued : issued'[p] = issued[p]
  PROVE  CleanPart'
<1>1. UNCHANGED <<owner, edited, deleted, migrated, remote, maker, stray, refused, clean>>
  BY DEF rowVars, historyVars
<1> SUFFICES ASSUME clean
             PROVE  UnmadeInv' /\ OwnersInv' /\ CycleInv' /\ PendingInv'
  BY <1>1 DEF CleanPart
<1>2. UnmadeInv' /\ OwnersInv'
  BY <1>1 DEF CleanPart, UnmadeInv, OwnersInv
<1>3. CycleInv'
  BY <1>1 DEF CleanPart, CycleInv, Claims, FreeFor, TypesPart, RunFine
<1>4. PendingInv'
  BY <1>1 DEF CleanPart, PendingInv, FreeFor, Unmarked
<1> QED BY <1>2, <1>3, <1>4

LEMMA StraySame ==
  ASSUME StrayPart, UNCHANGED <<owner, migrated, run, stray>>
  PROVE  StrayPart'
BY DEF StrayPart

LEMMA RunSame ==
  ASSUME RunFine, UNCHANGED run, \A p \in DOMAIN issued : p \in DOMAIN issued'
  PROVE  RunFine'
BY DEF RunFine, CallbackInv

LEMMA SessionKeeps ==
  ASSUME AccountsInv, Session
  PROVE  AccountsInv'
<1>1. TypesPart /\ SessionFine /\ RowFine /\ RunFine /\ CleanPart /\ StrayPart
  BY DEF AccountsInv, TypesPart
<1>2. ASSUME UNCHANGED <<rowVars, run, historyVars>>,
             \/ \E u \in Users : LogIn(u)
             \/ \E p \in DOMAIN issued : Expire(p)
             \/ ToggleOffline
      PROVE  AccountsInv'
  <2>1. SessionFine' /\ \A p \in DOMAIN issued : p \in DOMAIN issued' /\ issued'[p] = issued[p]
    BY <1>1, <1>2, LogInKeeps, ExpireKeeps, ToggleKeeps
  <2>2. UNCHANGED <<runtime, wanted, crossed>>
    BY <1>2 DEF LogIn, Expire, ToggleOffline, copies
  <2>3. RowFine' /\ RunFine'
    BY <1>1, <1>2, <2>1, RowSame, RunSame
  <2>4. CleanPart'
    BY <1>1, <1>2, <2>1, <2>2, CleanSame
  <2>5. StrayPart'
    BY <1>1, <1>2, StraySame DEF rowVars, historyVars
  <2> QED BY <2>1, <2>3, <2>4, <2>5 DEF AccountsInv, TypesPart
<1>3. ASSUME LogOut, clean' = (clean /\ run.pc = "idle"),
             UNCHANGED <<rowVars, run, maker, stray, refused>>
      PROVE  AccountsInv'
  <2>1. SessionFine' /\ UNCHANGED issued /\ runtime' = NoSession /\ crossed' = FALSE
    BY <1>1, <1>3, LogOutKeeps DEF LogOut, Cleared, Keep
  <2>2. UNCHANGED <<owner, edited, deleted, migrated, remote, run, maker, stray, refused>>
    BY <1>3 DEF rowVars
  <2>3. clean' \in BOOLEAN
    BY <1>3
  <2>4. RowFine' /\ RunFine' /\ StrayPart'
    BY <1>1, <2>1, <2>2, <2>3, RunSame, StraySame DEF RowFine
  <2>5. CleanPart'
    <3> SUFFICES ASSUME clean' PROVE ~refused' /\ ~crossed' /\ UnmadeInv' /\ OwnersInv' /\ CycleInv' /\ PendingInv'
      BY DEF CleanPart
    <3>1. clean /\ run.pc = "idle"
      BY <1>3
    <3>2. UnmadeInv' /\ OwnersInv' /\ ~refused'
      BY <1>1, <2>2, <3>1 DEF CleanPart, UnmadeInv, OwnersInv
    <3> QED BY <2>1, <2>2, <3>1, <3>2 DEF CycleInv, PendingInv, NoSession
  <2> QED BY <2>1, <2>4, <2>5 DEF AccountsInv, TypesPart
<1>4. ASSUME NEW s \in answers, HandleAuthResult(s), clean' = (clean /\ Undisturbed(s.user)),
             UNCHANGED <<rowVars, run, maker, stray, refused>>
      PROVE  AccountsInv'
  <2>1. /\ SessionFine' /\ UNCHANGED issued
        /\ s.user \in Users /\ runtime' = s /\ wanted' = s.user /\ crossed' = FALSE
    BY <1>1, <1>4, AuthKeeps
  <2>2. UNCHANGED <<owner, edited, deleted, migrated, remote, run, maker, stray, refused>>
    BY <1>4 DEF rowVars
  <2>3. clean' \in BOOLEAN
    BY <1>4
  <2>4. RowFine' /\ RunFine' /\ StrayPart'
    BY <1>1, <2>1, <2>2, <2>3, RunSame, StraySame DEF RowFine
  <2>5. CleanPart'
    <3> SUFFICES ASSUME clean' PROVE ~refused' /\ ~crossed' /\ UnmadeInv' /\ OwnersInv' /\ CycleInv' /\ PendingInv'
      BY DEF CleanPart
    <3>1. clean /\ run.pc = "idle" /\ \A m \in edited \cup deleted \cup Unmarked : FreeFor(s.user, m)
      BY <1>4 DEF Undisturbed
    <3>2. UnmadeInv' /\ OwnersInv' /\ ~refused'
      BY <1>1, <2>2, <3>1 DEF CleanPart, UnmadeInv, OwnersInv
    <3>3. PendingInv'
      BY <2>1, <2>2, <3>1 DEF PendingInv, FreeFor, Unmarked
    <3> QED BY <2>1, <2>2, <3>1, <3>2, <3>3 DEF CycleInv
  <2> QED BY <2>1, <2>4, <2>5 DEF AccountsInv, TypesPart
<1> QED BY <1>2, <1>3, <1>4 DEF Session

LEMMA RestartKeeps ==
  ASSUME AccountsInv, Restart
  PROVE  AccountsInv'
<1>1. TypesPart /\ SessionFine /\ RowFine /\ RunFine /\ CleanPart /\ StrayPart
  BY DEF AccountsInv, TypesPart
<1>2. /\ run' = IdleRun /\ Boot
      /\ UNCHANGED <<owner, edited, deleted, migrated, remote, maker, stray, refused, clean>>
  BY DEF Restart, rowVars, historyVars
<1>3. /\ IdleRun \in Runs /\ IdleRun.pc = "idle" /\ IdleRun.callback = "none"
      /\ IdleRun.upserts = {} /\ IdleRun.rows = {} /\ IdleRun.drops = {}
  BY <1>1, IdleFacts
<1>4. /\ SessionFine' /\ UNCHANGED wanted /\ (~crossed => ~crossed')
      /\ ~crossed => runtime'.user \in {runtime.user, None}
  BY <1>1, <1>2, BootKeeps
<1>5. RowFine'
  BY <1>1, <1>2 DEF RowFine
<1>6. RunFine'
  BY <1>2, <1>3 DEF RunFine, CallbackInv
<1>7. StrayPart'
  BY <1>1, <1>2, <1>3 DEF StrayPart
<1>8. CleanPart'
  <2> SUFFICES ASSUME clean
               PROVE  ~refused /\ ~crossed' /\ UnmadeInv' /\ OwnersInv' /\ CycleInv' /\ PendingInv'
    BY <1>2 DEF CleanPart
  <2>1. UnmadeInv' /\ OwnersInv' /\ CycleInv'
    BY <1>1, <1>2, <1>3 DEF CleanPart, UnmadeInv, OwnersInv, CycleInv
  <2>2. PendingInv'
    BY <1>1, <1>2, <1>4 DEF CleanPart, PendingInv, FreeFor, Unmarked
  <2> QED BY <1>1, <1>4, <2>1, <2>2 DEF CleanPart
<1> QED BY <1>4, <1>5, <1>6, <1>7, <1>8 DEF AccountsInv, TypesPart

(***************************************************************************)
(* The cycle.                                                              *)
(***************************************************************************)

\* While switches are clean, the session and the cycle are of one account.
LEMMA CleanFacts ==
  ASSUME TypesPart, CleanPart, clean
  PROVE  /\ ~refused /\ ~crossed /\ UnmadeInv /\ OwnersInv /\ CycleInv /\ PendingInv
         /\ runtime.user # None => runtime.user = wanted /\ Claims(runtime.pair) = wanted
         /\ run.pc # "idle" => wanted \in Users /\ run.user = wanted /\ runtime.user = wanted
                             /\ Claims(run.pair) = wanted
<1>1. ~crossed /\ ~refused /\ UnmadeInv /\ OwnersInv /\ CycleInv /\ PendingInv
  BY DEF CleanPart
<1>2. runtime.user # None => runtime.user = wanted /\ Claims(runtime.pair) = wanted
  BY <1>1 DEF TypesPart, SessionFine, SessionsBelong, NoSession
<1> QED BY <1>1, <1>2 DEF CycleInv, TypesPart, RunFine

LEMMA StartRunKeeps ==
  ASSUME AccountsInv, StartRun
  PROVE  AccountsInv'
<1>1. TypesPart /\ SessionFine /\ RowFine /\ RunFine /\ CleanPart /\ StrayPart
  BY DEF AccountsInv, TypesPart
<1>2. /\ run.pc = "idle" /\ runtime.pair # 0 /\ runtime.user # None
      /\ run' = [IdleRun EXCEPT !.pc = "build", !.pair = runtime.pair, !.user = runtime.user]
      /\ UNCHANGED <<sessionVars, rowVars, historyVars>>
  BY DEF StartRun, Online, Authenticated
<1>3. /\ UNCHANGED <<owner, edited, deleted, migrated, remote, maker, stray, refused, clean>>
      /\ UNCHANGED <<runtime, issued, wanted, crossed>>
  BY <1>2 DEF rowVars, historyVars, sessionVars, copies, tokenVars
<1>4. runtime.pair \in DOMAIN issued /\ runtime.pair \in Pairs /\ runtime.user \in Users
  BY <1>1, <1>2, CopyFacts
<1>5. /\ run' \in Runs /\ run'.pc = "build" /\ run'.callback = "none"
      /\ run'.pair = runtime.pair /\ run'.user = runtime.user
      /\ run'.upserts = {} /\ run'.rows = {} /\ run'.drops = {}
  BY <1>1, <1>2, <1>4, IdleFacts DEF Runs
<1>6. SessionFine' /\ RowFine' /\ RunFine'
  BY <1>1, <1>2, <1>3, <1>4, <1>5, SessionSame, RowSame DEF RunFine, CallbackInv
<1>7. StrayPart'
  BY <1>1, <1>3, <1>5 DEF StrayPart
<1>8. CleanPart'
  <2> SUFFICES ASSUME clean
               PROVE  ~refused /\ ~crossed /\ UnmadeInv' /\ OwnersInv' /\ CycleInv' /\ PendingInv'
    BY <1>3 DEF CleanPart
  <2>1. UnmadeInv' /\ OwnersInv' /\ PendingInv'
    BY <1>1, <1>3, <1>5, CleanFacts DEF UnmadeInv, OwnersInv, PendingInv, FreeFor, Unmarked
  <2>2. CycleInv'
    BY <1>1, <1>2, <1>3, <1>5, CleanFacts DEF CycleInv, Claims
  <2> QED BY <1>1, <2>1, <2>2, CleanFacts
<1> QED BY <1>6, <1>7, <1>8 DEF AccountsInv, TypesPart

LEMMA BuildPushKeeps ==
  ASSUME AccountsInv, BuildPush
  PROVE  AccountsInv'
<1> DEFINE upserts == edited \cup Unmarked
<1> DEFINE rows == {m \in upserts : owner[m] # None}
<1>1. TypesPart /\ SessionFine /\ RowFine /\ RunFine /\ CleanPart /\ StrayPart
  BY DEF AccountsInv, TypesPart
<1>2. /\ run.pc = "build"
      /\ run' = [run EXCEPT !.pc = "push", !.upserts = upserts, !.drops = deleted, !.rows = rows]
      /\ UNCHANGED <<sessionVars, rowVars, historyVars>>
  BY DEF BuildPush
<1>3. /\ UNCHANGED <<owner, edited, deleted, migrated, remote, maker, stray, refused, clean>>
      /\ UNCHANGED <<runtime, issued, wanted, crossed>>
  BY <1>2 DEF rowVars, historyVars, sessionVars, copies, tokenVars
<1>4. upserts \subseteq Movies /\ rows \subseteq upserts /\ deleted \subseteq Movies
  BY <1>1 DEF RowFine, Unmarked
<1>5. \A m \in upserts : m \in edited \/ (m \in Movies /\ owner[m] = Local)
  BY DEF Unmarked
<1>6. \A m \in upserts \cup deleted : m \in edited \cup deleted \cup Unmarked
  OBVIOUS
<1> HIDE DEF upserts, rows
<1>7. /\ run' \in Runs /\ run'.pc = "push" /\ run'.callback = run.callback
      /\ run'.pair = run.pair /\ run'.user = run.user
      /\ run'.upserts = upserts /\ run'.rows = rows /\ run'.drops = deleted
  BY <1>1, <1>2, <1>4 DEF RunFine, Runs
<1>8. SessionFine' /\ RowFine' /\ RunFine'
  BY <1>1, <1>2, <1>3, <1>4, <1>7, SessionSame, RowSame DEF RunFine, CallbackInv
<1>9. StrayPart'
  BY <1>1, <1>2, <1>3, <1>7 DEF StrayPart
<1>10. CleanPart'
  <2> SUFFICES ASSUME clean
               PROVE  ~refused /\ ~crossed /\ UnmadeInv' /\ OwnersInv' /\ CycleInv' /\ PendingInv'
    BY <1>3 DEF CleanPart
  <2>1. OwnersInv' /\ PendingInv'
    BY <1>1, <1>3, CleanFacts DEF OwnersInv, PendingInv, FreeFor, Unmarked
  <2>2. UnmadeInv'
    <3>1. \A m \in Movies : maker[m] = None =>
            owner[m] = None /\ remote[m] = None /\ m \notin edited \cup deleted
      BY <1>1, CleanFacts DEF UnmadeInv
    <3> QED BY <1>3, <1>5, <1>7, <3>1, LocalFacts DEF UnmadeInv
  <2>3. CycleInv'
    <3>1. /\ run.callback = "none" /\ wanted \in Users
          /\ run.user = wanted /\ runtime.user = wanted /\ Claims(run.pair) = wanted
      BY <1>1, <1>2, CleanFacts, RunFacts DEF RunFine, CallbackInv
    <3>2. \A m \in upserts \cup deleted : FreeFor(wanted, m)
      BY <1>1, <1>6, <3>1, LocalFacts, CleanFacts DEF PendingInv
    <3> QED BY <1>3, <1>7, <3>1, <3>2 DEF CycleInv, Claims, FreeFor
  <2> QED BY <1>1, <2>1, <2>2, <2>3, CleanFacts
<1> QED BY <1>8, <1>9, <1>10 DEF AccountsInv, TypesPart

LEMMA RefreshTokensKeeps ==
  ASSUME AccountsInv, RefreshTokens
  PROVE  AccountsInv'
<1>1. TypesPart /\ SessionFine /\ RowFine /\ RunFine /\ CleanPart /\ StrayPart
  BY DEF AccountsInv, TypesPart
<1>2. /\ run.pc \in {"push", "pull"} /\ run.pair \in DOMAIN issued /\ Refreshed(run.pair)
      /\ run' = [run EXCEPT !.pc = IF run.pc = "push" THEN "repush" ELSE "repull",
                            !.callback = "tokens", !.pair = NewPair, !.read = runtime]
      /\ UNCHANGED <<rowVars, historyVars>>
  BY <1>1 DEF RefreshTokens, RunFine
<1>3. UNCHANGED <<owner, edited, deleted, migrated, remote, maker, stray, refused, clean>>
  BY <1>2 DEF rowVars, historyVars
<1>4. /\ SessionFine' /\ UNCHANGED <<runtime, wanted, crossed>>
      /\ NewPair \in Pairs /\ NewPair \in DOMAIN issued' /\ issued'[NewPair] = issued[run.pair]
  BY <1>1, <1>2, RefreshedKeeps
<1>5. /\ run' \in Runs /\ run'.pc \in {"repush", "repull"} /\ run'.callback = "tokens"
      /\ run'.pair = NewPair /\ run'.user = run.user /\ run'.read = runtime
      /\ run'.upserts = run.upserts /\ run'.rows = run.rows /\ run'.drops = run.drops
  <2>1. runtime \in SessionRecords /\ run \in Runs
    BY <1>1, CopyFacts DEF RunFine
  <2> QED BY <1>2, <1>4, <2>1 DEF Runs
<1>6. RowFine' /\ RunFine'
  BY <1>1, <1>2, <1>4, <1>5, RowSame DEF RunFine, CallbackInv
<1>7. StrayPart'
  BY <1>1, <1>3, <1>5 DEF StrayPart
<1>8. CleanPart'
  <2> SUFFICES ASSUME clean
               PROVE  ~refused /\ ~crossed' /\ UnmadeInv' /\ OwnersInv' /\ CycleInv' /\ PendingInv'
    BY <1>3 DEF CleanPart
  <2>1. UnmadeInv' /\ OwnersInv' /\ PendingInv'
    BY <1>1, <1>3, <1>4, <1>5, CleanFacts DEF UnmadeInv, OwnersInv, PendingInv, FreeFor, Unmarked
  <2>2. CycleInv'
    <3>1. /\ run.user = wanted /\ runtime.user = wanted /\ issued[run.pair] = wanted
          /\ \A m \in run.upserts \cup run.drops : FreeFor(wanted, m)
      BY <1>1, <1>2, CleanFacts DEF CycleInv, Claims
    <3> QED BY <1>3, <1>4, <1>5, <3>1 DEF CycleInv, Claims, FreeFor
  <2> QED BY <1>1, <1>4, <2>1, <2>2, CleanFacts
<1> QED BY <1>4, <1>6, <1>7, <1>8 DEF AccountsInv, TypesPart

LEMMA OnTokensKeeps ==
  ASSUME AccountsInv, OnTokens
  PROVE  AccountsInv'
<1>1. TypesPart /\ SessionFine /\ RowFine /\ RunFine /\ CleanPart /\ StrayPart
  BY DEF AccountsInv, TypesPart
<1>2. /\ UNCHANGED <<rowVars, historyVars>>
      /\ UNCHANGED <<owner, edited, deleted, migrated, remote, maker, stray, refused, clean>>
  BY DEF OnTokens, rowVars, historyVars
<1>3. run.callback # "none" /\ run.pc \in {"repush", "repull"} /\ run.pair \in DOMAIN issued
      /\ run.read \in SessionRecords /\ run \in Runs
  BY <1>1, RunFacts DEF OnTokens, RunFine, CallbackInv
<1>4. ASSUME clean
      PROVE  /\ run.user = wanted /\ runtime.user = wanted /\ Claims(run.pair) = wanted
             /\ \A m \in run.upserts \cup run.drops : FreeFor(wanted, m)
  BY <1>1, <1>3, <1>4, CleanFacts DEF CycleInv
<1>5. CASE run.callback = "tokens"
  <2>1. /\ KeepTokens(run.read, run.pair) /\ run' = [run EXCEPT !.callback = "save"]
    BY <1>5 DEF OnTokens
  <2>2. /\ run' \in Runs /\ run'.pc = run.pc /\ run'.callback = "save" /\ run'.read = run.read
        /\ run'.pair = run.pair /\ run'.user = run.user
        /\ run'.upserts = run.upserts /\ run'.rows = run.rows /\ run'.drops = run.drops
    BY <1>3, <2>1 DEF Runs
  <2>3. SessionFine' /\ UNCHANGED issued
    BY <1>1, <1>3, <2>1, KeepTokensKeeps
  <2>4. /\ runtime' = [run.read EXCEPT !.pair = run.pair] /\ UNCHANGED wanted
        /\ crossed' = (crossed \/ run.read.user # Claims(run.pair) \/ runtime # run.read)
    BY <2>1 DEF KeepTokens, Crosses
  <2>5. RowFine' /\ RunFine' /\ StrayPart'
    BY <1>1, <1>2, <1>3, <2>2, <2>3, RowSame DEF RunFine, CallbackInv, StrayPart
  <2>6. CleanPart'
    <3> SUFFICES ASSUME clean
                 PROVE  ~refused /\ ~crossed' /\ UnmadeInv' /\ OwnersInv' /\ CycleInv' /\ PendingInv'
      BY <1>2 DEF CleanPart
    <3>1. run.read = runtime /\ run.read.user = wanted
      BY <1>1, <1>3, <1>4, <1>5, CleanFacts DEF CycleInv
    <3>2. ~crossed' /\ runtime'.user = wanted
      <4>1. runtime'.user = run.read.user
        BY <1>3, <2>4 DEF SessionRecords
      <4> QED BY <1>1, <1>4, <2>4, <3>1, <4>1, CleanFacts
    <3>3. UnmadeInv' /\ OwnersInv' /\ PendingInv'
      BY <1>1, <1>2, <1>4, <2>2, <2>4, <3>2, CleanFacts DEF UnmadeInv, OwnersInv, PendingInv, FreeFor, Unmarked
    <3>4. CycleInv'
      BY <1>2, <1>3, <1>4, <2>2, <2>3, <2>4, <3>1, <3>2 DEF CycleInv, Claims, FreeFor
    <3> QED BY <1>1, <3>2, <3>3, <3>4, CleanFacts
  <2> QED BY <2>3, <2>5, <2>6 DEF AccountsInv, TypesPart
<1>6. CASE run.callback = "save"
  <2>1. /\ SaveTokens(run.read, run.pair)
        /\ run' = [run EXCEPT !.callback = "none", !.read = NoSession]
    BY <1>6 DEF OnTokens
  <2>2. /\ run' \in Runs /\ run'.pc = run.pc /\ run'.callback = "none"
        /\ run'.pair = run.pair /\ run'.user = run.user
        /\ run'.upserts = run.upserts /\ run'.rows = run.rows /\ run'.drops = run.drops
    <3>1. NoSession \in SessionRecords
      BY <1>1, CopyFacts
    <3> QED BY <1>3, <2>1, <3>1 DEF Runs
  <2>3. SessionFine' /\ UNCHANGED issued
    BY <1>1, <1>3, <2>1, SaveTokensKeeps
  <2>4. /\ UNCHANGED <<wanted, runtime>> /\ stored' = [run.read EXCEPT !.pair = run.pair]
        /\ crossed' = (crossed \/ run.read.user # Claims(run.pair) \/ runtime # stored')
    BY <2>1 DEF SaveTokens, Crosses
  <2>5. RowFine' /\ RunFine' /\ StrayPart'
    BY <1>1, <1>2, <1>3, <2>2, <2>3, RowSame DEF RunFine, CallbackInv, StrayPart
  <2>6. CleanPart'
    <3> SUFFICES ASSUME clean
                 PROVE  ~refused /\ ~crossed' /\ UnmadeInv' /\ OwnersInv' /\ CycleInv' /\ PendingInv'
      BY <1>2 DEF CleanPart
    <3>1. runtime = [run.read EXCEPT !.pair = run.pair] /\ run.read.user = wanted
      BY <1>1, <1>3, <1>6, CleanFacts DEF CycleInv
    <3>2. ~crossed'
      BY <1>1, <1>4, <2>4, <3>1, CleanFacts
    <3>3. UnmadeInv' /\ OwnersInv' /\ PendingInv'
      BY <1>1, <1>2, <2>2, <2>4, CleanFacts DEF UnmadeInv, OwnersInv, PendingInv, FreeFor, Unmarked
    <3>4. CycleInv'
      BY <1>2, <1>3, <1>4, <2>2, <2>3, <2>4 DEF CycleInv, Claims, FreeFor
    <3> QED BY <1>1, <3>2, <3>3, <3>4, CleanFacts
  <2> QED BY <2>3, <2>5, <2>6 DEF AccountsInv, TypesPart
<1> QED BY <1>5, <1>6 DEF OnTokens

\* A clean import finds no foreign row, and its rows become the account's.
LEMMA ImportKeeps ==
  ASSUME AccountsInv, Import
  PROVE  AccountsInv'
<1> DEFINE account == Claims(run.pair)
<1> DEFINE foreign == {m \in run.rows : Foreign(m, account)}
<1>1. TypesPart /\ SessionFine /\ RowFine /\ RunFine /\ CleanPart /\ StrayPart
  BY DEF AccountsInv, TypesPart
<1>2. /\ run.pc \in {"push", "repush"} /\ run.callback = "none"
      /\ \/ /\ foreign = {} /\ StoreRemote(account, run.rows)
            /\ run' = [run EXCEPT !.pc = "acked"] /\ UNCHANGED refused
         \/ /\ foreign # {} /\ refused' = TRUE /\ run' = Unbuilt
            /\ \E some \in SUBSET (run.rows \ foreign) : StoreRemote(account, some)
      /\ UNCHANGED <<sessionVars, owner, edited, deleted, migrated, maker, stray, clean>>
  BY DEF Import, Requests
<1>3. UNCHANGED <<runtime, issued, wanted, crossed>>
  BY <1>2 DEF sessionVars, copies, tokenVars
<1>4. run \in Runs /\ run.rows \subseteq run.upserts /\ run.upserts \subseteq Movies
      /\ run.pair \in DOMAIN issued /\ account \in Users /\ run.pc # "idle" /\ run.user \in Users
  BY <1>1, <1>2, RunFacts, CopyFacts DEF RunFine, CallbackInv
<1> HIDE DEF account, foreign
<1>5. PICK rows \in SUBSET run.rows :
        remote' = [m \in Movies |-> IF m \in rows THEN account
                                    ELSE IF m \in Dropped(account) THEN None ELSE remote[m]]
  BY <1>2 DEF StoreRemote
<1>6. /\ run' \in Runs /\ run'.pc \in {"acked", "build"} /\ run'.callback = "none"
      /\ run'.pair = run.pair /\ run'.user = run.user /\ run'.rows \subseteq run'.upserts
      /\ run'.upserts \subseteq run.upserts /\ run'.drops \subseteq run.drops
  <2>1. CASE run' = [run EXCEPT !.pc = "acked"]
    BY <1>2, <1>4, <2>1 DEF Runs
  <2>2. CASE run' = Unbuilt
    BY <1>1, <1>2, <2>2, IdleFacts
  <2> QED BY <1>2, <2>1, <2>2
<1>7. RowFine'
  <2>1. refused' \in BOOLEAN
    <3>1. refused \in BOOLEAN
      BY <1>1 DEF RowFine
    <3> QED BY <1>2, <3>1
  <2>2. remote' \in [Movies -> Users \cup {None}]
    BY <1>1, <1>4, <1>5 DEF RowFine
  <2> QED BY <1>1, <1>2, <2>1, <2>2 DEF RowFine
<1>8. SessionFine' /\ RunFine'
  BY <1>1, <1>2, <1>3, <1>4, <1>6, SessionSame DEF RunFine, CallbackInv
<1>9. StrayPart'
  BY <1>1, <1>2, <1>6 DEF StrayPart
<1>10. CleanPart'
  <2> SUFFICES ASSUME clean
               PROVE  ~refused' /\ ~crossed /\ UnmadeInv' /\ OwnersInv' /\ CycleInv' /\ PendingInv'
    BY <1>2, <1>3 DEF CleanPart
  <2>1. /\ account = wanted /\ run.user = wanted /\ runtime.user = wanted
        /\ \A m \in run.upserts \cup run.drops : FreeFor(wanted, m)
        /\ UnmadeInv /\ OwnersInv /\ PendingInv /\ ~refused /\ ~crossed
    BY <1>1, <1>4, CleanFacts DEF CycleInv, account
  <2>2. foreign = {}
    <3>1. ASSUME NEW m \in run.rows
          PROVE  remote[m] \in {None, wanted}
      <4>1. remote[m] \in Users \cup {None} /\ FreeFor(wanted, m)
        BY <1>1, <1>4, <2>1 DEF RowFine
      <4> QED BY <4>1, LocalFacts DEF FreeFor
    <3> QED BY <2>1, <3>1 DEF foreign, Foreign
  <2>3. ~refused'
    BY <1>2, <2>1, <2>2
  <2>4. \A m \in Movies : \/ m \in run.upserts /\ remote'[m] = wanted
                          \/ remote'[m] \in {remote[m], None}
    BY <1>4, <1>5, <2>1
  <2>5. UnmadeInv'
    BY <1>2, <1>6, <2>1, <2>4 DEF UnmadeInv
  <2>6. OwnersInv'
    <3>1. ASSUME NEW m \in run.upserts
          PROVE  /\ maker[m] \in {Local, wanted}
                 /\ owner[m] \in Users => owner[m] = wanted
      <4>1. FreeFor(wanted, m) /\ maker[m] # None
        BY <1>4, <2>1 DEF UnmadeInv
      <4> QED BY <4>1, LocalFacts DEF FreeFor
    <3> QED BY <1>2, <2>1, <2>4, <3>1 DEF OwnersInv
  <2>7. \A m \in Movies : FreeFor(wanted, m) => FreeFor(wanted, m)'
    BY <1>2, <1>3, <2>4 DEF FreeFor
  <2>8. CycleInv'
    <3>1. \A m \in run'.upserts \cup run'.drops : m \in Movies /\ m \in run.upserts \cup run.drops
      BY <1>4, <1>6, RunFacts
    <3> QED BY <1>3, <1>6, <2>1, <2>7, <3>1 DEF CycleInv, Claims, account
  <2>9. PendingInv'
    <3>1. \A m \in edited \cup deleted \cup Unmarked : m \in Movies
      BY <1>1 DEF RowFine, Unmarked
    <3> QED BY <1>2, <1>3, <2>1, <2>7, <3>1 DEF PendingInv, Unmarked
  <2> QED BY <2>1, <2>3, <2>5, <2>6, <2>8, <2>9
<1> QED BY <1>7, <1>8, <1>9, <1>10 DEF AccountsInv, TypesPart

LEMMA ClearMarksKeeps ==
  ASSUME AccountsInv, ClearMarks
  PROVE  AccountsInv'
<1>1. TypesPart /\ SessionFine /\ RowFine /\ RunFine /\ CleanPart /\ StrayPart
  BY DEF AccountsInv, TypesPart
<1>2. /\ run.pc = "acked" /\ edited' \subseteq edited /\ deleted' \subseteq deleted
      /\ run' = [run EXCEPT !.pc = "pull", !.upserts = {}, !.rows = {}, !.drops = {}]
      /\ UNCHANGED <<sessionVars, owner, migrated, remote, historyVars>>
  BY DEF ClearMarks
<1>3. UNCHANGED <<runtime, issued, wanted, crossed, maker, stray, refused, clean>>
  BY <1>2 DEF sessionVars, copies, tokenVars, historyVars
<1>4. /\ run' \in Runs /\ run'.pc = "pull" /\ run'.callback = "none" /\ run.callback = "none"
      /\ run'.pair = run.pair /\ run'.user = run.user
      /\ run'.upserts = {} /\ run'.rows = {} /\ run'.drops = {}
  BY <1>1, <1>2, RunFacts DEF RunFine, CallbackInv, Runs
<1>5. SessionFine' /\ RowFine' /\ RunFine'
  BY <1>1, <1>2, <1>3, <1>4, SessionSame DEF RowFine, RunFine, CallbackInv
<1>6. StrayPart'
  BY <1>1, <1>2, <1>3, <1>4 DEF StrayPart
<1>7. CleanPart'
  <2> SUFFICES ASSUME clean
               PROVE  ~refused /\ ~crossed /\ UnmadeInv' /\ OwnersInv' /\ CycleInv' /\ PendingInv'
    BY <1>3 DEF CleanPart
  <2>1. UnmadeInv' /\ OwnersInv' /\ PendingInv'
    BY <1>1, <1>2, <1>3, <1>4, CleanFacts DEF UnmadeInv, OwnersInv, PendingInv, FreeFor, Unmarked
  <2>2. CycleInv'
    BY <1>1, <1>2, <1>3, <1>4, CleanFacts DEF CycleInv, Claims
  <2> QED BY <1>1, <2>1, <2>2, CleanFacts
<1> QED BY <1>5, <1>6, <1>7 DEF AccountsInv, TypesPart

\* Rows of the account come in under its user id; none becomes one of Local.
LEMMA PullKeeps ==
  ASSUME AccountsInv, Pull
  PROVE  AccountsInv'
<1> DEFINE account == Claims(run.pair)
<1>1. TypesPart /\ SessionFine /\ RowFine /\ RunFine /\ CleanPart /\ StrayPart
  BY DEF AccountsInv, TypesPart
<1>2. /\ run.pc \in {"pull", "repull"} /\ run.callback = "none"
      /\ run' = [run EXCEPT !.pc = "migrate"] \/ run' = Unbuilt
      /\ UNCHANGED <<sessionVars, edited, deleted, migrated, remote, historyVars>>
  BY DEF Pull, Requests
<1>3. UNCHANGED <<runtime, issued, wanted, crossed, maker, stray, refused, clean>>
  BY <1>2 DEF sessionVars, copies, tokenVars, historyVars
<1>4. run \in Runs /\ run.pair \in DOMAIN issued /\ account \in Users
  BY <1>1, <1>2, CopyFacts DEF RunFine
<1>5. PICK taken \in SUBSET {m \in Movies : remote[m] = account} :
        owner' = [m \in Movies |-> IF m \in taken THEN account ELSE owner[m]]
  <2>1. PICK written \in SUBSET {m \in Movies \ deleted : remote[m] = account} :
          owner' = [m \in Movies |-> IF m \in written THEN account ELSE owner[m]]
    BY DEF Pull
  <2> QED BY <2>1
<1> HIDE DEF account
<1>6. /\ run' \in Runs /\ run'.pc \in {"migrate", "build"} /\ run'.callback = "none"
      /\ run'.pair = run.pair /\ run'.user = run.user
      /\ run'.rows \subseteq run'.upserts /\ run'.upserts \subseteq run.upserts /\ run'.drops \subseteq run.drops
  BY <1>1, <1>2, <1>4 DEF Runs, Unbuilt, RunFine, CallbackInv
<1>7. \A m \in Movies : \/ owner'[m] = account /\ remote[m] = account
                        \/ owner'[m] = owner[m]
  BY <1>5
<1>8. RowFine'
  <2>1. owner' \in [Movies -> Owners]
    BY <1>1, <1>4, <1>5 DEF RowFine, Owners
  <2> QED BY <1>1, <1>2, <1>3, <2>1 DEF RowFine
<1>9. SessionFine' /\ RunFine'
  BY <1>1, <1>2, <1>3, <1>6, SessionSame DEF RunFine, CallbackInv
<1>10. StrayPart'
  BY <1>1, <1>2, <1>3, <1>4, <1>6, <1>7, LocalFacts DEF StrayPart
<1>11. CleanPart'
  <2> SUFFICES ASSUME clean
               PROVE  ~refused /\ ~crossed /\ UnmadeInv' /\ OwnersInv' /\ CycleInv' /\ PendingInv'
    BY <1>3 DEF CleanPart
  <2>1. /\ account = wanted /\ run.user = wanted /\ runtime.user = wanted /\ wanted \in Users
        /\ \A m \in run.upserts \cup run.drops : m \in Movies /\ FreeFor(wanted, m)
        /\ UnmadeInv /\ OwnersInv /\ PendingInv /\ ~refused /\ ~crossed
    BY <1>1, <1>2, RunFacts, CleanFacts DEF CycleInv, account, RunFine
  <2>2. UnmadeInv'
    BY <1>2, <1>3, <1>6, <1>7, <2>1, LocalFacts DEF UnmadeInv
  <2>3. OwnersInv'
    BY <1>2, <1>3, <1>7, <2>1, LocalFacts DEF OwnersInv
  <2>4. \A m \in Movies : FreeFor(wanted, m) => FreeFor(wanted, m)'
    BY <1>2, <1>3, <1>7, <2>1 DEF FreeFor
  <2>5. CycleInv'
    BY <1>3, <1>6, <2>1, <2>4 DEF CycleInv, Claims, account
  <2>6. PendingInv'
    <3>1. \A m \in edited' \cup deleted' \cup Unmarked' :
            m \in Movies /\ m \in edited \cup deleted \cup Unmarked
      BY <1>1, <1>2, <1>4, <1>7, LocalFacts DEF RowFine, Unmarked
    <3> QED BY <1>3, <2>1, <2>4, <3>1, LocalFacts DEF PendingInv
  <2> QED BY <2>1, <2>2, <2>3, <2>5, <2>6
<1> QED BY <1>8, <1>9, <1>10, <1>11 DEF AccountsInv, TypesPart

\* The cycle ends, or begins another attempt, and the rows stay as they are.
LEMMA EndKeeps ==
  ASSUME AccountsInv, run' \in {Unbuilt, IdleRun}, run' = Unbuilt => run.pc # "idle",
         run.callback = "none", migrated' \in BOOLEAN,
         migrated => migrated', migrated' => migrated \/ run.pc = "commit",
         UNCHANGED <<sessionVars, owner, edited, deleted, remote, historyVars>>
  PROVE  AccountsInv'
<1>1. TypesPart /\ SessionFine /\ RowFine /\ RunFine /\ CleanPart /\ StrayPart
  BY DEF AccountsInv, TypesPart
<1>2. UNCHANGED <<runtime, issued, wanted, crossed, maker, stray, refused, clean>>
  BY DEF sessionVars, copies, tokenVars, historyVars
<1>3. /\ run' \in Runs /\ run'.pc \in {"idle", "build"} /\ run'.callback = "none"
      /\ run'.upserts = {} /\ run'.rows = {} /\ run'.drops = {}
      /\ run'.pc # "idle" => run.pc # "idle" /\ run'.pair = run.pair /\ run'.user = run.user
  BY <1>1, IdleFacts
<1>4. SessionFine' /\ RowFine' /\ RunFine'
  BY <1>1, <1>2, <1>3, SessionSame DEF RowFine, RunFine, CallbackInv
<1>5. StrayPart'
  BY <1>1, <1>2, <1>3 DEF StrayPart
<1>6. CleanPart'
  <2> SUFFICES ASSUME clean
               PROVE  ~refused /\ ~crossed /\ UnmadeInv' /\ OwnersInv' /\ CycleInv' /\ PendingInv'
    BY <1>2 DEF CleanPart
  <2>1. UnmadeInv' /\ OwnersInv'
    BY <1>1, <1>2, <1>3, CleanFacts DEF UnmadeInv, OwnersInv
  <2>2. CycleInv'
    BY <1>1, <1>2, <1>3, CleanFacts DEF CycleInv, Claims
  <2>3. Unmarked' \subseteq Unmarked
    BY DEF Unmarked
  <2>4. PendingInv'
    BY <1>1, <1>2, <2>3, CleanFacts DEF PendingInv, FreeFor
  <2> QED BY <1>1, <2>1, <2>2, <2>4, CleanFacts
<1> QED BY <1>4, <1>5, <1>6 DEF AccountsInv, TypesPart

LEMMA OutOfRequest ==
  ASSUME RunFine, run.pc \in {"migrate", "commit"}
  PROVE  run.callback = "none"
BY RunFacts DEF RunFine, CallbackInv

LEMMA MigrateKeeps ==
  ASSUME AccountsInv, Migrate
  PROVE  AccountsInv'
<1>1. TypesPart /\ SessionFine /\ RowFine /\ RunFine /\ CleanPart /\ StrayPart /\ migrated \in BOOLEAN
  BY DEF AccountsInv, TypesPart, RowFine
<1>2. run.pc = "migrate" /\ run.callback = "none" /\ run \in Runs
      /\ run.pair \in DOMAIN issued /\ run.user \in Users
  BY <1>1, OutOfRequest DEF Migrate, RunFine
<1>3. CASE migrated
  <2>1. run' = IdleRun /\ UNCHANGED <<owner, migrated>>
        /\ UNCHANGED <<sessionVars, edited, deleted, remote, historyVars>>
    BY <1>3 DEF Migrate
  <2> QED BY <1>1, <1>2, <2>1, EndKeeps
<1>4. CASE ~migrated
  <2>1. /\ run' = [run EXCEPT !.pc = "commit"] /\ UNCHANGED migrated
        /\ owner' = [m \in Movies |-> IF owner[m] = Local THEN run.user ELSE owner[m]]
        /\ UNCHANGED <<sessionVars, edited, deleted, remote, historyVars>>
    BY <1>4 DEF Migrate, MigrateUserID
  <2>2. UNCHANGED <<runtime, issued, wanted, crossed, maker, stray, refused, clean>>
    BY <2>1 DEF sessionVars, copies, tokenVars, historyVars
  <2>3. /\ run' \in Runs /\ run'.pc = "commit" /\ run'.callback = "none"
        /\ run'.pair = run.pair /\ run'.user = run.user
        /\ run'.upserts = run.upserts /\ run'.rows = run.rows /\ run'.drops = run.drops
    BY <1>2, <2>1 DEF Runs
  <2>4. \A m \in Movies : owner'[m] = IF owner[m] = Local THEN run.user ELSE owner[m]
    BY <2>1
  <2>5. RowFine'
    <3>1. owner' \in [Movies -> Owners]
      BY <1>1, <1>2, <2>1 DEF RowFine, Owners
    <3> QED BY <1>1, <2>1, <2>2, <3>1 DEF RowFine
  <2>6. SessionFine' /\ RunFine'
    BY <1>1, <1>2, <2>1, <2>2, <2>3, SessionSame DEF RunFine, CallbackInv
  <2>7. StrayPart'
    BY <1>2, <2>4, LocalFacts DEF StrayPart
  <2>8. CleanPart'
    <3> SUFFICES ASSUME clean
                 PROVE  ~refused /\ ~crossed /\ UnmadeInv' /\ OwnersInv' /\ CycleInv' /\ PendingInv'
      BY <2>2 DEF CleanPart
    <3>1. /\ run.user = wanted /\ runtime.user = wanted /\ wanted \in Users /\ Claims(run.pair) = wanted
          /\ \A m \in run.upserts \cup run.drops : m \in Movies /\ FreeFor(wanted, m)
          /\ UnmadeInv /\ OwnersInv /\ PendingInv /\ ~refused /\ ~crossed
      BY <1>1, <1>2, RunFacts, CleanFacts DEF CycleInv
    <3>2. \A m \in Movies : owner[m] = Local =>
            owner'[m] = wanted /\ FreeFor(wanted, m) /\ maker[m] # None
      BY <1>4, <2>4, <3>1, LocalFacts DEF PendingInv, Unmarked, UnmadeInv
    <3>3. UnmadeInv'
      BY <2>1, <2>2, <2>3, <2>4, <3>1, <3>2, LocalFacts DEF UnmadeInv
    <3>4. OwnersInv'
      <4>1. ASSUME NEW m \in Movies, owner[m] = Local
            PROVE  maker[m] \in {Local, wanted} /\ remote[m] \in {None, wanted}
        <5>1. FreeFor(wanted, m) /\ maker[m] # None /\ remote[m] \in Users \cup {None}
          BY <1>1, <3>2, <4>1 DEF RowFine
        <5> QED BY <5>1, LocalFacts DEF FreeFor
      <4> QED BY <2>1, <2>2, <2>4, <3>1, <3>2, <4>1 DEF OwnersInv
    <3>5. \A m \in Movies : FreeFor(wanted, m) => FreeFor(wanted, m)'
      BY <2>1, <2>2, <2>4, <3>1 DEF FreeFor
    <3>6. CycleInv'
      BY <2>2, <2>3, <3>1, <3>5 DEF CycleInv, Claims
    <3>7. PendingInv'
      <4>1. \A m \in edited' \cup deleted' \cup Unmarked' :
              m \in Movies /\ m \in edited \cup deleted \cup Unmarked
        BY <1>1, <1>2, <2>1, <2>4, LocalFacts DEF RowFine, Unmarked
      <4> QED BY <2>2, <3>1, <3>5, <4>1, LocalFacts DEF PendingInv
    <3> QED BY <3>1, <3>3, <3>4, <3>6, <3>7
  <2> QED BY <2>5, <2>6, <2>7, <2>8 DEF AccountsInv, TypesPart
<1> QED BY <1>3, <1>4

LEMMA UpdateMetadataKeeps ==
  ASSUME AccountsInv, UpdateMetadata
  PROVE  AccountsInv'
<1>1. run.pc = "commit" /\ run.callback = "none"
  BY OutOfRequest DEF UpdateMetadata, AccountsInv, TypesPart
<1>2. migrated' = TRUE /\ run' = IdleRun
      /\ UNCHANGED <<sessionVars, owner, edited, deleted, remote, historyVars>>
  BY DEF UpdateMetadata
<1>3. run' = Unbuilt => run.pc # "idle"
  BY <1>1
<1>4. migrated' \in BOOLEAN /\ (migrated => migrated')
  BY <1>2
<1> QED BY <1>1, <1>2, <1>3, <1>4, EndKeeps

LEMMA AttemptFailsKeeps ==
  ASSUME AccountsInv, AttemptFails
  PROVE  AccountsInv'
<1>1. migrated \in BOOLEAN
  BY DEF AccountsInv, TypesPart, RowFine
<1>2. /\ run.pc # "idle" /\ run.callback = "none" /\ run' \in {Unbuilt, IdleRun}
      /\ UNCHANGED <<sessionVars, owner, edited, deleted, migrated, remote, historyVars>>
  BY DEF AttemptFails, rowVars
<1> QED BY <1>1, <1>2, EndKeeps

(***************************************************************************)
(* The user.                                                               *)
(***************************************************************************)

LEMMA UserIDFacts ==
  ASSUME TypesPart
  PROVE  /\ UserID \in Users \cup {Local} /\ UserID # None
         /\ UserID # Local => migrated /\ UserID = runtime.user
         /\ migrated /\ runtime.user # None => UserID = runtime.user
<1>1. runtime.user \in Users \cup {None}
  BY CopyFacts DEF TypesPart
<1> QED BY <1>1, LocalFacts DEF UserID

LEMMA CreateKeeps ==
  ASSUME AccountsInv, NEW m \in Movies, Create(m)
  PROVE  AccountsInv'
<1> DEFINE id == UserID
<1>1. TypesPart /\ SessionFine /\ RowFine /\ RunFine /\ CleanPart /\ StrayPart
  BY DEF AccountsInv, TypesPart
<1>2. /\ maker[m] = None /\ owner' = [owner EXCEPT ![m] = id] /\ edited' = edited \cup {m}
      /\ maker' = [maker EXCEPT ![m] = id]
      /\ stray' = IF id = Local /\ TooLate THEN stray \cup {m} ELSE stray
      /\ UNCHANGED <<sessionVars, deleted, migrated, remote, run, refused, clean>>
  BY DEF Create
<1>3. UNCHANGED <<runtime, issued, wanted, crossed>>
  BY <1>2 DEF sessionVars, copies, tokenVars
<1>4. /\ id \in Users \cup {Local} /\ id # None
      /\ id # Local => migrated /\ id = runtime.user
      /\ migrated /\ runtime.user # None => id = runtime.user
  BY <1>1, UserIDFacts
<1> HIDE DEF id
<1>5. RowFine'
  <2>1. id \in Owners
    BY <1>4 DEF Owners
  <2> QED BY <1>1, <1>2, <2>1 DEF RowFine
<1>6. /\ owner'[m] = id /\ maker'[m] = id
      /\ \A n \in Movies : n # m => owner'[n] = owner[n] /\ maker'[n] = maker[n]
  BY <1>1, <1>2 DEF RowFine
<1>7. SessionFine' /\ RunFine'
  BY <1>1, <1>2, <1>3, SessionSame, RunSame
<1>8. StrayPart'
  BY <1>1, <1>2, <1>6 DEF StrayPart, TooLate
<1>9. CleanPart'
  <2> SUFFICES ASSUME clean
               PROVE  ~refused /\ ~crossed /\ UnmadeInv' /\ OwnersInv' /\ CycleInv' /\ PendingInv'
    BY <1>2, <1>3 DEF CleanPart
  <2>1. /\ UnmadeInv /\ OwnersInv /\ CycleInv /\ PendingInv /\ ~refused /\ ~crossed
        /\ runtime.user # None => runtime.user = wanted
    BY <1>1, CleanFacts
  <2>2. remote[m] = None /\ m \notin run.upserts \cup run.drops
    BY <1>2, <2>1 DEF UnmadeInv
  <2>3. UnmadeInv'
    BY <1>2, <1>4, <1>6, <2>1 DEF UnmadeInv
  <2>4. OwnersInv'
    BY <1>2, <1>6, <2>1, <2>2 DEF OwnersInv
  <2>5. \A n \in Movies : n # m /\ FreeFor(wanted, n) => FreeFor(wanted, n)'
    BY <1>2, <1>3, <1>6 DEF FreeFor
  <2>6. CycleInv'
    <3>1. \A n \in run.upserts \cup run.drops : n \in Movies /\ n # m
      BY <1>1, <2>2, RunFacts DEF RunFine
    <3> QED BY <1>2, <1>3, <2>1, <2>5, <3>1 DEF CycleInv, Claims
  <2>7. PendingInv'
    <3>1. runtime.user # None => FreeFor(wanted, m)'
      BY <1>2, <1>3, <1>4, <1>6, <2>1, <2>2 DEF FreeFor
    <3>2. \A n \in edited' \cup deleted' \cup Unmarked' :
            n = m \/ (n \in Movies /\ n \in edited \cup deleted \cup Unmarked)
      BY <1>1, <1>2, <1>6 DEF RowFine, Unmarked
    <3> QED BY <1>3, <2>1, <2>5, <3>1, <3>2 DEF PendingInv
  <2> QED BY <2>1, <2>3, <2>4, <2>6, <2>7
<1> QED BY <1>5, <1>7, <1>8, <1>9 DEF AccountsInv, TypesPart

LEMMA EditKeeps ==
  ASSUME AccountsInv, NEW m \in Movies, Edit(m) \/ Delete(m)
  PROVE  AccountsInv'
<1>1. TypesPart /\ SessionFine /\ RowFine /\ RunFine /\ CleanPart /\ StrayPart
  BY DEF AccountsInv, TypesPart
<1>2. /\ owner[m] = UserID
      /\ owner' = owner \/ owner' = [owner EXCEPT ![m] = None]
      /\ edited' \cup deleted' = edited \cup deleted \cup {m}
      /\ edited' \subseteq Movies /\ deleted' \subseteq Movies
      /\ UNCHANGED <<sessionVars, migrated, remote, run, historyVars>>
  BY <1>1 DEF Edit, Delete, Visible, RowFine
<1>3. UNCHANGED <<runtime, issued, wanted, crossed, maker, stray, refused, clean>>
  BY <1>2 DEF sessionVars, copies, tokenVars, historyVars
<1>4. owner' \in [Movies -> Owners] /\ \A n \in Movies : owner'[n] \in {owner[n], None}
  BY <1>1, <1>2 DEF RowFine, Owners
<1>5. SessionFine' /\ RowFine' /\ RunFine'
  BY <1>1, <1>2, <1>3, <1>4, SessionSame, RunSame DEF RowFine
<1>6. StrayPart'
  BY <1>1, <1>2, <1>3, <1>4, LocalFacts DEF StrayPart
<1>7. CleanPart'
  <2> SUFFICES ASSUME clean
               PROVE  ~refused /\ ~crossed /\ UnmadeInv' /\ OwnersInv' /\ CycleInv' /\ PendingInv'
    BY <1>3 DEF CleanPart
  <2>1. /\ UnmadeInv /\ OwnersInv /\ CycleInv /\ PendingInv /\ ~refused /\ ~crossed
        /\ runtime.user # None => runtime.user = wanted
    BY <1>1, CleanFacts
  <2>2. owner[m] # None /\ maker[m] # None
    BY <1>1, <1>2, <2>1, UserIDFacts DEF UnmadeInv
  <2>3. UnmadeInv'
    BY <1>2, <1>3, <1>4, <2>1, <2>2 DEF UnmadeInv
  <2>4. OwnersInv'
    BY <1>2, <1>3, <1>4, <2>1, LocalFacts DEF OwnersInv
  <2>5. \A n \in Movies : FreeFor(wanted, n) => FreeFor(wanted, n)'
    BY <1>2, <1>3, <1>4 DEF FreeFor
  <2>6. CycleInv'
    <3>1. \A n \in run.upserts \cup run.drops : n \in Movies
      BY <1>1, RunFacts DEF RunFine
    <3> QED BY <1>2, <1>3, <2>1, <2>5, <3>1 DEF CycleInv, Claims
  <2>7. PendingInv'
    <3>1. ASSUME runtime.user # None
          PROVE  FreeFor(wanted, m)
      <4>1. CASE owner[m] = Local
        <5>1. ~migrated
          BY <1>1, <1>2, <3>1, <4>1, CopyFacts, LocalFacts, UserIDFacts
        <5> QED BY <2>1, <3>1, <4>1, <5>1 DEF PendingInv, Unmarked
      <4>2. CASE owner[m] # Local
        <5>1. owner[m] = wanted /\ owner[m] \in Users
          BY <1>1, <1>2, <2>1, <3>1, <4>2, UserIDFacts
        <5> QED BY <2>1, <5>1 DEF OwnersInv, FreeFor
      <4> QED BY <4>1, <4>2
    <3>2. \A n \in edited' \cup deleted' \cup Unmarked' :
            n = m \/ (n \in Movies /\ n \in edited \cup deleted \cup Unmarked)
      BY <1>1, <1>2, <1>4, LocalFacts DEF RowFine, Unmarked
    <3> QED BY <1>3, <2>1, <2>5, <3>1, <3>2 DEF PendingInv
  <2> QED BY <2>1, <2>3, <2>4, <2>6, <2>7
<1> QED BY <1>5, <1>6, <1>7 DEF AccountsInv, TypesPart

LEMMA CreateElsewhereKeeps ==
  ASSUME AccountsInv, NEW m \in Movies, NEW u \in Users, CreateElsewhere(m, u)
  PROVE  AccountsInv'
<1>1. TypesPart /\ SessionFine /\ RowFine /\ RunFine /\ CleanPart /\ StrayPart
  BY DEF AccountsInv, TypesPart
<1>2. /\ maker[m] = None
      /\ remote' = [remote EXCEPT ![m] = u] /\ maker' = [maker EXCEPT ![m] = u]
      /\ UNCHANGED <<sessionVars, owner, edited, deleted, migrated, run, stray, refused, clean>>
  BY DEF CreateElsewhere
<1>3. UNCHANGED <<runtime, issued, wanted, crossed>>
  BY <1>2 DEF sessionVars, copies, tokenVars
<1>4. RowFine'
  BY <1>1, <1>2 DEF RowFine, Owners
<1>5. /\ remote'[m] = u /\ maker'[m] = u
      /\ \A n \in Movies : n # m => remote'[n] = remote[n] /\ maker'[n] = maker[n]
  BY <1>1, <1>2 DEF RowFine
<1>6. SessionFine' /\ RunFine' /\ StrayPart'
  BY <1>1, <1>2, <1>3, SessionSame, RunSame, StraySame
<1>7. CleanPart'
  <2> SUFFICES ASSUME clean
               PROVE  ~refused /\ ~crossed /\ UnmadeInv' /\ OwnersInv' /\ CycleInv' /\ PendingInv'
    BY <1>2, <1>3 DEF CleanPart
  <2>1. /\ UnmadeInv /\ OwnersInv /\ CycleInv /\ PendingInv /\ ~refused /\ ~crossed
    BY <1>1, CleanFacts
  <2>2. owner[m] = None /\ m \notin edited \cup deleted \cup run.upserts \cup run.drops
    BY <1>2, <2>1 DEF UnmadeInv
  <2>3. UnmadeInv' /\ OwnersInv'
    BY <1>2, <1>5, <2>1, <2>2, LocalFacts DEF UnmadeInv, OwnersInv
  <2>4. \A n \in Movies : n # m /\ FreeFor(wanted, n) => FreeFor(wanted, n)'
    BY <1>2, <1>3, <1>5 DEF FreeFor
  <2>5. CycleInv'
    <3>1. \A n \in run.upserts \cup run.drops : n \in Movies /\ n # m
      BY <1>1, <2>2, RunFacts DEF RunFine
    <3> QED BY <1>2, <1>3, <2>1, <2>4, <3>1 DEF CycleInv, Claims
  <2>6. PendingInv'
    <3>1. Unmarked' = Unmarked /\ \A n \in edited \cup deleted \cup Unmarked : n \in Movies /\ n # m
      BY <1>1, <1>2, <2>2, LocalFacts DEF RowFine, Unmarked
    <3> QED BY <1>2, <1>3, <2>1, <2>4, <3>1 DEF PendingInv
  <2> QED BY <2>1, <2>3, <2>5, <2>6
<1> QED BY <1>4, <1>6, <1>7 DEF AccountsInv, TypesPart

(***************************************************************************)
(* The invariant and the properties.                                       *)
(***************************************************************************)

LEMMA InitHolds ==
  ASSUME Init
  PROVE  AccountsInv
<1>1. /\ memory = NoSession /\ runtime = NoSession /\ stored = NoSession
      /\ offlineMode \in BOOLEAN /\ issued = <<>> /\ expired = {} /\ answers = {}
      /\ wanted = None /\ crossed = FALSE
  BY DEF Init, SessionsInit
<1>2. /\ owner = [m \in Movies |-> None] /\ remote = [m \in Movies |-> None]
      /\ edited = {} /\ deleted = {} /\ migrated = FALSE /\ run = IdleRun
      /\ maker = [m \in Movies |-> None] /\ stray = {}
      /\ refused = FALSE /\ clean = TRUE
  BY DEF Init
<1>3. 0 \in Pairs /\ MaxPairs \in Nat
  BY SessionsAssumption DEF Pairs
<1>4. NoSession \in SessionRecords /\ NoSession.pair = 0 /\ NoSession.user = None
  BY <1>3 DEF NoSession, SessionRecords
<1>5. issued \in Seq(Users) /\ Len(issued) = 0
  BY <1>1
<1>6. SessionsTypeOK
  <2>1. offlineMode \in BOOLEAN /\ crossed \in BOOLEAN
    BY <1>1
  <2>2. Len(issued) <= MaxPairs
    BY <1>3, <1>5
  <2>3. expired \subseteq DOMAIN issued /\ answers \subseteq SessionRecords
    BY <1>1
  <2> QED BY <1>1, <1>4, <1>5, <2>1, <2>2, <2>3 DEF SessionsTypeOK
<1>7. PairsIssued /\ SessionsBelong
  BY <1>1, <1>4, <1>5 DEF PairsIssued, SessionsBelong
<1>8. /\ run \in Runs /\ run.pc = "idle" /\ run.callback = "none"
      /\ run.upserts = {} /\ run.rows = {} /\ run.drops = {}
  BY <1>2, <1>3, <1>4 DEF IdleRun, Runs
<1>9. RowFine
  BY <1>2 DEF RowFine, Owners
<1>10. RunFine
  BY <1>8 DEF RunFine, CallbackInv
<1>11. StrayPart
  BY <1>2, <1>8 DEF StrayPart
<1>12. CleanPart
  BY <1>1, <1>2, <1>4, <1>8, LocalFacts DEF CleanPart, UnmadeInv, OwnersInv, CycleInv, PendingInv
<1> QED BY <1>6, <1>7, <1>9, <1>10, <1>11, <1>12 DEF AccountsInv, TypesPart, SessionFine

LEMMA NextKeeps ==
  ASSUME AccountsInv, [Next]_vars
  PROVE  AccountsInv'
<1>1. CASE UNCHANGED vars
  <2>1. UNCHANGED <<sessionVars, rowVars, run, historyVars>>
    BY <1>1 DEF vars
  <2>2. UNCHANGED <<issued, runtime, wanted, crossed>>
    BY <2>1 DEF sessionVars, copies, tokenVars
  <2>3. SessionFine' /\ RowFine' /\ RunFine'
    BY <2>1, <2>2, SessionSame, RowSame, RunSame DEF AccountsInv, TypesPart
  <2>4. CleanPart'
    BY <2>1, <2>2, CleanSame DEF AccountsInv
  <2>5. StrayPart'
    BY <2>1, StraySame DEF AccountsInv, rowVars, historyVars
  <2> QED BY <2>3, <2>4, <2>5 DEF AccountsInv, TypesPart
<1>2. CASE Next
  BY <1>2, SessionKeeps, RestartKeeps, StartRunKeeps, BuildPushKeeps, RefreshTokensKeeps,
     OnTokensKeeps, ImportKeeps, ClearMarksKeeps, PullKeeps, MigrateKeeps, UpdateMetadataKeeps,
     AttemptFailsKeeps, CreateKeeps, EditKeeps, CreateElsewhereKeeps DEF Next, Cycle, User
<1> QED BY <1>1, <1>2

\* AccountsInv holds in every reachable state, for every set of accounts and
\* movies (app/cli.go, sync/service.go, server/sync_handlers.go).
THEOREM AccountsInvariant == Spec => []AccountsInv
<1>1. Init => AccountsInv
  BY InitHolds
<1>2. AccountsInv /\ [Next]_vars => AccountsInv'
  BY NextKeeps
<1> QED BY <1>1, <1>2, PTL DEF Spec

\* The variables keep their types.
THEOREM AccountsTypeCorrect == Spec => []AccountsTypeOK
<1>1. AccountsInv => AccountsTypeOK
  BY DEF AccountsInv, TypesPart, SessionFine, RowFine, RunFine, AccountsTypeOK
<1> QED BY <1>1, AccountsInvariant, PTL

\* Interface, sync service and file hold the session of the last login until a
\* refresh crosses a login or a logout (app/cli.go:147).
THEOREM SessionsTheorem == Spec => []SessionsBelong
<1>1. AccountsInv => SessionsBelong
  BY DEF AccountsInv, TypesPart, SessionFine
<1> QED BY <1>1, AccountsInvariant, PTL

\* With clean switches only, no push is refused and no movie is given to an
\* account that did not make it (sync/service.go:293).
THEOREM SwitchTheorem == Spec => []CleanSwitchIsSafe
<1>1. AccountsInv => CleanSwitchIsSafe
  BY DEF AccountsInv, CleanPart, OwnersInv, CleanSwitchIsSafe
<1> QED BY <1>1, AccountsInvariant, PTL

\* After the migration only strays are left under Local (sync/service.go:210).
THEOREM StrayTheorem == Spec => []LocalRowsAreStray
<1>1. AccountsInv => LocalRowsAreStray
  BY DEF AccountsInv, StrayPart, LocalRowsAreStray
<1> QED BY <1>1, AccountsInvariant, PTL
=============================================================================
