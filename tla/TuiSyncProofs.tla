--------------------------- MODULE TuiSyncProofs ---------------------------
(***************************************************************************)
(* Proofs about the scheduling of cycles.  TuiSyncInv adds to the safety   *)
(* properties that at most one cycle holds runMu; under it each step is,   *)
(* for the cycles, one of six kinds, which also is how the refinement of   *)
(* SerialWork goes: a cycle starts, takes the lock, is turned away, leaves *)
(* or the program ends.                                                    *)
(***************************************************************************)
EXTENDS TuiSync, FiniteSetTheorems, WellFoundedInduction, TLAPS

\* runMu is held by one cycle at most.
OneRuns == \A c, d \in Running : c = d

TuiSyncInv ==
  /\ TuiSyncTypeOK /\ OneRuns
  /\ OverlapBound /\ TickAccount /\ AutoSyncEndsOffline /\ SelectionIsOpen

(***************************************************************************)
(* Sets.                                                                   *)
(***************************************************************************)

\* The smallest of some natural numbers is one of them.
LEMMA MinFact ==
  ASSUME NEW S \in SUBSET Nat, S # {}
  PROVE  Min(S) \in S
<1> DEFINE less == {pair \in Nat \X Nat : pair[1] < pair[2]}
<1>1. IsWellFoundedOn(less, Nat)
  BY NatLessThanWellFounded DEF OpToRel
<1> HIDE DEF less
<1>2. PICK x \in S : \A y \in S : ~(<<y, x>> \in less)
  BY <1>1, WFMin
<1>3. ASSUME NEW y \in S PROVE x <= y
  <2>1. ~(<<y, x>> \in less) /\ x \in Nat /\ y \in Nat
    BY <1>2
  <2> QED BY <2>1 DEF less
<1> QED BY <1>3 DEF Min

\* What a resolution or the key K selects is listed.
LEMMA SelectedFact ==
  ASSUME TuiSyncTypeOK, NEW S \in SUBSET Conflicts
  PROVE  Selected(S) \in Conflicts \cup {None} /\ (S # {} => Selected(S) \in S)
<1>1. S \subseteq Nat
  BY TuiSyncAssumption DEF Conflicts
<1> QED BY <1>1, MinFact DEF Selected, TuiSyncTypeOK

(***************************************************************************)
(* Kinds of steps of the cycles.                                           *)
(***************************************************************************)

\* The goroutine c becomes r.
Becomes(c, r) == cycle' = [cycle EXCEPT ![c] = r]

Starts(c) == cycle[c].pc = "idle" /\ Becomes(c, WaitingCycle)
Begins(c) == cycle[c].pc = "wait" /\ Running = {} /\ \E r \in CycleStates : r.pc = "try" /\ Becomes(c, r)
TurnsAway(c) == cycle[c].pc = "wait" /\ Running = {} /\ Becomes(c, FailedCycle)
GoesOn(c) == c \in Running /\ \E r \in CycleStates : r.pc \in {"try", "sleep"} /\ Becomes(c, r)
Leaves(c) == c \in Running /\ \E r \in CycleStates : r.pc = "done" /\ Becomes(c, r)
Delivers(c) == cycle[c].pc = "done" /\ Becomes(c, IdleCycle)

Works(c) == Begins(c) \/ TurnsAway(c) \/ GoesOn(c) \/ Leaves(c)

LEMMA CycleFacts ==
  /\ IdleCycle \in CycleStates /\ IdleCycle.pc = "idle"
  /\ WaitingCycle \in CycleStates /\ WaitingCycle.pc = "wait"
  /\ FailedCycle \in CycleStates /\ FailedCycle.pc = "done"
<1>1. 0 \in 0 .. MaxAttempts
  BY TuiSyncAssumption
<1>2. IdleCycle \in CycleStates /\ IdleCycle.pc = "idle"
  BY <1>1 DEF CycleStates, IdleCycle
<1>3. WaitingCycle \in CycleStates /\ WaitingCycle.pc = "wait"
  BY <1>1 DEF CycleStates, IdleCycle, WaitingCycle
<1>4. FailedCycle \in CycleStates /\ FailedCycle.pc = "done"
  BY <1>1 DEF CycleStates, IdleCycle, FailedCycle
<1> QED BY <1>2, <1>3, <1>4

LEMMA BusyFinite ==
  /\ IsFiniteSet(Busy) /\ Cardinality(Busy) \in Nat
  /\ Cardinality(Busy) = 0 <=> Busy = {}
BY TuiSyncAssumption, FS_Subset, FS_CardinalityType, FS_EmptySet DEF Busy

\* One more goroutine is busy.
LEMMA StartsFact ==
  ASSUME cycle \in [Cycles -> CycleStates], OneRuns, NEW c \in Cycles, Starts(c)
  PROVE  /\ cycle' \in [Cycles -> CycleStates] /\ OneRuns'
         /\ Cardinality(Busy') = Cardinality(Busy) + 1 /\ Busy' # {}
         /\ Waiting' = Waiting \cup {c} /\ Running' = Running
<1>1. cycle' \in [Cycles -> CycleStates] /\ cycle'[c].pc = "wait" /\ cycle[c].pc = "idle"
      /\ \A d \in Cycles \ {c} : cycle'[d] = cycle[d]
  BY CycleFacts DEF Starts, Becomes
<1>2. Busy' = Busy \cup {c} /\ c \notin Busy
  BY <1>1 DEF Busy
<1>3. Running' = Running /\ Waiting' = Waiting \cup {c}
  BY <1>1 DEF Running, Waiting
<1>4. Cardinality(Busy') = Cardinality(Busy) + 1
  BY <1>2, BusyFinite, FS_AddElement
<1> QED BY <1>1, <1>2, <1>3, <1>4 DEF OneRuns

\* A step of Run keeps its goroutine busy.
LEMMA WorksFact ==
  ASSUME cycle \in [Cycles -> CycleStates], OneRuns, NEW c \in Cycles, Works(c)
  PROVE  /\ cycle' \in [Cycles -> CycleStates] /\ OneRuns' /\ Busy' = Busy
         /\ Begins(c) => Waiting' = Waiting \ {c} /\ Running' = {c} /\ c \in Waiting
         /\ TurnsAway(c) => Waiting' = Waiting \ {c} /\ Running' = Running /\ c \in Waiting
         /\ GoesOn(c) => Waiting' = Waiting /\ Running' = Running
         /\ Leaves(c) => Waiting' = Waiting /\ Running' = {}
<1>1. PICK r \in CycleStates : Becomes(c, r) /\ r.pc \in {"try", "sleep", "done"}
                               /\ (Begins(c) \/ GoesOn(c) <=> r.pc \in {"try", "sleep"})
  <2>1. CASE cycle[c].pc = "wait"
    <3>1. c \notin Running
      BY <2>1 DEF Running
    <3> QED BY <2>1, <3>1, CycleFacts DEF Works, Begins, TurnsAway, GoesOn, Leaves, Becomes
  <2>2. CASE c \in Running
    <3>1. cycle[c].pc # "wait"
      BY <2>2 DEF Running
    <3> QED BY <2>2, <3>1, CycleFacts DEF Works, Begins, TurnsAway, GoesOn, Leaves, Becomes
  <2> QED BY <2>1, <2>2 DEF Works, Begins, TurnsAway, GoesOn, Leaves
<1>2. cycle' \in [Cycles -> CycleStates] /\ cycle'[c] = r /\ \A d \in Cycles \ {c} : cycle'[d] = cycle[d]
  BY <1>1 DEF Becomes
<1>3. cycle[c].pc \in {"wait", "try", "sleep"}
  BY DEF Works, Begins, TurnsAway, GoesOn, Leaves, Running
<1>4. Busy' = Busy
  BY <1>1, <1>2, <1>3 DEF Busy
<1>5. Begins(c) => Waiting' = Waiting \ {c} /\ Running' = {c} /\ c \in Waiting
  BY <1>1, <1>2 DEF Begins, Waiting, Running
<1>6. TurnsAway(c) => Waiting' = Waiting \ {c} /\ Running' = Running /\ c \in Waiting
  BY <1>2, CycleFacts DEF TurnsAway, Becomes, Waiting, Running
<1>7. GoesOn(c) => Waiting' = Waiting /\ Running' = Running
  BY <1>1, <1>2 DEF GoesOn, Waiting, Running
<1>8. Leaves(c) => Waiting' = Waiting /\ Running' = {}
  <2> SUFFICES ASSUME Leaves(c) PROVE Waiting' = Waiting /\ Running' = {}
    OBVIOUS
  <2>1. cycle'[c].pc = "done" /\ c \in Running
    BY CycleFacts DEF Leaves, Becomes
  <2>2. Running = {c}
    BY <2>1 DEF OneRuns
  <2> QED BY <1>2, <2>1, <2>2 DEF Waiting, Running
<1> QED BY <1>2, <1>4, <1>5, <1>6, <1>7, <1>8 DEF Works, OneRuns

\* One goroutine less is busy.
LEMMA DeliversFact ==
  ASSUME cycle \in [Cycles -> CycleStates], OneRuns, NEW c \in Cycles, Delivers(c)
  PROVE  /\ cycle' \in [Cycles -> CycleStates] /\ OneRuns'
         /\ Cardinality(Busy') = Cardinality(Busy) - 1
         /\ Waiting' = Waiting /\ Running' = Running
<1>1. cycle' \in [Cycles -> CycleStates] /\ cycle'[c].pc = "idle" /\ cycle[c].pc = "done"
      /\ \A d \in Cycles \ {c} : cycle'[d] = cycle[d]
  BY CycleFacts DEF Delivers, Becomes
<1>2. Busy' = Busy \ {c} /\ c \in Busy
  BY <1>1 DEF Busy
<1>3. Running' = Running /\ Waiting' = Waiting
  BY <1>1 DEF Running, Waiting
<1>4. Cardinality(Busy') = Cardinality(Busy) - 1
  BY <1>2, BusyFinite, FS_RemoveElement
<1> QED BY <1>1, <1>3, <1>4 DEF OneRuns

\* The end of the program ends every cycle.
LEMMA RestartFact ==
  ASSUME Restart
  PROVE  /\ cycle' \in [Cycles -> CycleStates] /\ OneRuns'
         /\ Busy' = {} /\ Cardinality(Busy') = 0 /\ Waiting' = {} /\ Running' = {}
<1>1. cycle' \in [Cycles -> CycleStates] /\ \A c \in Cycles : cycle'[c].pc = "idle"
  BY CycleFacts DEF Restart
<1>2. Busy' = {} /\ Waiting' = {} /\ Running' = {}
  BY <1>1 DEF Busy, Waiting, Running
<1> QED BY <1>1, <1>2, FS_EmptySet DEF OneRuns

(***************************************************************************)
(* Ticks, requests and the key S.                                          *)
(***************************************************************************)

\* A cycle that starts is the one startSync knows of.
LEMMA StartCycleFact ==
  ASSUME TuiSyncInv, StartCycle, syncSyncing = FALSE, UNCHANGED bypasses
  PROVE  /\ cycle' \in [Cycles -> CycleStates] /\ OneRuns' /\ OverlapBound'
         /\ Cardinality(Busy') = Cardinality(Busy) + 1 /\ Busy' # {}
         /\ syncSyncing' = TRUE /\ syncStatus' \in SyncStatuses /\ lapsed' \in BOOLEAN
<1>1. PICK c \in Cycles : Starts(c)
  BY DEF StartCycle, Starts, Becomes
<1>2. /\ cycle' \in [Cycles -> CycleStates] /\ OneRuns'
      /\ Cardinality(Busy') = Cardinality(Busy) + 1 /\ Busy' # {}
  BY <1>1, StartsFact DEF TuiSyncInv, TuiSyncTypeOK
<1>3. syncSyncing' = TRUE /\ syncStatus' = "syncing" /\ lapsed' = FALSE /\ bypasses' = bypasses
  BY DEF StartCycle
<1>4. Cardinality(Busy') <= bypasses' + 1
  <2>1. bypasses \in Nat
    BY DEF TuiSyncInv, TuiSyncTypeOK
  <2>2. Cardinality(Busy) <= bypasses
    BY <2>1, BusyFinite DEF TuiSyncInv, OverlapBound
  <2> QED BY <1>2, <1>3, <2>1, <2>2, BusyFinite
<1>5. OverlapBound'
  BY <1>2, <1>3, <1>4 DEF OverlapBound
<1> QED BY <1>2, <1>3, <1>5 DEF SyncStatuses

\* startSync starts one cycle or none, and none only with a cycle under way
\* or the chain marked as lapsed.
LEMMA startSyncFact ==
  ASSUME TuiSyncInv, startSync, UNCHANGED bypasses
  PROVE  /\ cycle' \in [Cycles -> CycleStates] /\ OneRuns' /\ OverlapBound'
         /\ CanStart => Cardinality(Busy') = Cardinality(Busy) + 1
         /\ ~CanStart => Cardinality(Busy') = Cardinality(Busy)
         /\ syncSyncing' \in BOOLEAN /\ syncStatus' \in SyncStatuses /\ lapsed' \in BOOLEAN
         /\ Busy' = {} => lapsed'
<1>1. CASE CanStart
  <2>1. StartCycle /\ syncSyncing = FALSE
    BY <1>1 DEF startSync, CanStart, TuiSyncInv, TuiSyncTypeOK
  <2> QED BY <1>1, <2>1, StartCycleFact
<1>2. CASE ~CanStart
  <2>1. UNCHANGED <<syncSyncing, syncStatus, cycle, bypasses>> /\ lapsed' = (lapsed \/ ~shouldAutoSync)
    BY <1>2 DEF startSync, IgnoreStart
  <2>2. Busy' = Busy /\ Running' = Running
    BY <2>1 DEF Busy, Running
  <2>3. Busy = {} => ~shouldAutoSync
    BY <1>2 DEF CanStart, TuiSyncInv, OverlapBound
  <2>4. lapsed' \in BOOLEAN /\ (Busy' = {} => lapsed')
    BY <2>1, <2>2, <2>3 DEF TuiSyncInv, TuiSyncTypeOK
  <2>5. OneRuns' /\ OverlapBound'
    BY <2>1, <2>2 DEF TuiSyncInv, OneRuns, OverlapBound
  <2> QED BY <1>2, <2>1, <2>2, <2>4, <2>5 DEF TuiSyncInv, TuiSyncTypeOK
<1> QED BY <1>1, <1>2

LEMMA TickKeeps ==
  ASSUME TuiSyncInv, Tick
  PROVE  TuiSyncInv'
<1>1. startSync /\ UNCHANGED <<session, offline, hasConflicts, screenVars, storeVars, requests, triggers, bypasses, unread>>
  BY DEF Tick
<1>2. ticks \in Nat /\ ticks' \in Nat /\ ticks' = ticks - 1
  BY DEF Tick, AfterTick, TuiSyncInv, TuiSyncTypeOK
<1>3. TickAccount'
  <2>1. Cardinality(Busy') = Cardinality(Busy) + 1 \/ Cardinality(Busy') = Cardinality(Busy)
    BY <1>1, startSyncFact
  <2>2. triggers' = triggers /\ bypasses' = bypasses /\ triggers \in Nat /\ bypasses \in Nat
    BY <1>1 DEF TuiSyncInv, TuiSyncTypeOK
  <2> QED BY <1>2, <2>1, <2>2, BusyFinite DEF TuiSyncInv, TickAccount
<1>4. TuiSyncTypeOK'
  BY <1>1, <1>2, startSyncFact DEF TuiSyncInv, TuiSyncTypeOK, screenVars, storeVars
<1>5. OneRuns' /\ OverlapBound' /\ AutoSyncEndsOffline'
  BY <1>1, startSyncFact DEF AutoSyncEndsOffline
<1>6. SelectionIsOpen'
  BY <1>1 DEF TuiSyncInv, SelectionIsOpen, screenVars, storeVars
<1> QED BY <1>3, <1>4, <1>5, <1>6 DEF TuiSyncInv

\* A trigger of the user adds a cycle to the account, or nothing.
LEMMA TriggerKeeps ==
  ASSUME TuiSyncInv, startSync, Triggered, requests' \in Nat,
         UNCHANGED <<session, offline, hasConflicts, screenVars, storeVars, ticks, bypasses, unread>>
  PROVE  TuiSyncInv'
<1>1. triggers' \in Nat /\ (CanStart => triggers' = triggers + 1) /\ (~CanStart => triggers' = triggers)
  BY DEF Triggered, TuiSyncInv, TuiSyncTypeOK
<1>2. TickAccount'
  <2>1. \/ Cardinality(Busy') = Cardinality(Busy) + 1 /\ triggers' = triggers + 1
        \/ Cardinality(Busy') = Cardinality(Busy) /\ triggers' = triggers
    BY <1>1, startSyncFact
  <2>2. ticks' = ticks /\ bypasses' = bypasses /\ ticks \in Nat /\ triggers \in Nat /\ bypasses \in Nat
    BY DEF TuiSyncInv, TuiSyncTypeOK
  <2> QED BY <2>1, <2>2, BusyFinite DEF TuiSyncInv, TickAccount
<1>3. TuiSyncTypeOK'
  BY <1>1, startSyncFact DEF TuiSyncInv, TuiSyncTypeOK, screenVars, storeVars
<1>4. OneRuns' /\ OverlapBound' /\ AutoSyncEndsOffline'
  BY startSyncFact DEF AutoSyncEndsOffline
<1>5. SelectionIsOpen'
  BY DEF TuiSyncInv, SelectionIsOpen, screenVars, storeVars
<1> QED BY <1>2, <1>3, <1>4, <1>5 DEF TuiSyncInv

LEMMA AuthKeeps ==
  ASSUME TuiSyncInv, HandleAuthResult
  PROVE  TuiSyncInv'
<1>1. /\ session' = TRUE /\ offline' = FALSE /\ onConflicts' = FALSE
      /\ UNCHANGED <<hasConflicts, listed, selected, storeVars, queueVars, bypasses, unread>>
  BY DEF HandleAuthResult
<1>2. ticks' = ticks /\ bypasses' = bypasses /\ ticks \in Nat /\ triggers \in Nat /\ bypasses \in Nat
  BY <1>1 DEF TuiSyncInv, TuiSyncTypeOK, queueVars
<1>3. SelectionIsOpen'
  BY <1>1 DEF TuiSyncInv, SelectionIsOpen, storeVars
<1>4. CASE syncSyncing
  <2>1. UNCHANGED <<syncSyncing, syncStatus, cycle, triggers, lapsed>>
    BY <1>4 DEF HandleAuthResult
  <2>2. Busy' = Busy /\ Running' = Running
    BY <2>1 DEF Busy, Running
  <2>3. TuiSyncTypeOK'
    BY <1>1, <2>1 DEF TuiSyncInv, TuiSyncTypeOK, storeVars, queueVars
  <2>4. OneRuns' /\ OverlapBound' /\ TickAccount' /\ AutoSyncEndsOffline'
    BY <1>2, <2>1, <2>2 DEF TuiSyncInv, OneRuns, OverlapBound, TickAccount, AutoSyncEndsOffline
  <2> QED BY <1>3, <2>3, <2>4 DEF TuiSyncInv
<1>5. CASE ~syncSyncing
  <2>1. StartCycle /\ triggers' = triggers + 1 /\ syncSyncing = FALSE /\ UNCHANGED bypasses
    BY <1>1, <1>5 DEF HandleAuthResult, TuiSyncInv, TuiSyncTypeOK
  <2>2. TuiSyncTypeOK'
    <3>1. triggers' \in Nat
      BY <1>2, <2>1
    <3>2. requests' = requests /\ open' = open /\ detected' = detected
      BY <1>1 DEF storeVars, queueVars
    <3>3. cycle' \in [Cycles -> CycleStates] /\ syncSyncing' \in BOOLEAN
          /\ syncStatus' \in SyncStatuses /\ lapsed' \in BOOLEAN
      BY <2>1, StartCycleFact
    <3> QED BY <1>1, <1>2, <3>1, <3>2, <3>3 DEF TuiSyncInv, TuiSyncTypeOK
  <2>3. TickAccount'
    <3>1. Cardinality(Busy') = Cardinality(Busy) + 1
      BY <2>1, StartCycleFact
    <3> QED BY <1>2, <2>1, <3>1, BusyFinite DEF TuiSyncInv, TickAccount
  <2>4. OneRuns' /\ OverlapBound' /\ AutoSyncEndsOffline'
    BY <2>1, StartCycleFact DEF AutoSyncEndsOffline
  <2> QED BY <1>3, <2>2, <2>3, <2>4 DEF TuiSyncInv
<1> QED BY <1>4, <1>5

(***************************************************************************)
(* Results and the goroutines of Run.                                      *)
(***************************************************************************)

LEMMA ResultKeeps ==
  ASSUME TuiSyncInv, NEW c \in Cycles, HandleSyncResult(c)
  PROVE  TuiSyncInv'
<1>1. /\ Delivers(c) /\ syncSyncing' = FALSE /\ lapsed' = ~shouldAutoSync
      /\ ticks' = ticks + scheduleSyncTick(c)
      /\ UNCHANGED <<session, offline, onConflicts, listed, selected, open, detected, requests,
                     triggers, bypasses, unread>>
  BY DEF HandleSyncResult, Delivers, Becomes, SyncingAfter, screenVars, storeVars
<1>2. cycle[c] \in CycleStates
  BY DEF TuiSyncInv, TuiSyncTypeOK
<1>3. syncStatus' \in SyncStatuses /\ syncStatus' # "syncing"
  BY DEF HandleSyncResult, StatusOf, SyncStatuses
<1>4. hasConflicts' \in BOOLEAN
  <2>1. hasConflicts' = cycle[c].conflicts \/ hasConflicts' = hasConflicts
    BY DEF HandleSyncResult
  <2> QED BY <1>2, <2>1 DEF CycleStates, TuiSyncInv, TuiSyncTypeOK
<1>5. /\ cycle' \in [Cycles -> CycleStates] /\ OneRuns'
      /\ Cardinality(Busy') = Cardinality(Busy) - 1
  BY <1>1, DeliversFact DEF TuiSyncInv, TuiSyncTypeOK
<1>6. /\ ticks \in Nat /\ triggers \in Nat /\ bypasses \in Nat
      /\ triggers' = triggers /\ bypasses' = bypasses
      /\ ticks' = ticks \/ ticks' = ticks + 1
      /\ ticks' = 0 => ~shouldAutoSync
  BY <1>1 DEF scheduleSyncTick, TuiSyncInv, TuiSyncTypeOK
<1>7. TuiSyncTypeOK'
  <2>1. ticks' \in Nat
    BY <1>6
  <2>2. syncSyncing' \in BOOLEAN /\ lapsed' \in BOOLEAN
    BY <1>1 DEF shouldAutoSync
  <2> QED BY <1>1, <1>3, <1>4, <1>5, <2>1, <2>2 DEF TuiSyncInv, TuiSyncTypeOK
<1>8. OverlapBound'
  <2>1. Cardinality(Busy) <= bypasses + 1
    BY <1>6, BusyFinite DEF TuiSyncInv, OverlapBound
  <2>2. Cardinality(Busy') <= bypasses' + 0
    BY <1>5, <1>6, <2>1, BusyFinite
  <2> QED BY <1>1, <1>3, <2>2 DEF OverlapBound
<1>9. TickAccount'
  BY <1>5, <1>6, BusyFinite DEF TuiSyncInv, TickAccount
<1>10. AutoSyncEndsOffline'
  BY <1>1, <1>6 DEF AutoSyncEndsOffline
<1>11. SelectionIsOpen'
  BY <1>1 DEF TuiSyncInv, SelectionIsOpen
<1> QED BY <1>5, <1>7, <1>8, <1>9, <1>10, <1>11 DEF TuiSyncInv

\* Steps that leave the busy goroutines busy and the model's accounts alone.
LEMMA SameBusyKeeps ==
  ASSUME TuiSyncInv, cycle' \in [Cycles -> CycleStates], OneRuns', Busy' = Busy,
         UNCHANGED <<session, offline, hasConflicts, screenVars, open, syncSyncing, ticks, historyVars>>,
         syncStatus' = syncStatus, detected' \in 0 .. MaxConflicts, requests' \in Nat
  PROVE  TuiSyncInv'
<1>1. TuiSyncTypeOK'
  BY DEF TuiSyncInv, TuiSyncTypeOK, screenVars, historyVars, accountVars
<1>2. OverlapBound' /\ TickAccount' /\ AutoSyncEndsOffline'
  BY DEF TuiSyncInv, OverlapBound, TickAccount, AutoSyncEndsOffline, historyVars, accountVars
<1>3. SelectionIsOpen'
  BY DEF TuiSyncInv, SelectionIsOpen, screenVars, historyVars
<1> QED BY <1>1, <1>2, <1>3 DEF TuiSyncInv

\* The steps of a goroutine are of the kinds above.
LEMMA RunStepKinds ==
  ASSUME TuiSyncInv, NEW c \in Cycles, RunStep(c)
  PROVE  Works(c) /\ UNCHANGED <<modelVars, storeVars, queueVars, historyVars>>
<1>1. cycle[c] \in CycleStates
  BY DEF TuiSyncInv, TuiSyncTypeOK
<1>2. CASE TakeLock(c)
  <2>1. CASE SetCycle(c, FailedCycle)
    BY <1>2, <2>1 DEF TakeLock, LockFree, Works, TurnsAway, Becomes, SetCycle
  <2>2. CASE SetCycle(c, [cycle[c] EXCEPT !.pc = "try", !.attempt = 1])
    <3>1. 1 \in 0 .. MaxAttempts
      BY TuiSyncAssumption
    <3>2. [cycle[c] EXCEPT !.pc = "try", !.attempt = 1] \in CycleStates
      BY <1>1, <3>1 DEF CycleStates
    <3>3. [cycle[c] EXCEPT !.pc = "try", !.attempt = 1].pc = "try"
      BY <1>1 DEF CycleStates
    <3> QED BY <1>2, <2>2, <3>2, <3>3 DEF TakeLock, LockFree, Works, Begins, Becomes, SetCycle
  <2> QED BY <1>2, <2>1, <2>2 DEF TakeLock
<1>3. CASE cycle[c].pc \in {"try", "sleep"} /\ SetCycle(c, FailedCycle) /\ UNCHANGED storeVars
  <2>1. c \in Running
    BY <1>3 DEF Running
  <2> QED BY <1>3, <2>1, CycleFacts DEF Works, Leaves, Becomes, SetCycle
<1>4. CASE AttemptSucceeds(c)
  <2> DEFINE r == [IdleCycle EXCEPT !.pc = "done", !.ok = TRUE, !.conflicts = open # {}]
  <2>1. r \in CycleStates /\ r.pc = "done"
    <3>1. 0 \in 0 .. MaxAttempts
      BY TuiSyncAssumption
    <3>2. PICK b \in BOOLEAN : b = (open # {})
      OBVIOUS
    <3>3. r = [IdleCycle EXCEPT !.pc = "done", !.ok = TRUE, !.conflicts = b]
      BY <3>2
    <3> HIDE DEF r
    <3> QED BY <3>1, <3>3 DEF CycleStates, IdleCycle
  <2>2. c \in Running
    BY <1>4 DEF AttemptSucceeds, Running
  <2>3. Becomes(c, r) /\ UNCHANGED <<modelVars, storeVars, queueVars, historyVars>>
    BY <1>4 DEF AttemptSucceeds, SetCycle, Becomes
  <2> HIDE DEF r
  <2> QED BY <2>1, <2>2, <2>3 DEF Works, Leaves
<1>5. CASE AttemptFails(c)
  <2>1. CASE SetCycle(c, FailedCycle)
    BY <1>3, <1>5, <2>1 DEF AttemptFails
  <2>2. CASE AttemptsLeft(c) /\ SetCycle(c, [cycle[c] EXCEPT !.pc = "sleep", !.attempt = @ + 1])
    <3> DEFINE r == [cycle[c] EXCEPT !.pc = "sleep", !.attempt = @ + 1]
    <3>1. cycle[c].attempt + 1 \in 0 .. MaxAttempts
      BY <1>1, <2>2, TuiSyncAssumption DEF AttemptsLeft, CycleStates
    <3>2. r \in CycleStates /\ r.pc = "sleep"
      BY <1>1, <3>1 DEF CycleStates
    <3>3. c \in Running
      BY <1>5 DEF AttemptFails, Running
    <3>4. Becomes(c, r) /\ UNCHANGED <<modelVars, storeVars, queueVars, historyVars>>
      BY <1>5, <2>2 DEF AttemptFails, SetCycle, Becomes
    <3> HIDE DEF r
    <3> QED BY <3>2, <3>3, <3>4 DEF Works, GoesOn
  <2> QED BY <1>5, <2>1, <2>2 DEF AttemptFails
<1>6. CASE EndSleep(c)
  <2>1. CASE SetCycle(c, FailedCycle)
    BY <1>3, <1>6, <2>1 DEF EndSleep
  <2>2. CASE SetCycle(c, [cycle[c] EXCEPT !.pc = "try"])
    <3> DEFINE r == [cycle[c] EXCEPT !.pc = "try"]
    <3>1. r \in CycleStates /\ r.pc = "try"
      BY <1>1 DEF CycleStates
    <3>2. c \in Running
      BY <1>6 DEF EndSleep, Running
    <3>3. Becomes(c, r) /\ UNCHANGED <<modelVars, storeVars, queueVars, historyVars>>
      BY <1>6, <2>2 DEF EndSleep, SetCycle, Becomes
    <3> HIDE DEF r
    <3> QED BY <3>1, <3>2, <3>3 DEF Works, GoesOn
  <2> QED BY <1>6, <2>1, <2>2 DEF EndSleep
<1> QED BY <1>2, <1>4, <1>5, <1>6 DEF RunStep

LEMMA RunStepKeeps ==
  ASSUME TuiSyncInv, NEW c \in Cycles, RunStep(c)
  PROVE  TuiSyncInv'
<1>1. Works(c) /\ UNCHANGED <<modelVars, storeVars, queueVars, historyVars>>
  BY RunStepKinds
<1>2. cycle' \in [Cycles -> CycleStates] /\ OneRuns' /\ Busy' = Busy
  BY <1>1, WorksFact DEF TuiSyncInv, TuiSyncTypeOK
<1> QED BY <1>1, <1>2, SameBusyKeeps
        DEF TuiSyncInv, TuiSyncTypeOK, modelVars, storeVars, queueVars

LEMMA RecordConflictKeeps ==
  ASSUME TuiSyncInv, NEW c \in Cycles, RecordConflict(c)
  PROVE  TuiSyncInv'
<1>1. /\ UNCHANGED <<modelVars, queueVars, cycle, historyVars>>
      /\ detected' = detected + 1 /\ detected < MaxConflicts /\ open' = open \cup {detected + 1}
  BY DEF RecordConflict
<1>2. detected + 1 \in Conflicts /\ detected' \in 0 .. MaxConflicts
  BY <1>1, TuiSyncAssumption DEF TuiSyncInv, TuiSyncTypeOK, Conflicts
<1>3. Busy' = Busy /\ Running' = Running
  BY <1>1 DEF Busy, Running
<1>4. TuiSyncTypeOK'
  BY <1>1, <1>2 DEF TuiSyncInv, TuiSyncTypeOK, modelVars, screenVars, queueVars, historyVars, accountVars
<1>5. OneRuns' /\ OverlapBound' /\ TickAccount' /\ AutoSyncEndsOffline'
  BY <1>1, <1>3 DEF TuiSyncInv, OneRuns, OverlapBound, TickAccount, AutoSyncEndsOffline,
     modelVars, queueVars, historyVars, accountVars
<1>6. SelectionIsOpen'
  BY <1>1 DEF TuiSyncInv, SelectionIsOpen, modelVars, screenVars, historyVars
<1> QED BY <1>4, <1>5, <1>6 DEF TuiSyncInv

(***************************************************************************)
(* The other keys.                                                         *)
(***************************************************************************)

\* Steps that leave the goroutines, the timers and the history alone.
LEMMA QuietKeeps ==
  ASSUME TuiSyncInv, TuiSyncTypeOK', SelectionIsOpen',
         UNCHANGED <<syncSyncing, ticks, cycle, accountVars>>, syncStatus' \in {syncStatus, "quiet"}
  PROVE  TuiSyncInv'
<1>1. Busy' = Busy /\ Running' = Running
  BY DEF Busy, Running
<1>2. OneRuns' /\ TickAccount' /\ AutoSyncEndsOffline'
  BY <1>1 DEF TuiSyncInv, OneRuns, TickAccount, AutoSyncEndsOffline, historyVars, accountVars
<1>3. OverlapBound'
  BY <1>1 DEF TuiSyncInv, OverlapBound, historyVars, accountVars
<1> QED BY <1>2, <1>3 DEF TuiSyncInv

LEMMA SessionKeysKeep ==
  ASSUME TuiSyncInv, Edit \/ ToggleOffline \/ Logout
  PROVE  TuiSyncInv'
<1>1. /\ UNCHANGED <<syncSyncing, ticks, cycle, historyVars, screenVars, storeVars>>
      /\ syncStatus' \in {syncStatus, "quiet"}
  BY DEF Edit, ToggleOffline, Logout, modelVars, queueVars
<1>2. session' \in BOOLEAN /\ offline' \in BOOLEAN
  BY DEF Edit, ToggleOffline, Logout, modelVars, TuiSyncInv, TuiSyncTypeOK
<1>3. hasConflicts' \in BOOLEAN
  BY TuiSyncAssumption DEF Edit, ToggleOffline, Logout, modelVars, TuiSyncInv, TuiSyncTypeOK
<1>4. requests' \in Nat
  BY DEF Edit, ToggleOffline, Logout, queueVars, TuiSyncInv, TuiSyncTypeOK
<1>5. TuiSyncTypeOK'
  BY <1>1, <1>2, <1>3, <1>4 DEF TuiSyncInv, TuiSyncTypeOK, SyncStatuses, screenVars, storeVars, historyVars, accountVars
<1>6. SelectionIsOpen'
  BY <1>1 DEF TuiSyncInv, SelectionIsOpen, screenVars, storeVars, historyVars
<1> QED BY <1>1, <1>5, <1>6, QuietKeeps DEF historyVars

\* A list that is read again, or not, offers what is open or was resolved since.
LEMMA RefreshFact ==
  ASSUME TuiSyncInv, NEW resolved \in SUBSET Conflicts, open' = open \ resolved,
         refreshConflicts(open', resolved)
  PROVE  /\ listed' \subseteq Conflicts /\ selected' \in Conflicts \cup {None}
         /\ unread' \subseteq Conflicts /\ SelectionIsOpen'
<1>1. open' \in SUBSET Conflicts
  BY DEF TuiSyncInv, TuiSyncTypeOK
<1>2. CASE listed' = open' /\ selected' = Selected(open') /\ unread' = {}
  <2>1. Selected(open') \in Conflicts \cup {None} /\ (open' # {} => Selected(open') \in open')
    BY <1>1, SelectedFact DEF TuiSyncInv
  <2> QED BY <1>1, <1>2, <2>1 DEF SelectionIsOpen
<1>3. CASE unread' = unread \cup resolved /\ UNCHANGED <<listed, selected>>
  BY <1>3 DEF TuiSyncInv, TuiSyncTypeOK, SelectionIsOpen
<1> QED BY <1>2, <1>3 DEF refreshConflicts

LEMMA ScreenKeysKeep ==
  ASSUME TuiSyncInv, OpenConflicts \/ SelectConflict \/ LeaveConflicts
  PROVE  TuiSyncInv'
<1>1. UNCHANGED <<session, offline, syncSyncing, syncStatus, hasConflicts,
                  storeVars, queueVars, cycle, accountVars>>
  BY DEF OpenConflicts, SelectConflict, LeaveConflicts, historyVars
<1>2. /\ onConflicts' \in BOOLEAN /\ listed' \subseteq Conflicts /\ selected' \in Conflicts \cup {None}
      /\ unread' \subseteq Conflicts /\ SelectionIsOpen'
  <2>1. CASE OpenConflicts
    <3>1. open' = open /\ refreshConflicts(open, {}) /\ onConflicts' = TRUE
      BY <1>1, <2>1 DEF OpenConflicts, storeVars
    <3>2. open' = open \ {} /\ refreshConflicts(open', {})
      BY <3>1
    <3> QED BY <3>1, <3>2, RefreshFact
  <2>2. CASE SelectConflict \/ LeaveConflicts
    BY <1>1, <2>2 DEF SelectConflict, LeaveConflicts, TuiSyncInv, TuiSyncTypeOK, SelectionIsOpen,
       storeVars, historyVars
  <2> QED BY <2>1, <2>2
<1>3. TuiSyncTypeOK'
  BY <1>1, <1>2 DEF TuiSyncInv, TuiSyncTypeOK, storeVars, queueVars, accountVars
<1> QED BY <1>1, <1>2, <1>3, QuietKeeps DEF queueVars

LEMMA ResolveKeeps ==
  ASSUME TuiSyncInv, ResolveSelected
  PROVE  TuiSyncInv'
<1> DEFINE rest == open \ {selected}
<1>1. /\ selected \in open /\ open' = rest /\ refreshConflicts(rest, {selected})
      /\ CountConflicts(rest)
      /\ UNCHANGED <<session, offline, syncSyncing, detected, ticks, requests, triggers>>
  BY DEF ResolveSelected, queueVars
<1>2. rest \in SUBSET Conflicts
  BY DEF TuiSyncInv, TuiSyncTypeOK
<1>3. /\ listed' \subseteq Conflicts /\ selected' \in Conflicts \cup {None}
      /\ unread' \subseteq Conflicts /\ SelectionIsOpen'
  <2>1. {selected} \in SUBSET Conflicts /\ refreshConflicts(open', {selected})
    BY <1>1 DEF TuiSyncInv, TuiSyncTypeOK
  <2> QED BY <1>1, <2>1, RefreshFact
<1>4. hasConflicts' \in BOOLEAN
  BY <1>1 DEF CountConflicts, TuiSyncInv, TuiSyncTypeOK
<1>5. syncStatus' \in SyncStatuses /\ (syncStatus' = "syncing" => syncStatus = "syncing")
  BY <1>1 DEF CountConflicts, SyncStatuses, TuiSyncInv, TuiSyncTypeOK
<1>6. CASE ~hasConflicts'
  <2>1. onConflicts' = FALSE /\ UNCHANGED <<cycle, bypasses, lapsed>>
    BY <1>6 DEF ResolveSelected
  <2>2. Busy' = Busy /\ Running' = Running
    BY <2>1 DEF Busy, Running
  <2>3. TuiSyncTypeOK'
    BY <1>1, <1>2, <1>3, <1>4, <1>5, <2>1 DEF TuiSyncInv, TuiSyncTypeOK
  <2>4. OneRuns' /\ TickAccount' /\ AutoSyncEndsOffline'
    BY <1>1, <2>1, <2>2 DEF TuiSyncInv, OneRuns, TickAccount, AutoSyncEndsOffline
  <2>5. OverlapBound'
    BY <1>1, <1>5, <2>1, <2>2 DEF TuiSyncInv, OverlapBound
  <2> QED BY <1>3, <2>3, <2>4, <2>5 DEF TuiSyncInv
<1>7. CASE hasConflicts'
  <2>1. BypassSync /\ UNCHANGED onConflicts
    BY <1>7 DEF ResolveSelected
  <2>2. PICK c \in Cycles : Starts(c)
    BY <2>1 DEF BypassSync, Starts, Becomes
  <2>3. /\ cycle' \in [Cycles -> CycleStates] /\ OneRuns'
        /\ Cardinality(Busy') = Cardinality(Busy) + 1 /\ Busy' # {}
    BY <2>2, StartsFact DEF TuiSyncInv, TuiSyncTypeOK
  <2>4. bypasses' = bypasses + 1 /\ lapsed' = FALSE
    BY <2>1 DEF BypassSync
  <2>5. ticks \in Nat /\ triggers \in Nat /\ bypasses \in Nat /\ bypasses' \in Nat
    BY <2>4 DEF TuiSyncInv, TuiSyncTypeOK
  <2>6. TuiSyncTypeOK'
    BY <1>1, <1>2, <1>3, <1>4, <1>5, <2>1, <2>3, <2>4, <2>5 DEF TuiSyncInv, TuiSyncTypeOK
  <2>7. TickAccount'
    BY <1>1, <2>3, <2>4, <2>5, BusyFinite DEF TuiSyncInv, TickAccount
  <2>8. OverlapBound'
    <3>1. CASE syncSyncing
      BY <1>1, <2>3, <2>4, <2>5, <3>1, BusyFinite DEF TuiSyncInv, OverlapBound
    <3>2. CASE ~syncSyncing
      BY <1>1, <1>5, <2>3, <2>4, <2>5, <3>2, BusyFinite DEF TuiSyncInv, OverlapBound
    <3> QED BY <3>1, <3>2
  <2>9. AutoSyncEndsOffline'
    BY <2>3 DEF AutoSyncEndsOffline
  <2> QED BY <1>3, <2>3, <2>6, <2>7, <2>8, <2>9 DEF TuiSyncInv
<1> QED BY <1>6, <1>7

LEMMA RestartKeeps ==
  ASSUME TuiSyncInv, Restart
  PROVE  TuiSyncInv'
<1>1. /\ Boot /\ UNCHANGED <<session, offline, onConflicts, open, detected>>
      /\ syncSyncing' = FALSE /\ listed' = {} /\ selected' = None /\ requests' = 0
      /\ triggers' = 0 /\ bypasses' = 0 /\ lapsed' = ~shouldAutoSync /\ unread' = {}
      /\ ticks' = IF shouldAutoSync THEN 1 ELSE 0
  BY DEF Restart, Boot, storeVars
<1>2. /\ cycle' \in [Cycles -> CycleStates] /\ OneRuns'
      /\ Busy' = {} /\ Cardinality(Busy') = 0
  BY RestartFact
<1>3. syncStatus' \in SyncStatuses /\ syncStatus' # "syncing"
  BY <1>1 DEF Boot, SyncStatuses
<1>4. hasConflicts' \in BOOLEAN
  BY <1>1 DEF Boot
<1>5. ticks' \in Nat /\ ticks' <= 1 /\ (ticks' = 0 => ~shouldAutoSync)
  BY <1>1
<1>6. TuiSyncTypeOK'
  <2>1. lapsed' \in BOOLEAN
    BY <1>1 DEF shouldAutoSync
  <2> QED BY <1>1, <1>2, <1>3, <1>4, <1>5, <2>1 DEF TuiSyncInv, TuiSyncTypeOK
<1>7. OverlapBound'
  BY <1>1, <1>2, <1>3 DEF OverlapBound
<1>8. TickAccount'
  BY <1>1, <1>2, <1>5 DEF TickAccount
<1>9. AutoSyncEndsOffline'
  BY <1>1, <1>5 DEF AutoSyncEndsOffline
<1>10. SelectionIsOpen'
  BY <1>1 DEF SelectionIsOpen
<1> QED BY <1>2, <1>6, <1>7, <1>8, <1>9, <1>10 DEF TuiSyncInv

(***************************************************************************)
(* The theorems.                                                           *)
(***************************************************************************)

\* The initial state has the invariant.
LEMMA InitHolds ==
  ASSUME Init
  PROVE  TuiSyncInv /\ Waiting = {} /\ Running = {}
<1>1. cycle \in [Cycles -> CycleStates] /\ \A c \in Cycles : cycle[c].pc = "idle"
  BY CycleFacts DEF Init
<1>2. Busy = {} /\ Waiting = {} /\ Running = {}
  BY <1>1 DEF Busy, Waiting, Running
<1>3. Cardinality(Busy) = 0
  BY <1>2, FS_EmptySet
<1>4. ticks \in Nat /\ ticks <= 1 /\ (ticks = 0 => ~shouldAutoSync) /\ lapsed = ~shouldAutoSync
  BY DEF Init
<1>5. TuiSyncTypeOK
  <2>1. detected \in 0 .. MaxConflicts
    BY TuiSyncAssumption DEF Init
  <2>2. lapsed \in BOOLEAN
    BY <1>4 DEF shouldAutoSync
  <2> QED BY <1>1, <1>4, <2>1, <2>2 DEF Init, TuiSyncTypeOK, SyncStatuses
<1>6. OverlapBound /\ TickAccount
  BY <1>2, <1>3, <1>4 DEF Init, OverlapBound, TickAccount
<1>7. AutoSyncEndsOffline /\ SelectionIsOpen /\ OneRuns
  BY <1>2, <1>4 DEF Init, AutoSyncEndsOffline, SelectionIsOpen, OneRuns
<1> QED BY <1>2, <1>5, <1>6, <1>7 DEF TuiSyncInv

\* Every step keeps it.
LEMMA NextKeeps ==
  ASSUME TuiSyncInv, [Next]_vars
  PROVE  TuiSyncInv'
<1>1. CASE Tick
  BY <1>1, TickKeeps
<1>2. CASE Request
  <2>1. requests' \in Nat
    BY <1>2 DEF Request, TuiSyncInv, TuiSyncTypeOK
  <2> QED BY <1>2, <2>1, TriggerKeeps DEF Request
<1>3. CASE PressSync
  <2>1. requests' \in Nat
    BY <1>3 DEF PressSync, queueVars, TuiSyncInv, TuiSyncTypeOK
  <2> QED BY <1>3, <2>1, TriggerKeeps DEF PressSync, queueVars
<1>4. CASE HandleAuthResult
  BY <1>4, AuthKeeps
<1>5. CASE \E c \in Cycles : HandleSyncResult(c)
  BY <1>5, ResultKeeps
<1>6. CASE \E c \in Cycles : RunStep(c) \/ RecordConflict(c)
  BY <1>6, RunStepKeeps, RecordConflictKeeps
<1>7. CASE Edit \/ ToggleOffline \/ Logout
  BY <1>7, SessionKeysKeep
<1>8. CASE OpenConflicts \/ SelectConflict \/ LeaveConflicts
  BY <1>8, ScreenKeysKeep
<1>9. CASE ResolveSelected
  BY <1>9, ResolveKeeps
<1>10. CASE Restart
  BY <1>10, RestartKeeps
<1>11. CASE UNCHANGED vars
  <2>1. UNCHANGED <<modelVars, storeVars, queueVars, cycle, historyVars>>
    BY <1>11 DEF vars
  <2>2. TuiSyncTypeOK' /\ SelectionIsOpen'
    BY <2>1 DEF TuiSyncInv, TuiSyncTypeOK, SelectionIsOpen, modelVars, screenVars, storeVars,
       queueVars, historyVars, accountVars
  <2> QED BY <2>1, <2>2, QuietKeeps DEF modelVars, queueVars, historyVars
<1> QED BY <1>1, <1>2, <1>3, <1>4, <1>5, <1>6, <1>7, <1>8, <1>9, <1>10, <1>11
        DEF Next, Messages, Keys

\* The inductive invariant of the scheduling
THEOREM TuiSyncInvariant == Spec => []TuiSyncInv
<1>1. Init => TuiSyncInv
  BY InitHolds
<1>2. TuiSyncInv /\ [Next]_vars => TuiSyncInv'
  BY NextKeeps
<1> QED BY <1>1, <1>2, PTL DEF Spec

\* The model's variables are well typed for any number of goroutines,
\* attempts and conflicts.
THEOREM TuiSyncTypeCorrect == Spec => []TuiSyncTypeOK
<1>1. TuiSyncInv => TuiSyncTypeOK
  BY DEF TuiSyncInv
<1> QED BY <1>1, TuiSyncInvariant, PTL

\* The footer is honest and only the screen of conflicts makes cycles overlap.
THEOREM OverlapTheorem == Spec => []OverlapBound
<1>1. TuiSyncInv => OverlapBound
  BY DEF TuiSyncInv
<1> QED BY <1>1, TuiSyncInvariant, PTL

\* Timers and cycles never multiply by themselves.
THEOREM TickTheorem == Spec => []TickAccount
<1>1. TuiSyncInv => TickAccount
  BY DEF TuiSyncInv
<1> QED BY <1>1, TuiSyncInvariant, PTL

\* The chain of timers breaks only on an offline or logged-out session.
THEOREM AutoSyncTheorem == Spec => []AutoSyncEndsOffline
<1>1. TuiSyncInv => AutoSyncEndsOffline
  BY DEF TuiSyncInv
<1> QED BY <1>1, TuiSyncInvariant, PTL

\* The screen of conflicts offers what is open, or was resolved since the list
\* could last be read, for any number of conflicts and failures.
THEOREM SelectionTheorem == Spec => []SelectionIsOpen
<1>1. TuiSyncInv => SelectionIsOpen
  BY DEF TuiSyncInv
<1> QED BY <1>1, TuiSyncInvariant, PTL

(***************************************************************************)
(* The refinement: cycles are jobs of SerialWork.                          *)
(***************************************************************************)

\* A step that leaves the goroutines alone is a stutter.
LEMMA IdleStep ==
  ASSUME UNCHANGED cycle
  PROVE  UNCHANGED <<Waiting, Running>>
BY DEF Waiting, Running

LEMMA StartStep ==
  ASSUME TuiSyncInv, NEW c \in Cycles, Starts(c)
  PROVE  Serial!SerialNext
<1>1. Waiting' = Waiting \cup {c} /\ Running' = Running
  BY StartsFact DEF TuiSyncInv, TuiSyncTypeOK
<1> QED BY <1>1 DEF Serial!SerialNext, Serial!Submit

LEMMA WorkStep ==
  ASSUME TuiSyncInv, NEW c \in Cycles, Works(c)
  PROVE  Serial!SerialNext \/ UNCHANGED <<Waiting, Running>>
<1>1. cycle \in [Cycles -> CycleStates] /\ OneRuns
  BY DEF TuiSyncInv, TuiSyncTypeOK
<1>2. CASE Begins(c)
  <2>1. Running = {} /\ Waiting' = Waiting \ {c} /\ Running' = {c} /\ c \in Waiting
    BY <1>1, <1>2, WorksFact DEF Begins
  <2> QED BY <2>1 DEF Serial!SerialNext, Serial!Begin
<1>3. CASE TurnsAway(c)
  <2>1. Running = {} /\ Waiting' = Waiting \ {c} /\ Running' = Running /\ c \in Waiting
    BY <1>1, <1>3, WorksFact DEF TurnsAway
  <2> QED BY <2>1 DEF Serial!SerialNext, Serial!TurnAway
<1>4. CASE GoesOn(c)
  BY <1>1, <1>4, WorksFact
<1>5. CASE Leaves(c)
  <2>1. Waiting' = Waiting /\ Running' = {}
    BY <1>1, <1>5, WorksFact
  <2> QED BY <2>1 DEF Serial!SerialNext, Serial!Leave
<1> QED BY <1>2, <1>3, <1>4, <1>5 DEF Works

\* Each step of the interface is a step of SerialWork or a stutter.
LEMMA SerialStep ==
  ASSUME TuiSyncInv, [Next]_vars
  PROVE  [Serial!SerialNext]_<<Waiting, Running>>
<1>1. CASE UNCHANGED cycle
  BY <1>1, IdleStep
<1>2. CASE \E c \in Cycles : Starts(c)
  BY <1>2, StartStep
<1>3. CASE \E c \in Cycles : HandleSyncResult(c)
  <2>1. PICK c \in Cycles : Delivers(c)
    BY <1>3 DEF HandleSyncResult, Delivers, Becomes
  <2>2. UNCHANGED <<Waiting, Running>>
    BY <2>1, DeliversFact DEF TuiSyncInv, TuiSyncTypeOK
  <2> QED BY <2>2
<1>4. CASE \E c \in Cycles : RunStep(c)
  <2>1. PICK c \in Cycles : Works(c)
    BY <1>4, RunStepKinds
  <2> QED BY <2>1, WorkStep
<1>5. CASE Restart
  <2>1. Waiting' = {} /\ Running' = {}
    BY <1>5, RestartFact
  <2> QED BY <2>1 DEF Serial!SerialNext, Serial!Stop
<1>6. Tick \/ Request \/ PressSync => UNCHANGED cycle \/ \E c \in Cycles : Starts(c)
  BY DEF Tick, Request, PressSync, startSync, StartCycle, IgnoreStart, Starts, Becomes
<1>7. HandleAuthResult => UNCHANGED cycle \/ \E c \in Cycles : Starts(c)
  BY DEF HandleAuthResult, StartCycle, Starts, Becomes
<1>8. ResolveSelected => UNCHANGED cycle \/ \E c \in Cycles : Starts(c)
  BY DEF ResolveSelected, BypassSync, Starts, Becomes
<1>9. \/ Edit \/ ToggleOffline \/ Logout \/ OpenConflicts \/ SelectConflict \/ LeaveConflicts
      \/ (\E c \in Cycles : RecordConflict(c)) \/ UNCHANGED vars
      => UNCHANGED cycle
  BY DEF Edit, ToggleOffline, Logout, OpenConflicts, SelectConflict, LeaveConflicts, RecordConflict, vars
<1> QED BY <1>1, <1>2, <1>3, <1>4, <1>5, <1>6, <1>7, <1>8, <1>9 DEF Next, Messages, Keys

\* Runs are serialised, whatever starts them and however many there are.
THEOREM SerialTheorem == Spec => RunsAreSerial
<1>1. Init => Serial!SerialInit
  BY InitHolds DEF Serial!SerialInit
<1>2. TuiSyncInv /\ [Next]_vars => [Serial!SerialNext]_<<Waiting, Running>>
  BY SerialStep
<1> QED BY <1>1, <1>2, TuiSyncInvariant, PTL DEF Spec, RunsAreSerial, Serial!SerialSpec
=============================================================================
