------------------------- MODULE SyncHistoryProofs -------------------------
(***************************************************************************)
(* Proofs about what devices have after pulls and deletes.  HistoryInv is  *)
(* inductive on top of SystemInv: a step of one device keeps what the      *)
(* history says of that device, and no other step disturbs it.             *)
(***************************************************************************)
EXTENDS SyncHistory, SyncSystemProofs

(***************************************************************************)
(* One device at a time.                                                   *)
(***************************************************************************)

\* What HistoryInv says of device d alone
PullKept(d) ==
  \A e \in Entities : exported[d][e] # NoRow /\ run[d].snap[e] = NoRow
                        => local[d][e].upd >= exported[d][e].upd \/ Excused(d, e)
Gone(d) ==
  \A m \in Movies : Deletion(m) \in pending[d] =>
    local[d][Row(m)] = NoRow \/ (ui[d].op = "delete" /\ ui[d].ent = Row(m)) \/ m \in undone[d]

DeviceHistory(d) == ExportKept(d) /\ PullKept(d) /\ PassedDelete(d) /\ Gone(d)

\* HistoryInv, device by device.
LEMMA HistoryByDevice ==
  HistoryInv <=> HistoryTypeOK /\ SystemInv /\ OnlyBorn /\ \A d \in Devices : DeviceHistory(d)
BY DEF HistoryInv, DeviceHistory, PulledIsKept, PullKept, DeletedIsGone, Gone

\* The history of d follows the step.
Follows(d) ==
  /\ exported'[d] = Export(d)
  /\ \A m \in Movies : m \in undone'[d] <=>
       Deletion(m) \in pending'[d] /\ (Crossed(d, m) \/ (m \in undone[d] /\ ~Deleted(d, m)))

LEMMA HistoryFollows ==
  ASSUME HistoryNext
  PROVE  \A d \in Devices : Follows(d)
<1>1. exported' = [d \in Devices |-> Export(d)]
  BY DEF HistoryNext
<1>2. undone' = [d \in Devices |-> {m \in Movies :
        Deletion(m) \in pending'[d] /\ (Crossed(d, m) \/ (m \in undone[d] /\ ~Deleted(d, m)))}]
  BY DEF HistoryNext
<1> QED BY <1>1, <1>2 DEF Follows

\* While the cycle stays where it is, the history forgets rows at most: those
\* that the user's step withdraws.
LEMMA ExportStays ==
  ASSUME NEW d \in Devices, Follows(d), run'[d].pc = run[d].pc,
         NEW e \in Entities, exported'[d][e] # NoRow
  PROVE  exported'[d][e] = exported[d][e] /\ (ui'[d] = ui[d] \/ ~Withdrawn(d, e))
<1>1. exported'[d] = IF ui'[d] # ui[d]
                     THEN [f \in Entities |-> IF Withdrawn(d, f) THEN NoRow ELSE exported[d][f]]
                     ELSE exported[d]
  BY DEF Follows, Export
<1> QED BY <1>1

\* A step within a phase of the cycle keeps the pull complete if it does so for
\* every row that it is through with.
LEMMA WithinPhase ==
  ASSUME NEW d \in Devices, DeviceHistory(d), Follows(d), run'[d].pc = run[d].pc,
         \A e \in Entities : run'[d].snap[e] \in {run[d].snap[e], NoRow},
         \A e \in Entities :
           /\ exported[d][e] # NoRow /\ run'[d].snap[e] = NoRow
           /\ run[d].snap[e] # NoRow \/ local[d][e].upd >= exported[d][e].upd \/ Excused(d, e)
           /\ ui'[d] = ui[d] \/ ~Withdrawn(d, e)
           => local'[d][e].upd >= exported[d][e].upd \/ Excused(d, e)'
  PROVE  ExportKept(d)' /\ PullKept(d)'
<1>1. \A e \in Entities : exported'[d][e] # NoRow =>
        exported'[d][e] = exported[d][e] /\ (ui'[d] = ui[d] \/ ~Withdrawn(d, e))
  BY ExportStays
<1>2. ExportKept(d)'
  BY <1>1 DEF DeviceHistory, ExportKept
<1>3. PullKept(d)'
  BY <1>1 DEF DeviceHistory, PullKept
<1> QED BY <1>2, <1>3

\* A step to another phase keeps the pull complete: the export is new and all
\* to be applied, or all applied, or given up.
LEMMA NextPhase ==
  ASSUME NEW d \in Devices, DeviceHistory(d), Follows(d), run'[d].pc # run[d].pc,
         run'[d].pc = "idle" => \A e \in Entities : run'[d].snap[e] = NoRow
  PROVE  ExportKept(d)' /\ PullKept(d)'
<1>1. CASE run'[d].pc \in {"listed", "pull"}
  BY <1>1 DEF Follows, Export, ExportKept, PullKept
<1>2. CASE run'[d].pc \notin {"listed", "pull"} /\ FinishRun(d)
  <2>1. exported'[d] = exported[d] /\ run'[d].pc = "idle" /\ \A e \in Entities : run[d].snap[e] = NoRow
    BY <1>2 DEF Follows, Export, FinishRun, ToApply, IdleRun
  <2>2. UNCHANGED <<local, pending, conflicts, ui, slipped>>
    BY <1>2 DEF FinishRun
  <2>3. \A e \in Entities : Excused(d, e) => Excused(d, e)'
    BY <2>2 DEF Excused, Unmarked
  <2> QED BY <2>1, <2>2, <2>3 DEF DeviceHistory, ExportKept, PullKept
<1>3. CASE run'[d].pc \notin {"listed", "pull"} /\ ~FinishRun(d)
  <2>1. \A e \in Entities : exported'[d][e] = NoRow
    BY <1>3, EmptyFacts DEF Follows, Export
  <2> QED BY <2>1 DEF ExportKept, PullKept
<1> QED BY <1>1, <1>2, <1>3

\* A step of the cycle that writes no row keeps the deleted movies away.
LEMMA DeletesStay ==
  ASSUME NEW d \in Devices, DeviceHistory(d), Follows(d), ui'[d] = ui[d], local'[d] = local[d],
         pending'[d] \subseteq pending[d],
         \A m \in Movies : run'[d].cur = Row(m) => run[d].cur = Row(m) \/ Deletion(m) \notin pending[d]
  PROVE  PassedDelete(d)' /\ Gone(d)'
<1>1. \A m \in Movies : m \in undone[d] /\ Deletion(m) \in pending'[d] => m \in undone'[d]
  BY DEF Follows, Deleted, NoOp
<1>2. PassedDelete(d)'
  BY <1>1 DEF DeviceHistory, PassedDelete
<1>3. Gone(d)'
  BY <1>1 DEF DeviceHistory, Gone
<1> QED BY <1>2, <1>3

\* A device that does not move keeps its history.
LEMMA UnmovedKeeps ==
  ASSUME NEW d \in Devices, DeviceHistory(d), Follows(d), run'[d] = run[d], ui'[d] = ui[d],
         local'[d] = local[d], pending'[d] = pending[d], conflicts'[d] = conflicts[d],
         slipped'[d] = slipped[d]
  PROVE  DeviceHistory(d)'
<1>1. \A e \in Entities : Excused(d, e) => Excused(d, e)'
  BY DEF Excused, Unmarked
<1>2. ExportKept(d)' /\ PullKept(d)'
  BY <1>1, WithinPhase DEF DeviceHistory, PullKept
<1>3. PassedDelete(d)' /\ Gone(d)'
  BY DeletesStay
<1> QED BY <1>2, <1>3 DEF DeviceHistory

(***************************************************************************)
(* The user's operations.                                                  *)
(***************************************************************************)

\* An edit of row e gives a reason to differ, and brings no deleted movie back
\* unless its row was there.
LEMMA SaveHistory ==
  ASSUME SystemInv, NEW d \in Devices, DeviceHistory(d), Follows(d),
         NEW e \in Entities, NEW v \in Vals, SaveRow(d, e, v),
         \A m \in Movies : e = Row(m) /\ Deletion(m) \in pending[d] => local[d][e] # NoRow
  PROVE  DeviceHistory(d)'
<1>1. /\ UNCHANGED <<pending, conflicts, run>>
      /\ \A f \in Entities \ {e} : local'[d][f] = local[d][f]
      /\ ui[d] = NoOp /\ ui'[d].op = "mark" /\ ui'[d].ent = e /\ slipped[d] \subseteq slipped'[d]
  BY SaveRowFacts DEF SystemInv
<1>2. ExportKept(d)' /\ PullKept(d)'
  <2>1. Excused(d, e)'
    BY <1>1 DEF Excused, Unmarked
  <2>2. \A f \in Entities : Excused(d, f) => Excused(d, f)'
    BY <1>1 DEF Excused, Unmarked, NoOp
  <2>3. \A f \in Entities : run'[d].snap[f] = run[d].snap[f]
    BY <1>1
  <2> QED BY <1>1, <2>1, <2>2, <2>3, WithinPhase
<1>3. \A m \in Movies : m \in undone[d] /\ Deletion(m) \in pending[d] => m \in undone'[d]
  BY <1>1 DEF Follows, Deleted, NoOp
<1>4. PassedDelete(d)'
  BY <1>1, <1>3 DEF DeviceHistory, PassedDelete
<1>5. Gone(d)'
  <2> SUFFICES ASSUME NEW m \in Movies, Deletion(m) \in pending[d]
               PROVE  local'[d][Row(m)] = NoRow \/ m \in undone'[d]
    BY <1>1 DEF Gone
  <2>1. local[d][Row(m)] = NoRow \/ m \in undone[d]
    BY <1>1 DEF DeviceHistory, Gone, NoOp
  <2>2. CASE Row(m) = e
    BY <1>3, <2>1, <2>2
  <2>3. CASE Row(m) # e
    BY <1>1, <1>3, <2>1, <2>3, KeyFacts
  <2> QED BY <2>2, <2>3
<1> QED BY <1>2, <1>4, <1>5 DEF DeviceHistory

\* A mark takes over from the operation as the reason to differ.
LEMMA MarkHistory ==
  ASSUME SystemInv, NEW d \in Devices, DeviceHistory(d), Follows(d), MarkSaved(d) \/ MarkResolved(d)
  PROVE  DeviceHistory(d)'
<1> DEFINE e == IF ui[d].op = "mark" THEN ui[d].ent ELSE ui[d].ent.entity
<1>1. TypeOK /\ DeviceTypeOK
  BY DEF SystemInv, TypeOK
<1>2. e \in Entities /\ \A f \in Entities : f \in Unmarked(d) => f = e
  BY <1>1, DeviceFacts, OperationFacts DEF MarkSaved, MarkResolved, Conflicts, Unmarked
<1>3. /\ UNCHANGED <<local, conflicts, run>> /\ pending'[d] = pending[d] \cup {e}
      /\ slipped[d] \ {e} \subseteq slipped'[d] /\ ui[d].op \in {"mark", "resolve"}
      /\ ui'[d].op \in {"none", "close"}
  <2>1. CASE MarkSaved(d)
    BY <1>1, <2>1 DEF DeviceTypeOK, MarkSaved, NoteMarked, NoOp
  <2>2. CASE MarkResolved(d)
    <3>1. ui[d].op = "resolve" /\ ui[d] \in [op : {"resolve", "close"}, ent : Conflicts]
      BY <1>1, <2>2, DeviceFacts DEF MarkResolved, Operations, NoOp
    <3>2. [ui[d] EXCEPT !.op = "close"].op = "close"
      BY <3>1
    <3>3. ui'[d].op = "close"
      BY <1>1, <2>2, <3>2 DEF DeviceTypeOK, MarkResolved
    <3> QED BY <1>1, <2>2, <3>1, <3>3 DEF DeviceTypeOK, MarkResolved, NoteMarked
  <2> QED BY <2>1, <2>2
<1> HIDE DEF e
<1>4. ExportKept(d)' /\ PullKept(d)'
  <2>1. \A f \in Entities : Excused(d, f) => Excused(d, f)'
    BY <1>2, <1>3 DEF Excused
  <2> QED BY <1>3, <2>1, WithinPhase
<1>5. \A m \in Movies : Deletion(m) \in pending'[d] <=> Deletion(m) \in pending[d]
  BY <1>2, <1>3 DEF Deletion, Entities, RowKinds
<1>6. \A m \in Movies : m \in undone[d] /\ Deletion(m) \in pending[d] => m \in undone'[d]
  BY <1>3, <1>5 DEF Follows, Deleted
<1>7. PassedDelete(d)' /\ Gone(d)'
  BY <1>3, <1>5, <1>6 DEF DeviceHistory, PassedDelete, Gone
<1> QED BY <1>4, <1>7 DEF DeviceHistory

\* A delete marked while the pull is at the movie's row is noted.
LEMMA MarkDeleteHistory ==
  ASSUME SystemInv, NEW d \in Devices, DeviceHistory(d), Follows(d), NEW m \in Movies, MarkDelete(d, m)
  PROVE  DeviceHistory(d)'
<1>1. TypeOK /\ DeviceTypeOK
  BY DEF SystemInv, TypeOK
<1>2. /\ UNCHANGED <<local, conflicts, run, slipped>> /\ pending'[d] = pending[d] \cup {Deletion(m)}
      /\ ui[d] = NoOp /\ ui'[d].op = "delete" /\ ui'[d].ent = Row(m)
  BY <1>1 DEF DeviceTypeOK, MarkDelete
<1>3. ExportKept(d)' /\ PullKept(d)'
  <2>1. \A f \in Entities : Excused(d, f) => Excused(d, f)'
    BY <1>2 DEF Excused, Unmarked, NoOp
  <2> QED BY <1>2, <2>1, WithinPhase
<1>4. \A n \in Movies : n \in undone[d] /\ Deletion(n) \in pending[d] => n \in undone'[d]
  BY <1>2 DEF Follows, Deleted, NoOp
<1>5. \A n \in Movies : n # m => (Deletion(n) \in pending'[d] <=> Deletion(n) \in pending[d])
  BY <1>2 DEF Deletion
<1>6. PassedDelete(d)'
  BY <1>2, <1>4, <1>5 DEF DeviceHistory, PassedDelete, Follows, Crossed
<1>7. Gone(d)'
  BY <1>2, <1>4, <1>5 DEF DeviceHistory, Gone, NoOp
<1> QED BY <1>3, <1>6, <1>7 DEF DeviceHistory

\* A delete withdraws the rows it takes, and they are gone.
LEMMA DeleteRowHistory ==
  ASSUME SystemInv, NEW d \in Devices, DeviceHistory(d), Follows(d), DeleteRow(d)
  PROVE  DeviceHistory(d)'
<1> DEFINE m == ui[d].ent[2]
<1>1. TypeOK /\ DeviceTypeOK
  BY DEF SystemInv, TypeOK
<1>2. m \in Movies /\ local[d] \in Tables
  BY <1>1, DeviceFacts, OperationFacts, KeyFacts DEF DeleteRow
<1>3. /\ UNCHANGED <<pending, conflicts, run, slipped>>
      /\ local'[d] = Cascade(local[d], m) /\ ui[d].op = "delete" /\ ui'[d] = NoOp
  BY <1>1 DEF DeviceTypeOK, DeleteRow
<1>4. \A f \in Entities : local'[d][f] = IF f[2] = m THEN NoRow ELSE local[d][f]
  BY <1>2, <1>3, CascadeTable
<1>5. ExportKept(d)' /\ PullKept(d)'
  <2>1. \A f \in Entities : Excused(d, f) => Excused(d, f)'
    BY <1>3 DEF Excused, Unmarked
  <2>2. ui'[d] # ui[d] /\ \A f \in Entities : ~Withdrawn(d, f) => local'[d][f] = local[d][f]
    BY <1>3, <1>4 DEF Withdrawn, NoOp
  <2> QED BY <1>3, <2>1, <2>2, WithinPhase
<1>6. \A n \in Movies : n \in undone[d] /\ Deletion(n) \in pending[d] /\ (n # m \/ run[d].cur = Row(n))
        => n \in undone'[d]
  <2>1. \A n \in Movies : Row(n)[2] = n
    BY DEF Row
  <2> QED BY <1>3, <2>1 DEF Follows, Deleted
<1>7. PassedDelete(d)'
  BY <1>3, <1>6 DEF DeviceHistory, PassedDelete
<1>8. Gone(d)'
  <2> SUFFICES ASSUME NEW n \in Movies, Deletion(n) \in pending[d]
               PROVE  local'[d][Row(n)] = NoRow \/ n \in undone'[d]
    BY <1>3 DEF Gone
  <2>1. Row(n) \in Entities /\ Row(n)[2] = n
    BY KeyFacts DEF Row
  <2> QED BY <1>3, <1>4, <1>6, <2>1 DEF DeviceHistory, Gone
<1> QED BY <1>5, <1>7, <1>8 DEF DeviceHistory

\* A resolution gives a reason to differ, and one that may bring a deleted movie
\* back is noted.
LEMMA ResolveHistory ==
  ASSUME SystemInv, NEW d \in Devices, DeviceHistory(d), Follows(d),
         NEW c \in conflicts[d], NEW chosen, ResolveConflict(d, c, chosen)
  PROVE  DeviceHistory(d)'
<1> DEFINE e == c.entity
<1>1. TypeOK /\ DeviceTypeOK /\ e \in Entities
  BY DeviceFacts DEF SystemInv, TypeOK, Conflicts
<1>2. /\ UNCHANGED <<pending, conflicts, run>>
      /\ \A f \in Entities \ {e} : local'[d][f] = local[d][f]
      /\ ui[d] = NoOp /\ ui'[d].op = "resolve" /\ ui'[d].ent.entity = e /\ slipped[d] \subseteq slipped'[d]
  BY <1>1 DEF DeviceTypeOK, Tables, ResolveConflict, NoteLate
<1>3. ExportKept(d)' /\ PullKept(d)'
  <2>1. Excused(d, e)'
    BY <1>1, <1>2 DEF Excused, Unmarked
  <2>2. \A f \in Entities : Excused(d, f) => Excused(d, f)'
    BY <1>2 DEF Excused, Unmarked, NoOp
  <2> QED BY <1>1, <1>2, <2>1, <2>2, WithinPhase
<1>4. \A m \in Movies : m \in undone[d] /\ Deletion(m) \in pending[d] => m \in undone'[d]
  BY <1>2 DEF Follows, Deleted, NoOp
<1>5. PassedDelete(d)'
  BY <1>2, <1>4 DEF DeviceHistory, PassedDelete
<1>6. Gone(d)'
  <2> SUFFICES ASSUME NEW m \in Movies, Deletion(m) \in pending[d]
               PROVE  local'[d][Row(m)] = NoRow \/ m \in undone'[d]
    BY <1>2 DEF Gone
  <2>1. local[d][Row(m)] = NoRow \/ m \in undone[d]
    BY <1>2 DEF DeviceHistory, Gone, NoOp
  <2>2. CASE Row(m) = e
    BY <1>2, <2>2 DEF Follows, Crossed
  <2>3. CASE Row(m) # e
    BY <1>2, <1>4, <2>1, <2>3, KeyFacts
  <2> QED BY <2>2, <2>3
<1> QED BY <1>3, <1>5, <1>6 DEF DeviceHistory

\* Closing a conflict withdraws its row.
LEMMA CloseHistory ==
  ASSUME SystemInv, NEW d \in Devices, DeviceHistory(d), Follows(d), CloseConflict(d)
  PROVE  DeviceHistory(d)'
<1>1. /\ UNCHANGED <<local, pending, run, slipped>> /\ ui[d].op = "close" /\ ui'[d] = NoOp
  BY DEF SystemInv, TypeOK, DeviceTypeOK, CloseConflict
<1>2. ExportKept(d)' /\ PullKept(d)'
  <2>1. ui'[d] # ui[d] /\ \A f \in Entities : Excused(d, f) /\ ~Withdrawn(d, f) => Excused(d, f)'
    BY <1>1 DEF Excused, Unmarked, Withdrawn, NoOp
  <2> QED BY <1>1, <2>1, WithinPhase
<1>3. \A m \in Movies : m \in undone[d] /\ Deletion(m) \in pending[d] => m \in undone'[d]
  BY <1>1 DEF Follows, Deleted
<1>4. PassedDelete(d)' /\ Gone(d)'
  BY <1>1, <1>3 DEF DeviceHistory, PassedDelete, Gone
<1> QED BY <1>2, <1>4 DEF DeviceHistory

(***************************************************************************)
(* The cycle.                                                              *)
(***************************************************************************)

\* The fields of an idle cycle, as the history needs them
LEMMA IdleFields ==
  /\ IdleRun.pc = "idle" /\ IdleRun.cur = None /\ \A e \in Entities : IdleRun.snap[e] = NoRow
  /\ [IdleRun EXCEPT !.pc = "export"].pc = "export" /\ [IdleRun EXCEPT !.pc = "export"].cur = None
BY IdleRunFacts DEF IdleRun

\* No movie's row is "no row".
LEMMA NoneIsNoRow == \A m \in Movies : Row(m) # None
BY KeyFacts

\* A step to another phase that leaves the tables and the operation alone keeps
\* the history.
LEMMA PhaseHistory ==
  ASSUME NEW d \in Devices, DeviceHistory(d), Follows(d), ui'[d] = ui[d], local'[d] = local[d],
         pending'[d] \subseteq pending[d], run'[d].pc # run[d].pc,
         run'[d].pc = "idle" => run'[d] = IdleRun, run'[d].cur \in {run[d].cur, None}
  PROVE  DeviceHistory(d)'
<1>1. ExportKept(d)' /\ PullKept(d)'
  BY IdleFields, NextPhase
<1>2. PassedDelete(d)' /\ Gone(d)'
  BY DeletesStay, NoneIsNoRow
<1> QED BY <1>1, <1>2 DEF DeviceHistory

\* Push, its answer, the export, the end of the cycle and its failure keep the
\* history.
LEMMA CycleHistory ==
  ASSUME SystemInv, NEW d \in Devices, DeviceHistory(d), Follows(d),
         \/ \E q \in Requests : RequestPush(d, q)
         \/ ReceiveAck(d) \/ RunFails(d) \/ PullMovies(d) \/ PullEntries(d) \/ FinishRun(d)
  PROVE  DeviceHistory(d)'
<1>1. /\ run \in [Devices -> Runs] /\ run[d] \in Runs /\ pending \in [Devices -> SUBSET Marks]
  BY DEF SystemInv, TypeOK, DeviceTypeOK
<1>2. ASSUME run' = [run EXCEPT ![d] = IdleRun], run[d].pc # "idle", UNCHANGED <<ui, local, pending>>
      PROVE  DeviceHistory(d)'
  BY <1>1, <1>2, IdleFields, PhaseHistory
<1>3. ASSUME NEW q \in Requests, RequestPush(d, q) PROVE DeviceHistory(d)'
  <2>1. /\ UNCHANGED <<ui, local, pending>> /\ run[d].pc = "idle"
        /\ run' = [run EXCEPT ![d].pc = "wait", ![d].req = q, ![d].clear = Clearable(d)]
    BY <1>3 DEF RequestPush, StartPush
  <2>2. run'[d].pc = "wait" /\ run'[d].cur = run[d].cur
    BY <1>1, <2>1 DEF Runs
  <2> QED BY <2>1, <2>2, PhaseHistory
<1>4. CASE ReceiveAck(d)
  <2>1. PICK cleared, p : ClearPushed(d, p, cleared)
    BY <1>4 DEF ReceiveAck
  <2>2. /\ UNCHANGED <<ui, local>> /\ run[d].pc = "wait" /\ pending'[d] \subseteq pending[d]
        /\ run'[d] = [IdleRun EXCEPT !.pc = "export"]
    BY <1>1, <2>1 DEF ClearPushed
  <2> QED BY <2>2, IdleFields, PhaseHistory
<1>5. ASSUME NEW t, ReceiveMovies(d, t) \/ ReceiveEntries(d, t) PROVE DeviceHistory(d)'
  <2>1. UNCHANGED <<ui, local, pending>>
    BY <1>5 DEF ReceiveMovies, ReceiveEntries
  <2>2. /\ run[d].pc = "export" => run'[d].pc = "listed"
        /\ run[d].pc = "listed" => run'[d].pc = "pull"
        /\ run[d].pc \in {"export", "listed"} /\ run'[d].cur = run[d].cur
    BY <1>1, <1>5 DEF ReceiveMovies, ReceiveEntries, Runs
  <2> QED BY <2>1, <2>2, PhaseHistory
<1>6. CASE RunFails(d)
  BY <1>2, <1>6 DEF RunFails
<1>7. CASE FinishRun(d)
  BY <1>2, <1>7 DEF FinishRun, Pulling
<1> QED BY <1>3, <1>4, <1>5, <1>6, <1>7 DEF PullMovies, PullEntries

\* A row of the export that is dealt with, and nothing else of the cycle
LEMMA AppliedRow ==
  ASSUME TypeOK, NEW d \in Devices, NEW e \in Entities, run' = Applied(d, e)
  PROVE  /\ run'[d].pc = run[d].pc /\ run'[d].cur = None
         /\ \A f \in Entities : run'[d].snap[f] = IF f = e THEN NoRow ELSE run[d].snap[f]
<1>1. run \in [Devices -> Runs] /\ run[d] \in Runs /\ run[d].snap \in Tables
  BY RunFacts
<1>2. run'[d].snap = [run[d].snap EXCEPT ![e] = NoRow]
  BY <1>1 DEF Applied, Runs
<1> QED BY <1>1, <1>2, AppliedFacts DEF Tables

\* Being through with a row is right when the device has its version, or a
\* reason not to.
LEMMA AppliedHistory ==
  ASSUME TypeOK, NEW d \in Devices, DeviceHistory(d), Follows(d), NEW e \in Entities, run' = Applied(d, e),
         run[d].snap[e] # NoRow, ui'[d] = ui[d], local'[d] = local[d], pending'[d] = pending[d],
         conflicts[d] \subseteq conflicts'[d], slipped'[d] = slipped[d],
         exported[d][e] = run[d].snap[e] => local[d][e].upd >= exported[d][e].upd \/ Excused(d, e)'
  PROVE  DeviceHistory(d)'
<1>1. \A f \in Entities : Excused(d, f) => Excused(d, f)'
  BY DEF Excused, Unmarked
<1>2. exported[d][e] \in {NoRow, run[d].snap[e]}
  BY DEF DeviceHistory, ExportKept
<1>3. /\ run'[d].pc = run[d].pc /\ run'[d].cur = None
      /\ \A f \in Entities : run'[d].snap[f] = IF f = e THEN NoRow ELSE run[d].snap[f]
  BY AppliedRow
<1>4. ExportKept(d)' /\ PullKept(d)'
  BY <1>1, <1>2, <1>3, WithinPhase
<1>5. PassedDelete(d)' /\ Gone(d)'
  BY <1>3, DeletesStay, NoneIsNoRow
<1> QED BY <1>4, <1>5 DEF DeviceHistory

\* A step of the pull that only prepares the next one keeps the history.
LEMMA PrepareHistory ==
  ASSUME NEW d \in Devices, DeviceHistory(d), Follows(d), ui'[d] = ui[d], local'[d] = local[d],
         pending'[d] = pending[d], conflicts'[d] = conflicts[d], slipped'[d] = slipped[d],
         run'[d].pc = run[d].pc, run'[d].snap = run[d].snap,
         \A m \in Movies : run'[d].cur = Row(m) => run[d].cur = Row(m) \/ Deletion(m) \notin pending[d]
  PROVE  DeviceHistory(d)'
<1>1. \A e \in Entities : Excused(d, e) => Excused(d, e)'
  BY DEF Excused, Unmarked
<1>2. ExportKept(d)' /\ PullKept(d)'
  BY <1>1, WithinPhase DEF DeviceHistory, PullKept
<1>3. PassedDelete(d)' /\ Gone(d)'
  BY DeletesStay
<1> QED BY <1>2, <1>3 DEF DeviceHistory

\* The pull goes on with the row that it is at.
LEMMA NextStepHistory ==
  ASSUME TypeOK, NEW d \in Devices, DeviceHistory(d), Follows(d),
         UNCHANGED <<local, pending, ui, slipped>>, UNCHANGED conflicts,
         \E step, seen : \/ run' = [run EXCEPT ![d].step = step, ![d].seen = seen]
                        \/ run' = [run EXCEPT ![d].step = step]
  PROVE  DeviceHistory(d)'
<1>1. run \in [Devices -> Runs] /\ run[d] \in Runs
  BY DEF TypeOK, DeviceTypeOK
<1>2. PICK step, seen : \/ run' = [run EXCEPT ![d].step = step, ![d].seen = seen]
                        \/ run' = [run EXCEPT ![d].step = step]
  OBVIOUS
<1>3. run'[d].pc = run[d].pc /\ run'[d].snap = run[d].snap /\ run'[d].cur = run[d].cur
  BY <1>1, <1>2 DEF Runs
<1> QED BY <1>3, PrepareHistory

\* The steps of the pull that write no row keep the history: a row is skipped
\* for a pending delete, for an open or a new conflict, or for not being newer.
LEMMA LookHistory ==
  ASSUME SystemInv, NEW d \in Devices, DeviceHistory(d), Follows(d),
         PullCheck(d) \/ PullRead(d) \/ PullJudge(d) \/ JudgeFails(d) \/ PullCompare(d) \/ PullRecord(d)
  PROVE  DeviceHistory(d)'
<1>1. /\ TypeOK /\ run \in [Devices -> Runs] /\ run[d] \in Runs /\ PullSound(d)
      /\ conflicts \in [Devices -> SUBSET Conflicts]
  BY DEF SystemInv, TypeOK, DeviceTypeOK
<1>2. UNCHANGED <<local, pending, ui, slipped>>
  BY DEF PullCheck, PullRead, PullJudge, JudgeFails, Judge, PullCompare, PullRecord
<1>3. CASE PullCheck(d)
  <2>1. PICK f \in Front(ToApply(d)) :
          run' = IF Deletion(f[2]) \in pending[d] THEN Applied(d, f)
                 ELSE [run EXCEPT ![d].cur = f, ![d].step = "read"]
    BY <1>3 DEF PullCheck
  <2>2. f \in Entities /\ run[d].snap[f] # NoRow /\ UNCHANGED conflicts
    BY <1>3 DEF Front, ToApply, PullCheck
  <2>3. CASE Deletion(f[2]) \in pending[d]
    <3>1. Excused(d, f)' /\ run' = Applied(d, f)
      BY <1>2, <2>1, <2>3 DEF Excused
    <3> QED BY <1>1, <1>2, <2>2, <3>1, AppliedHistory
  <2>4. CASE Deletion(f[2]) \notin pending[d]
    <3>1. run' = [run EXCEPT ![d].cur = f, ![d].step = "read"]
      BY <2>1, <2>4
    <3>2. run'[d].pc = run[d].pc /\ run'[d].snap = run[d].snap /\ run'[d].cur = f
      BY <1>1, <3>1 DEF Runs
    <3>3. \A m \in Movies : f = Row(m) => Deletion(m) \notin pending[d]
      BY <2>4 DEF Row
    <3> QED BY <1>2, <2>2, <3>2, <3>3, PrepareHistory
  <2> QED BY <2>3, <2>4
<1>4. ASSUME run[d].step # "none" PROVE run[d].cur \in Entities /\ run[d].snap[run[d].cur] \in Rows
  BY <1>1, <1>4, RunFacts DEF PullSound
<1>5. CASE PullRead(d)
  <2>1. PICK e \in Entities : e = run[d].cur /\ run[d].snap[e] # NoRow
    BY <1>4, <1>5, NoRowFacts DEF PullRead, Pulling
  <2>2. UNCHANGED conflicts
    BY <1>5 DEF PullRead
  <2>3. CASE HasOpenConflict(d, e)
    <3>1. run' = Applied(d, e)
      BY <1>5, <2>1, <2>3 DEF PullRead
    <3>2. Excused(d, e)'
      BY <2>2, <2>3 DEF Excused, HasOpenConflict
    <3> QED BY <1>1, <1>2, <2>1, <2>2, <3>1, <3>2, AppliedHistory
  <2>4. CASE ~HasOpenConflict(d, e)
    <3>1. \E step, seen : \/ run' = [run EXCEPT ![d].step = step, ![d].seen = seen]
                          \/ run' = [run EXCEPT ![d].step = step]
      BY <1>5, <2>1, <2>4 DEF PullRead
    <3> QED BY <1>1, <1>2, <2>2, <3>1, NextStepHistory
  <2> QED BY <2>3, <2>4
<1>6. CASE PullJudge(d) \/ JudgeFails(d)
  <2>1. \E step, seen : \/ run' = [run EXCEPT ![d].step = step, ![d].seen = seen]
                        \/ run' = [run EXCEPT ![d].step = step]
    BY <1>6 DEF PullJudge, JudgeFails, Judge
  <2> QED BY <1>1, <1>2, <1>6, <2>1, NextStepHistory DEF PullJudge, JudgeFails, Judge
<1>7. CASE PullCompare(d)
  <2>1. PICK e \in Entities : e = run[d].cur /\ run[d].snap[e] \in Rows
    BY <1>4, <1>7 DEF PullCompare, Pulling
  <2>2. UNCHANGED conflicts /\ local[d][e] \in Rows \cup {NoRow}
    BY <1>1, <1>7, RunFacts DEF PullCompare
  <2>3. CASE Newer(run[d].snap[e], local[d][e])
    <3>1. \E step, seen : \/ run' = [run EXCEPT ![d].step = step, ![d].seen = seen]
                          \/ run' = [run EXCEPT ![d].step = step]
      BY <1>7, <2>1, <2>3 DEF PullCompare
    <3> QED BY <1>1, <1>2, <2>2, <3>1, NextStepHistory
  <2>4. CASE ~Newer(run[d].snap[e], local[d][e])
    <3>1. run' = Applied(d, e)
      BY <1>7, <2>1, <2>4 DEF PullCompare
    <3>2. local[d][e].upd >= run[d].snap[e].upd /\ run[d].snap[e] # NoRow
      BY <2>1, <2>2, <2>4, NoRowFacts DEF Newer
    <3> QED BY <1>1, <1>2, <2>2, <3>1, <3>2, AppliedHistory
  <2> QED BY <2>3, <2>4
<1>8. CASE PullRecord(d)
  <2>1. PICK e \in Entities : e = run[d].cur /\ run[d].snap[e] # NoRow
    BY <1>4, <1>8, NoRowFacts DEF PullRecord, Pulling
  <2> DEFINE c == [entity |-> e, local |-> run[d].seen, remote |-> run[d].snap[e],
                   twin |-> \E b \in conflicts[d] : b.entity = e]
  <2>2. conflicts'[d] = conflicts[d] \cup {c} /\ run' = Applied(d, e)
    BY <1>1, <1>8, <2>1 DEF PullRecord
  <2>3. c.entity = e
    OBVIOUS
  <2>4. Excused(d, e)' /\ conflicts[d] \subseteq conflicts'[d]
    BY <2>2, <2>3 DEF Excused
  <2> QED BY <1>1, <1>2, <2>1, <2>2, <2>4, AppliedHistory
<1> QED BY <1>3, <1>5, <1>6, <1>7, <1>8

\* The write of a pull brings the exported version, and a deleted movie only
\* when the history notes it.
LEMMA WriteHistory ==
  ASSUME SystemInv, NEW d \in Devices, DeviceHistory(d), Follows(d), PullWrite(d)
  PROVE  DeviceHistory(d)'
<1> DEFINE e == run[d].cur
<1>1. /\ TypeOK /\ run \in [Devices -> Runs] /\ run[d] \in Runs /\ PullSound(d)
      /\ local \in [Devices -> Tables] /\ local[d] \in Tables
  BY DEF SystemInv, TypeOK, DeviceTypeOK
<1>2. UNCHANGED <<pending, conflicts, ui, slipped>> /\ run[d].pc = "pull"
  BY DEF PullWrite, Pulling
<1>3. e \in Entities /\ run[d].snap[e] \in Rows
  <2>1. run[d].step # "none"
    BY DEF PullWrite, Pulling
  <2> QED BY <1>1, <2>1, RunFacts DEF PullSound
<1>4. CASE WriteFails(local[d], e, run[d].seen)
  <2>1. run'[d] = IdleRun /\ UNCHANGED local
    BY <1>1, <1>4 DEF PullWrite
  <2> QED BY <1>2, <2>1, IdleFields, PhaseHistory
<1>5. CASE ~WriteFails(local[d], e, run[d].seen)
  <2>1. run' = Applied(d, e) /\ local' = [local EXCEPT ![d][e] = run[d].snap[e]]
    BY <1>5 DEF PullWrite
  <2>2. local'[d][e] = run[d].snap[e] /\ \A f \in Entities \ {e} : local'[d][f] = local[d][f]
    BY <1>1, <1>3, <2>1 DEF Tables
  <2>3. /\ run'[d].pc = run[d].pc /\ run'[d].cur = None
        /\ \A f \in Entities : run'[d].snap[f] = IF f = e THEN NoRow ELSE run[d].snap[f]
    BY <1>1, <1>3, <2>1, AppliedRow
  <2>4. ExportKept(d)' /\ PullKept(d)'
    <3>1. \A f \in Entities : Excused(d, f) => Excused(d, f)'
      BY <1>2 DEF Excused, Unmarked
    <3>2. exported[d][e] \in {NoRow, run[d].snap[e]} /\ run[d].snap[e].upd >= run[d].snap[e].upd
      BY <1>3, NoRowFacts DEF DeviceHistory, ExportKept, Rows
    <3> QED BY <1>3, <2>2, <2>3, <3>1, <3>2, WithinPhase
  <2>5. \A m \in Movies : m \in undone[d] /\ Deletion(m) \in pending[d] => m \in undone'[d]
    BY <1>2 DEF Follows, Deleted, NoOp
  <2>6. PassedDelete(d)'
    BY <2>3, NoneIsNoRow DEF PassedDelete
  <2>7. Gone(d)'
    <3> SUFFICES ASSUME NEW m \in Movies, Deletion(m) \in pending[d]
                 PROVE  local'[d][Row(m)] = NoRow \/ (ui[d].op = "delete" /\ ui[d].ent = Row(m))
                          \/ m \in undone'[d]
      BY <1>2 DEF Gone
    <3>1. CASE Row(m) = e
      BY <2>5, <3>1 DEF DeviceHistory, PassedDelete
    <3>2. CASE Row(m) # e
      BY <2>2, <2>5, <3>2, KeyFacts DEF DeviceHistory, Gone
    <3> QED BY <3>1, <3>2
  <2> QED BY <2>4, <2>6, <2>7 DEF DeviceHistory
<1> QED BY <1>4, <1>5

\* A crash gives up the export; the history notes the delete that it cuts off.
LEMMA CrashHistory ==
  ASSUME SystemInv, NEW d \in Devices, DeviceHistory(d), Follows(d), Crash(d)
  PROVE  DeviceHistory(d)'
<1>1. /\ UNCHANGED <<local, pending, conflicts>> /\ run'[d] = IdleRun /\ ui'[d] = NoOp
      /\ slipped'[d] = slipped[d] \cup Unmarked(d)
  BY DEF SystemInv, TypeOK, DeviceTypeOK, Crash
<1>2. ExportKept(d)' /\ PullKept(d)'
  <2>1. CASE run[d].pc = "idle"
    <3>1. \A e \in Entities : Excused(d, e) => Excused(d, e)'
      BY <1>1 DEF Excused
    <3>2. \A e \in Entities : run[d].snap[e] = NoRow /\ run'[d].snap[e] = NoRow
      BY <1>1, <2>1, IdleFields DEF DeviceHistory, ExportKept
    <3> QED BY <1>1, <2>1, <3>1, <3>2, IdleFields, WithinPhase
  <2>2. CASE run[d].pc # "idle"
    BY <1>1, <2>2, IdleFields, NextPhase
  <2> QED BY <2>1, <2>2
<1>3. PassedDelete(d)'
  BY <1>1, IdleFields, NoneIsNoRow DEF PassedDelete
<1>4. Gone(d)'
  BY <1>1 DEF DeviceHistory, Gone, Follows, Crossed, Deleted
<1> QED BY <1>2, <1>3, <1>4 DEF DeviceHistory
(***************************************************************************)
(* Any step of the system.                                                 *)
(***************************************************************************)

\* The steps that a device takes part in
DeviceStep(d) ==
  \/ UserStep(d) \/ UserContinues(d) \/ PullStep(d) \/ RunFails(d) \/ JudgeFails(d) \/ Crash(d)
  \/ \E q \in Requests : RequestPush(d, q)
  \/ ReceiveAck(d) \/ PullMovies(d) \/ PullEntries(d)

\* A step keeps SystemInv, and it is one of the server alone or of one device,
\* which leaves the other devices as they are.
LEMMA DeviceMoves ==
  ASSUME SystemInv, Next
  PROVE  /\ SystemInv'
         /\ UNCHANGED <<clock, deviceVars>> \/ \E d \in Devices : StepKeeps(d) /\ DeviceStep(d)
<1>1. ASSUME NEW d \in Devices, User(d) PROVE SystemInv' /\ StepKeeps(d) /\ DeviceStep(d)
  BY <1>1, UserKeeps DEF User, DeviceStep
<1>2. ASSUME NEW d \in Devices, RunStep(d) PROVE SystemInv' /\ StepKeeps(d) /\ DeviceStep(d)
  BY <1>2, RunKeeps DEF RunStep, ReceiveError, DeviceStep
<1>3. ASSUME NEW q \in Requests, ServerStep(q) \/ LoseResponse(q)
      PROVE  SystemInv' /\ UNCHANGED <<clock, deviceVars>>
  BY <1>3, ServerKeeps DEF ServerStep, LoseResponse
<1>4. ASSUME NEW d \in Devices, RunFails(d) \/ JudgeFails(d) \/ Crash(d), UNCHANGED serverVars
      PROVE  StepKeeps(d) /\ DeviceStep(d)
  <2>1. CASE JudgeFails(d)
    BY <1>4, <2>1, JudgeKeeps DEF DeviceStep, JudgeFails
  <2> QED BY <1>4, <2>1, EndKeeps, CrashKeeps DEF DeviceStep
<1>5. CASE Fault
  BY <1>4, <1>5, FaultKeeps DEF Fault
<1> QED BY <1>1, <1>2, <1>3, <1>5 DEF Next

\* The steps of a device keep its history.
LEMMA DeviceHistoryKeeps ==
  ASSUME SystemInv, OnlyBorn, NEW d \in Devices, DeviceHistory(d), Follows(d), DeviceStep(d)
  PROVE  DeviceHistory(d)'
<1>1. ASSUME NEW m \in Movies, NEW v \in Vals, CreateMovie(d, m, v) PROVE DeviceHistory(d)'
  <2>1. m \notin born /\ SaveRow(d, Row(m), v) /\ Row(m) \in Entities
    BY <1>1, KeyFacts DEF CreateMovie
  <2>2. Deletion(m) \notin pending[d]
    BY <2>1 DEF OnlyBorn
  <2>3. \A n \in Movies : Row(m) = Row(n) => n = m
    BY KeyFacts
  <2> QED BY <2>1, <2>2, <2>3, SaveHistory
<1>2. ASSUME NEW e \in Entities, NEW v \in Vals, SaveExisting(d, e, v) PROVE DeviceHistory(d)'
  <2>1. SaveRow(d, e, v) /\ local[d][Row(e[2])] # NoRow
    BY <1>2 DEF SaveExisting
  <2>2. \A m \in Movies : e = Row(m) => e = Row(e[2])
    BY DEF Row
  <2> QED BY <2>1, <2>2, SaveHistory
<1>3. CASE UserStep(d)
  BY <1>1, <1>2, <1>3, MarkDeleteHistory, ResolveHistory DEF UserStep
<1>4. CASE UserContinues(d)
  BY <1>4, MarkHistory, DeleteRowHistory, CloseHistory DEF UserContinues
<1>5. CASE PullStep(d) \/ JudgeFails(d)
  BY <1>5, LookHistory, WriteHistory, CycleHistory DEF PullStep
<1> QED BY <1>3, <1>4, <1>5, CrashHistory, CycleHistory DEF DeviceStep

\* Every step keeps the history of every device.
LEMMA HistoriesKeep ==
  ASSUME SystemInv, OnlyBorn, \A d \in Devices : DeviceHistory(d), HistoryNext
  PROVE  \A d \in Devices : DeviceHistory(d)'
<1>1. \A d \in Devices : Follows(d)
  BY HistoryFollows
<1>2. Next
  BY DEF HistoryNext
<1>3. CASE UNCHANGED <<clock, deviceVars>>
  BY <1>1, <1>3, UnmovedKeeps DEF deviceVars
<1>4. ASSUME NEW d \in Devices, StepKeeps(d), DeviceStep(d) PROVE \A o \in Devices : DeviceHistory(o)'
  <2>1. DeviceHistory(d)'
    BY <1>1, <1>4, DeviceHistoryKeeps
  <2>2. ASSUME NEW o \in Devices \ {d} PROVE DeviceHistory(o)'
    BY <1>1, <1>4, UnmovedKeeps DEF StepKeeps, OthersSame
  <2> QED BY <2>1, <2>2
<1> QED BY <1>2, <1>3, <1>4, DeviceMoves

\* The history variables stay well typed.
LEMMA HistoryTypes ==
  ASSUME HistoryTypeOK, TypeOK', HistoryNext
  PROVE  HistoryTypeOK'
<1>1. ASSUME NEW d \in Devices PROVE Export(d) \in Tables
  <2>1. run'[d].snap \in Tables /\ exported[d] \in Tables /\ EmptyTable \in Tables
    BY EmptyFacts DEF HistoryTypeOK, TypeOK, DeviceTypeOK, Runs
  <2>2. [e \in Entities |-> IF Withdrawn(d, e) THEN NoRow ELSE exported[d][e]] \in Tables
    BY <2>1 DEF Tables
  <2> QED BY <2>1, <2>2 DEF Export
<1>2. exported' \in [Devices -> Tables]
  BY <1>1 DEF HistoryNext
<1>3. undone' \in [Devices -> SUBSET Movies]
  BY DEF HistoryNext
<1> QED BY <1>2, <1>3 DEF HistoryTypeOK

(***************************************************************************)
(* Where the versions of a row come from: every step but the user's edit   *)
(* only copies versions that there are.                                    *)
(***************************************************************************)

\* r is a version of row e on device d.
OnDevice(d, e, r) ==
  \/ r = local[d][e] \/ r = run[d].snap[e]
  \/ run[d].cur = e /\ run[d].step \in {"judge", "record"} /\ r = run[d].seen
  \/ \E c \in conflicts[d] : c.entity = e /\ r \in {c.local, c.remote}

\* ... or anywhere.
Version(e, r) ==
  \/ r = server[e] \/ \E q \in Requests : r = imp[q].payload.rows[e]
  \/ \E d \in Devices : OnDevice(d, e, r)

\* The sets of versions, as predicates, now and after a step
LEMMA VersionSets ==
  /\ \A e, r : r \in Versions(e) <=> Version(e, r)
  /\ \A e, r : r \in Versions(e)' <=> Version(e, r)'
<1>1. \A d, e, r : r \in VersionsOn(d, e) <=> OnDevice(d, e, r)
  BY DEF VersionsOn, OnDevice
<1>2. \A d, e, r : r \in VersionsOn(d, e)' <=> OnDevice(d, e, r)'
  BY DEF VersionsOn, OnDevice
<1> QED BY <1>1, <1>2 DEF Versions, Version

\* The rows among the versions of a row are those that are not missing.
LEMMA VersionRows ==
  ASSUME TypeOK, NEW e \in Entities, NEW r \in Versions(e)
  PROVE  r \in Rows \cup {NoRow}
<1>1. /\ server[e] \in Rows \cup {NoRow}
      /\ \A q \in Requests : imp[q].payload.rows[e] \in Rows \cup {NoRow}
  BY TypeFacts DEF TypeOK, Payloads, Tables
<1>2. ASSUME NEW d \in Devices, OnDevice(d, e, r) PROVE r \in Rows \cup {NoRow}
  <2>1. \A c \in conflicts[d] : c.local \in Rows /\ c.remote \in Rows
    BY DeviceFacts DEF Conflicts
  <2> QED BY <1>2, <2>1, RunFacts DEF OnDevice
<1> QED BY <1>1, <1>2, VersionSets DEF Version

\* r is no row, or a version of e that there is already.
Old(e, r) == r = NoRow \/ Version(e, r)

\* What device d has after the step are versions that there were before.
Copies(d) ==
  /\ \A e \in Entities : Old(e, local'[d][e]) /\ Old(e, run'[d].snap[e])
  /\ run'[d].step \in {"judge", "record"} => Old(run'[d].cur, run'[d].seen)
  /\ \A c \in conflicts'[d] : Old(c.entity, c.local) /\ Old(c.entity, c.remote)

\* r is what an edit of the user wrote: the row of a movie that the device has,
\* or created.
SavedBy(d, e, r) ==
  /\ ui'[d] # ui[d] /\ ui'[d].op = "mark" /\ ui'[d].ent = e
  /\ r = local'[d][e] /\ r.upd = Now(d) + 1 /\ clock' = clock + 1
  /\ e[2] \in born' \/ local[d][Row(e[2])] # NoRow

\* Before the step, a device has versions that there are.
LEMMA HasOld ==
  ASSUME NEW d \in Devices
  PROVE  /\ \A e \in Entities : Old(e, local[d][e]) /\ Old(e, run[d].snap[e])
         /\ run[d].step \in {"judge", "record"} => Old(run[d].cur, run[d].seen)
         /\ \A c \in conflicts[d] : Old(c.entity, c.local) /\ Old(c.entity, c.remote)
BY DEF Old, Version, OnDevice

\* The server's rows and those of payloads are versions.
LEMMA ServerOld == \A e : Old(e, server[e]) /\ \A q \in Requests : Old(e, imp[q].payload.rows[e])
BY DEF Old, Version

\* A device that leaves its tables, cycle and conflicts alone has old versions,
\* also when it gives the cycle up.
LEMMA CopiesTables ==
  ASSUME NEW d \in Devices, \A e \in Entities : Old(e, local'[d][e]), conflicts'[d] \subseteq conflicts[d],
         run'[d] = run[d] \/ (run'[d].step = "none" /\ \A e \in Entities : Old(e, run'[d].snap[e]))
  PROVE  Copies(d)
BY HasOld DEF Copies

\* The edit of the user is the one new version.
LEMMA SaveVersions ==
  ASSUME SystemInv, NEW d \in Devices, NEW e \in Entities, NEW v \in Vals, SaveRow(d, e, v),
         e[2] \in born' \/ local[d][Row(e[2])] # NoRow
  PROVE  \A f \in Entities : \A r : OnDevice(d, f, r)' => Old(f, r) \/ SavedBy(d, f, r)
<1>1. /\ UNCHANGED <<conflicts, run>> /\ \A f \in Entities \ {e} : local'[d][f] = local[d][f]
      /\ ui[d] = NoOp /\ ui'[d].op = "mark" /\ ui'[d].ent = e
  BY SaveRowFacts DEF SystemInv
<1>2. clock' = clock + 1 /\ local'[d][e] = [val |-> v, upd |-> Now(d) + 1]
  BY DEF SystemInv, TypeOK, DeviceTypeOK, Tables, SaveRow
<1>3. SavedBy(d, e, local'[d][e])
  BY <1>1, <1>2 DEF SavedBy, NoOp
<1> QED BY <1>1, <1>3, HasOld DEF OnDevice

\* A resolution copies a version of the conflict.
LEMMA ResolveVersions ==
  ASSUME SystemInv, NEW d \in Devices, NEW c \in conflicts[d], NEW chosen \in {c.local, c.remote},
         ResolveConflict(d, c, chosen)
  PROVE  Copies(d)
<1>1. local \in [Devices -> Tables] /\ local[d] \in Tables /\ UNCHANGED <<conflicts, run>>
  BY DEF SystemInv, TypeOK, DeviceTypeOK, ResolveConflict
<1>2. local' = [local EXCEPT ![d][c.entity] = IF Newer(chosen, @) THEN chosen ELSE @]
  BY DEF ResolveConflict
<1>3. \A e \in Entities : \/ local'[d][e] = local[d][e]
                          \/ local'[d][e] = chosen /\ c.entity = e
  BY <1>1, <1>2 DEF Tables
<1>4. Old(c.entity, chosen)
  BY HasOld
<1>5. \A e \in Entities : Old(e, local'[d][e])
  BY <1>3, <1>4, HasOld
<1> QED BY <1>1, <1>5, CopiesTables

\* The other steps of the user copy or drop versions.
LEMMA UserCopies ==
  ASSUME SystemInv, NEW d \in Devices,
         UserContinues(d) \/ Crash(d) \/ RunFails(d) \/ \E m \in Movies : MarkDelete(d, m)
  PROVE  Copies(d)
<1>1. TypeOK /\ DeviceTypeOK
  BY DEF SystemInv, TypeOK
<1>2. CASE DeleteRow(d)
  <2>1. ui[d].ent[2] \in Movies /\ local[d] \in Tables
    BY <1>1, <1>2, DeviceFacts, OperationFacts, KeyFacts DEF DeleteRow
  <2>2. local'[d] = Cascade(local[d], ui[d].ent[2]) /\ UNCHANGED <<conflicts, run>>
    BY <1>1, <1>2 DEF DeviceTypeOK, DeleteRow
  <2>3. \A e \in Entities : local'[d][e] \in {NoRow, local[d][e]}
    BY <2>1, <2>2, CascadeTable
  <2>4. \A e \in Entities : Old(e, local'[d][e])
    BY <2>3, HasOld DEF Old
  <2> QED BY <2>2, <2>4, CopiesTables
<1>3. CASE Crash(d) \/ RunFails(d)
  <2>1. UNCHANGED <<local, conflicts>> /\ run'[d] = IdleRun
    BY <1>1, <1>3 DEF DeviceTypeOK, Crash, RunFails
  <2>2. run'[d].step = "none" /\ \A e \in Entities : Old(e, run'[d].snap[e])
    BY <2>1, IdleRunFacts DEF Old
  <2> QED BY <2>1, <2>2, HasOld, CopiesTables
<1>4. CASE CloseConflict(d)
  <2>1. UNCHANGED <<local, run>> /\ conflicts'[d] \subseteq conflicts[d]
    BY <1>1, <1>4 DEF DeviceTypeOK, CloseConflict
  <2> QED BY <2>1, HasOld, CopiesTables
<1>5. CASE MarkSaved(d) \/ MarkResolved(d) \/ \E m \in Movies : MarkDelete(d, m)
  <2>1. UNCHANGED <<local, conflicts, run>>
    BY <1>5 DEF MarkSaved, MarkResolved, MarkDelete
  <2> QED BY <2>1, HasOld, CopiesTables
<1> QED BY <1>2, <1>3, <1>4, <1>5 DEF UserContinues

\* The cycle copies versions: the server's into the export, the export's and the
\* device's into conflicts, and the export's into the tables.
LEMMA CycleCopies ==
  ASSUME SystemInv, NEW d \in Devices,
         \/ \E q \in Requests : RequestPush(d, q)
         \/ ReceiveAck(d) \/ PullMovies(d) \/ PullEntries(d) \/ FinishRun(d)
  PROVE  Copies(d)
<1>1. run \in [Devices -> Runs] /\ run[d] \in Runs
  BY DEF SystemInv, TypeOK, DeviceTypeOK
<1>2. ASSUME NEW q \in Requests, RequestPush(d, q) PROVE Copies(d)
  <2>1. run' = [run EXCEPT ![d].pc = "wait", ![d].req = q, ![d].clear = Clearable(d)]
    BY <1>2 DEF RequestPush, StartPush
  <2>2. /\ run'[d].snap = run[d].snap /\ run'[d].cur = run[d].cur /\ run'[d].step = run[d].step
        /\ run'[d].seen = run[d].seen
    BY <1>1, <2>1 DEF Runs
  <2>3. UNCHANGED <<local, conflicts>>
    BY <1>2 DEF RequestPush, StartPush
  <2> QED BY <2>2, <2>3, HasOld DEF Copies
<1>3. CASE ReceiveAck(d)
  <2>1. PICK cleared, p : ClearPushed(d, p, cleared)
    BY <1>3 DEF ReceiveAck
  <2>2. UNCHANGED <<local, conflicts>> /\ run'[d] = [IdleRun EXCEPT !.pc = "export"]
    BY <1>1, <2>1 DEF ClearPushed
  <2>3. run'[d].step = "none" /\ \A e \in Entities : run'[d].snap[e] = NoRow
    BY <2>2, EmptyFacts DEF IdleRun
  <2> QED BY <2>2, <2>3, HasOld, CopiesTables DEF Old
<1>4. CASE PullMovies(d) \/ PullEntries(d)
  <2>1. UNCHANGED <<local, conflicts>>
    BY <1>4 DEF PullMovies, PullEntries, ReceiveMovies, ReceiveEntries
  <2>2. PICK pc \in {"listed", "pull"}, table \in Tables :
          /\ run' = [run EXCEPT ![d].pc = pc, ![d].snap = table]
          /\ \A e \in Entities : table[e] \in {server[e], run[d].snap[e], NoRow}
    BY <1>4, ExportTable DEF SystemInv
  <2>3. /\ run'[d].snap = table /\ run'[d].cur = run[d].cur /\ run'[d].step = run[d].step
        /\ run'[d].seen = run[d].seen
    BY <1>1, <2>2 DEF Runs
  <2>4. \A e \in Entities : Old(e, table[e])
    BY <2>2, HasOld, ServerOld DEF Old
  <2> QED BY <2>1, <2>3, <2>4, HasOld DEF Copies
<1>5. CASE FinishRun(d)
  <2>1. UNCHANGED <<local, conflicts>> /\ run'[d] = IdleRun
    BY <1>1, <1>5 DEF FinishRun
  <2>2. run'[d].step = "none" /\ \A e \in Entities : Old(e, run'[d].snap[e])
    BY <2>1, IdleRunFacts DEF Old
  <2> QED BY <2>1, <2>2, HasOld, CopiesTables
<1> QED BY <1>2, <1>3, <1>4, <1>5

\* Being through with a row copies nothing but what the conflict has.
LEMMA AppliedCopies ==
  ASSUME SystemInv, NEW d \in Devices, NEW e \in Entities, run' = Applied(d, e),
         \A f \in Entities : Old(f, local'[d][f]),
         \A c \in conflicts'[d] : Old(c.entity, c.local) /\ Old(c.entity, c.remote)
  PROVE  Copies(d)
<1>1. run'[d].step = "none" /\ \A f \in Entities : run'[d].snap[f] \in {run[d].snap[f], NoRow}
  BY AppliedFacts DEF SystemInv
<1>2. \A f \in Entities : Old(f, run'[d].snap[f])
  BY <1>1, HasOld DEF Old
<1> QED BY <1>1, <1>2 DEF Copies

\* The pull copies versions.
LEMMA PullCopies ==
  ASSUME SystemInv, NEW d \in Devices, PullStep(d) \/ JudgeFails(d)
  PROVE  Copies(d)
<1>1. /\ TypeOK /\ run \in [Devices -> Runs] /\ run[d] \in Runs /\ PullSound(d)
      /\ conflicts \in [Devices -> SUBSET Conflicts] /\ local \in [Devices -> Tables]
  BY DEF SystemInv, TypeOK, DeviceTypeOK
<1>2. ASSUME run[d].step # "none" PROVE run[d].cur \in Entities
  BY <1>1, <1>2, RunFacts DEF PullSound
<1>3. ASSUME UNCHANGED <<local, conflicts>>, NEW f \in Entities, run' = Applied(d, f) PROVE Copies(d)
  BY <1>3, HasOld, AppliedCopies
<1>4. ASSUME NEW step, step \notin {"judge", "record"}, UNCHANGED <<local, conflicts>>,
             run'[d].step = step, run'[d].snap = run[d].snap
      PROVE  Copies(d)
  BY <1>4, HasOld DEF Copies
<1>5. CASE PullCheck(d)
  <2>1. PICK f \in Entities : run' = Applied(d, f) \/ run' = [run EXCEPT ![d].cur = f, ![d].step = "read"]
    BY <1>5 DEF PullCheck, Front, ToApply
  <2>2. CASE run' = [run EXCEPT ![d].cur = f, ![d].step = "read"]
    <3>1. run'[d].step = "read" /\ run'[d].snap = run[d].snap
      BY <1>1, <2>2 DEF Runs
    <3> QED BY <1>4, <1>5, <3>1 DEF PullCheck
  <2> QED BY <1>3, <1>5, <2>1, <2>2 DEF PullCheck
<1>6. CASE PullRead(d)
  <2>1. PICK e \in Entities : e = run[d].cur
    BY <1>2, <1>6 DEF PullRead, Pulling
  <2>2. UNCHANGED <<local, conflicts>>
    BY <1>6 DEF PullRead
  <2>3. \/ run' = Applied(d, e) \/ run' = [run EXCEPT ![d].step = "compare"]
        \/ run' = [run EXCEPT ![d].step = "judge", ![d].seen = local[d][e]]
    BY <1>6, <2>1 DEF PullRead
  <2>4. CASE run' = [run EXCEPT ![d].step = "compare"]
    <3>1. run'[d].step = "compare" /\ run'[d].snap = run[d].snap
      BY <1>1, <2>4 DEF Runs
    <3> QED BY <1>4, <2>2, <3>1
  <2>5. CASE run' = [run EXCEPT ![d].step = "judge", ![d].seen = local[d][e]]
    <3>1. run'[d].seen = local[d][e] /\ run'[d].cur = e /\ run'[d].snap = run[d].snap
      BY <1>1, <2>1, <2>5 DEF Runs
    <3> QED BY <2>2, <3>1, HasOld DEF Copies
  <2> QED BY <1>3, <2>2, <2>3, <2>4, <2>5
<1>7. CASE PullJudge(d) \/ JudgeFails(d)
  <2>1. UNCHANGED <<local, conflicts>> /\ run[d].step = "judge"
    BY <1>7 DEF PullJudge, JudgeFails, Judge, Pulling
  <2>2. \/ run' = [run EXCEPT ![d].step = "record"]
        \/ run' = [run EXCEPT ![d].step = "compare", ![d].seen = NoRow]
    BY <1>7 DEF PullJudge, JudgeFails, Judge
  <2>3. CASE run' = [run EXCEPT ![d].step = "record"]
    <3>1. run'[d].seen = run[d].seen /\ run'[d].cur = run[d].cur /\ run'[d].snap = run[d].snap
      BY <1>1, <2>3 DEF Runs
    <3> QED BY <2>1, <3>1, HasOld DEF Copies
  <2>4. CASE run' = [run EXCEPT ![d].step = "compare", ![d].seen = NoRow]
    <3>1. run'[d].step = "compare" /\ run'[d].snap = run[d].snap
      BY <1>1, <2>4 DEF Runs
    <3> QED BY <1>4, <2>1, <3>1
  <2> QED BY <2>2, <2>3, <2>4
<1>8. CASE PullCompare(d)
  <2>1. PICK e \in Entities : e = run[d].cur
    BY <1>2, <1>8 DEF PullCompare, Pulling
  <2>2. UNCHANGED <<local, conflicts>>
    BY <1>8 DEF PullCompare
  <2>3. run' = Applied(d, e) \/ run' = [run EXCEPT ![d].step = "write", ![d].seen = local[d][e]]
    BY <1>8, <2>1 DEF PullCompare
  <2>4. CASE run' = [run EXCEPT ![d].step = "write", ![d].seen = local[d][e]]
    <3>1. run'[d].step = "write" /\ run'[d].snap = run[d].snap
      BY <1>1, <2>4 DEF Runs
    <3> QED BY <1>4, <2>2, <3>1
  <2> QED BY <1>3, <2>2, <2>3, <2>4
<1>9. CASE PullWrite(d)
  <2>1. PICK e \in Entities : e = run[d].cur
    BY <1>2, <1>9 DEF PullWrite, Pulling
  <2>2. UNCHANGED conflicts
    BY <1>9 DEF PullWrite
  <2>3. CASE run' = [run EXCEPT ![d] = IdleRun] /\ UNCHANGED local
    <3>1. run'[d] = IdleRun
      BY <1>1, <2>3
    <3>2. run'[d].step = "none" /\ \A f \in Entities : Old(f, run'[d].snap[f])
      BY <3>1, IdleRunFacts DEF Old
    <3> QED BY <2>2, <2>3, <3>2, HasOld, CopiesTables
  <2>4. CASE run' = Applied(d, e) /\ local' = [local EXCEPT ![d][e] = run[d].snap[e]]
    <3>1. \A f \in Entities : local'[d][f] \in {local[d][f], run[d].snap[f]}
      BY <1>1, <2>4 DEF Tables
    <3>2. \A f \in Entities : Old(f, local'[d][f])
      BY <3>1, HasOld
    <3> QED BY <2>2, <2>4, <3>2, HasOld, AppliedCopies
  <2> QED BY <1>9, <2>1, <2>3, <2>4 DEF PullWrite
<1>10. CASE PullRecord(d)
  <2>1. PICK e \in Entities : e = run[d].cur
    BY <1>2, <1>10 DEF PullRecord, Pulling
  <2> DEFINE c == [entity |-> e, local |-> run[d].seen, remote |-> run[d].snap[e],
                   twin |-> \E b \in conflicts[d] : b.entity = e]
  <2>2. conflicts'[d] = conflicts[d] \cup {c} /\ run' = Applied(d, e) /\ UNCHANGED local
    BY <1>1, <1>10, <2>1 DEF PullRecord
  <2>3. run[d].step = "record"
    BY <1>10 DEF PullRecord, Pulling
  <2>4. c.entity = e /\ c.local = run[d].seen /\ c.remote = run[d].snap[e]
    OBVIOUS
  <2> HIDE DEF c
  <2>5. \A b \in conflicts'[d] : Old(b.entity, b.local) /\ Old(b.entity, b.remote)
    BY <2>1, <2>2, <2>3, <2>4, HasOld
  <2> QED BY <2>2, <2>5, HasOld, AppliedCopies
<1> QED BY <1>5, <1>6, <1>7, <1>8, <1>9, <1>10, CycleCopies DEF PullStep

\* What a handler of the server does to rows and payloads
LEMMA HandlerCopies ==
  ASSUME ServerInv, NEW q \in Requests, Lookup(q) \/ WriteDelete(q) \/ WriteRow(q) \/ Abort(q)
  PROVE  /\ \A e \in Entities : server'[e] \in {NoRow, server[e], imp[q].payload.rows[e]}
         /\ \A o \in Requests : imp'[o].payload = imp[o].payload
<1>1. ServerTypeOK /\ imp \in [Requests -> Handlers] /\ server \in Tables
  BY DEF ServerInv, ServerTypeOK
<1>2. imp[q].pc # "idle" /\ \A o \in Requests \ {q} : imp'[o] = imp[o]
  BY <1>1 DEF Lookup, WriteDelete, WriteRow, Abort, Running
<1>3. \A o \in Requests : imp'[o].payload = imp[o].payload
  BY <1>2, HandlerSteps
<1>4. CASE Lookup(q) \/ Abort(q)
  BY <1>3, <1>4 DEF Lookup, Abort
<1>5. CASE WriteDelete(q)
  <2>1. imp[q].cur[2] \in Movies
    BY <1>1, <1>5, TypeFacts, KeyFacts DEF WriteDelete
  <2>2. server' = server \/ server' = Cascade(server, imp[q].cur[2])
    BY <1>5 DEF WriteDelete
  <2> QED BY <1>1, <1>3, <2>1, <2>2, CascadeTable
<1>6. CASE WriteRow(q)
  <2>1. server' = server \/ server' = [server EXCEPT ![imp[q].cur] = imp[q].payload.rows[imp[q].cur]]
    BY <1>6 DEF WriteRow, Put
  <2> QED BY <1>1, <1>3, <2>1 DEF Tables
<1> QED BY <1>4, <1>5, <1>6

\* The server copies versions: from payloads into its tables, and from a device
\* into a payload.
LEMMA ServerVersions ==
  ASSUME SystemInv, Next
  PROVE  \A e \in Entities : Old(e, server'[e]) /\ \A q \in Requests : Old(e, imp'[q].payload.rows[e])
<1>1. ServerInv /\ imp \in [Requests -> Handlers]
  BY DEF SystemInv, ServerInv, ServerTypeOK
<1>2. CASE UNCHANGED serverVars
  BY <1>2, ServerOld DEF serverVars
<1>3. ASSUME NEW q \in Requests, Lookup(q) \/ WriteDelete(q) \/ WriteRow(q) \/ Abort(q)
      PROVE  \A e \in Entities : Old(e, server'[e]) /\ \A o \in Requests : Old(e, imp'[o].payload.rows[e])
  <2>1. \A e \in Entities : server'[e] \in {NoRow, server[e], imp[q].payload.rows[e]}
    BY <1>1, <1>3, HandlerCopies
  <2>2. \A o \in Requests : imp'[o].payload = imp[o].payload
    BY <1>1, <1>3, HandlerCopies
  <2> QED BY <2>1, <2>2, ServerOld DEF Old
<1>4. ASSUME NEW q, Release(q)
      PROVE  \A e \in Entities : Old(e, server'[e]) /\ \A o \in Requests : Old(e, imp'[o].payload.rows[e])
  <2>1. UNCHANGED server /\ imp' = [imp EXCEPT ![q] = IdleHandler]
    BY <1>4 DEF Release
  <2>2. \A o \in Requests : imp'[o] = imp[o] \/ imp'[o].payload = EmptyPayload
    BY <1>1, <2>1, IdleFacts
  <2>3. \A e \in Entities : EmptyPayload.rows[e] = NoRow
    BY EmptyFacts
  <2> QED BY <2>1, <2>2, <2>3, ServerOld DEF Old
<1>5. ASSUME NEW d \in Devices, NEW q \in Requests, RequestPush(d, q)
      PROVE  \A e \in Entities : Old(e, server'[e]) /\ \A o \in Requests : Old(e, imp'[o].payload.rows[e])
  <2>1. UNCHANGED server /\ \A o \in Requests \ {q} : imp'[o] = imp[o]
    BY <1>1, <1>5 DEF RequestPush, Arrive
  <2>2. imp'[q].payload = PushPayload(d)
    BY <1>1, <1>5 DEF RequestPush, Arrive, Handlers, IdleHandler
  <2>3. \A e \in Entities : PushPayload(d).rows[e] \in {local[d][e], NoRow}
    BY DEF PushPayload
  <2> QED BY <2>1, <2>2, <2>3, HasOld, ServerOld DEF Old
<1>6. ASSUME NEW d \in Devices, RunStep(d)
      PROVE  \/ UNCHANGED serverVars
             \/ \E q \in Requests : RequestPush(d, q)
             \/ \E q : Release(q)
  BY <1>6 DEF RunStep, ReceiveAck, ReceiveError, PullMovies, PullEntries
<1>7. CASE Fault
  BY <1>2, <1>3, <1>7 DEF Fault
<1>8. CASE \E d \in Devices : User(d) \/ RunStep(d)
  BY <1>2, <1>4, <1>5, <1>6, <1>8 DEF User
<1>9. CASE \E q \in Requests : ServerStep(q) \/ LoseResponse(q)
  BY <1>3, <1>4, <1>9 DEF ServerStep, LoseResponse
<1> QED BY <1>7, <1>8, <1>9 DEF Next

\* After a step of device d, its versions are old, or saved by the step.
LEMMA DeviceVersions ==
  ASSUME SystemInv, NEW d \in Devices, DeviceStep(d)
  PROVE  \A e \in Entities : \A r : OnDevice(d, e, r)' => Old(e, r) \/ SavedBy(d, e, r)
<1>1. ASSUME Copies(d) PROVE \A e \in Entities : \A r : OnDevice(d, e, r)' => Old(e, r)
  BY <1>1 DEF Copies, OnDevice
<1>2. ASSUME NEW m \in Movies, NEW v \in Vals, CreateMovie(d, m, v)
      PROVE  \A e \in Entities : \A r : OnDevice(d, e, r)' => Old(e, r) \/ SavedBy(d, e, r)
  <2>1. SaveRow(d, Row(m), v) /\ Row(m) \in Entities /\ Row(m)[2] \in born'
    BY <1>2, KeyFacts DEF CreateMovie, Row
  <2> QED BY <2>1, SaveVersions
<1>3. ASSUME NEW e \in Entities, NEW v \in Vals, SaveExisting(d, e, v)
      PROVE  \A f \in Entities : \A r : OnDevice(d, f, r)' => Old(f, r) \/ SavedBy(d, f, r)
  BY <1>3, SaveVersions DEF SaveExisting
<1>4. CASE UserStep(d)
  BY <1>1, <1>2, <1>3, <1>4, UserCopies, ResolveVersions DEF UserStep
<1> QED BY <1>1, <1>4, UserCopies, CycleCopies, PullCopies DEF DeviceStep

\* After any step, the versions are old, or saved by the one device that moved.
LEMMA NewVersions ==
  ASSUME SystemInv, Next
  PROVE  \/ (\A e \in Entities : \A r : Version(e, r)' => Old(e, r)) /\ UNCHANGED <<clock, pending, born>>
         \/ \E d \in Devices :
              /\ StepKeeps(d) /\ DeviceStep(d)
              /\ \A e \in Entities : \A r : Version(e, r)' => Old(e, r) \/ SavedBy(d, e, r)
<1>1. \A e \in Entities : Old(e, server'[e]) /\ \A q \in Requests : Old(e, imp'[q].payload.rows[e])
  BY ServerVersions
<1>2. ASSUME NEW o \in Devices, local'[o] = local[o], run'[o] = run[o], conflicts'[o] = conflicts[o]
      PROVE  \A e \in Entities : \A r : OnDevice(o, e, r)' => Old(e, r)
  BY <1>2 DEF OnDevice, Old, Version
<1>3. CASE UNCHANGED <<clock, deviceVars>>
  <2>1. \A o \in Devices : \A e \in Entities : \A r : OnDevice(o, e, r)' => Old(e, r)
    BY <1>2, <1>3 DEF deviceVars
  <2>2. \A e \in Entities : \A r : Version(e, r)' => Old(e, r)
    BY <1>1, <2>1 DEF Version
  <2> QED BY <1>3, <2>2 DEF deviceVars
<1>4. ASSUME NEW d \in Devices, StepKeeps(d), DeviceStep(d)
      PROVE  \A e \in Entities : \A r : Version(e, r)' => Old(e, r) \/ SavedBy(d, e, r)
  <2>1. \A o \in Devices \ {d} : \A e \in Entities : \A r : OnDevice(o, e, r)' => Old(e, r)
    BY <1>2, <1>4 DEF StepKeeps, OthersSame
  <2>2. \A e \in Entities : \A r : OnDevice(d, e, r)' => Old(e, r) \/ SavedBy(d, e, r)
    BY <1>4, DeviceVersions
  <2> QED BY <1>1, <2>1, <2>2 DEF Version
<1> QED BY <1>3, <1>4, DeviceMoves

\* Time does not go back, created movies stay created, and only a movie that is
\* there is deleted.
LEMMA DeviceGrows ==
  ASSUME SystemInv, NEW d \in Devices, DeviceStep(d)
  PROVE  /\ clock' \in {clock, clock + 1} /\ born \subseteq born'
         /\ \A m \in Movies : Deletion(m) \in pending'[d] =>
              Deletion(m) \in pending[d] \/ local[d][Row(m)] # NoRow
<1>1. TypeOK /\ DeviceTypeOK
  BY DEF SystemInv, TypeOK
<1>2. CASE UserStep(d)
  <2>1. ASSUME NEW e \in Entities, NEW v \in Vals, SaveRow(d, e, v), born \subseteq born'
        PROVE  clock' = clock + 1 /\ UNCHANGED pending
    BY <2>1 DEF SaveRow
  <2>2. ASSUME NEW m \in Movies, MarkDelete(d, m)
        PROVE  /\ clock' = clock + 1 /\ UNCHANGED born /\ local[d][Row(m)] # NoRow
               /\ \A n \in Movies : Deletion(n) \in pending'[d] => Deletion(n) \in pending[d] \/ n = m
    BY <1>1, <2>2 DEF DeviceTypeOK, MarkDelete, Deletion
  <2> QED BY <1>2, <2>1, <2>2, KeyFacts DEF UserStep, CreateMovie, SaveExisting, ResolveConflict
<1>3. CASE UserContinues(d)
  <2>1. UNCHANGED <<clock, born>>
    BY <1>3 DEF UserContinues, MarkSaved, DeleteRow, MarkResolved, CloseConflict
  <2>2. ASSUME NEW m \in Movies, Deletion(m) \in pending'[d], Deletion(m) \notin pending[d] PROVE FALSE
    <3>1. CASE MarkSaved(d)
      <4>1. ui[d].ent \in Entities
        BY <1>1, <3>1, DeviceFacts, OperationFacts DEF MarkSaved
      <4> QED BY <1>1, <2>2, <3>1, <4>1 DEF DeviceTypeOK, MarkSaved, Deletion, Entities, RowKinds
    <3>2. CASE MarkResolved(d)
      <4>1. ui[d].ent.entity \in Entities
        BY <1>1, <3>2, DeviceFacts, OperationFacts DEF MarkResolved, Conflicts
      <4> QED BY <1>1, <2>2, <3>2, <4>1 DEF DeviceTypeOK, MarkResolved, Deletion, Entities, RowKinds
    <3> QED BY <1>3, <2>2, <3>1, <3>2 DEF UserContinues, DeleteRow, CloseConflict
  <2> QED BY <2>1, <2>2
<1>4. CASE PullStep(d)
  <2>1. UNCHANGED <<clock, born, pending>>
    BY <1>4 DEF PullStep, PullCheck, PullRead, PullJudge, Judge, PullCompare, PullWrite, PullRecord, FinishRun
  <2> QED BY <2>1
<1>5. CASE ReceiveAck(d)
  <2>1. PICK cleared, p : ClearPushed(d, p, cleared)
    BY <1>5 DEF ReceiveAck
  <2>2. UNCHANGED <<clock, born>> /\ pending'[d] \subseteq pending[d]
    BY <1>1, <2>1 DEF DeviceTypeOK, ClearPushed
  <2> QED BY <2>2
<1>6. CASE \/ RunFails(d) \/ JudgeFails(d) \/ Crash(d) \/ PullMovies(d) \/ PullEntries(d)
           \/ \E q \in Requests : RequestPush(d, q)
  <2>1. UNCHANGED <<clock, born, pending>>
    BY <1>6 DEF RunFails, JudgeFails, Judge, Crash, PullMovies, PullEntries, ReceiveMovies, ReceiveEntries,
                RequestPush, StartPush
  <2> QED BY <2>1
<1> QED BY <1>2, <1>3, <1>4, <1>5, <1>6 DEF DeviceStep

\* Versions and pending deletes stay those of created movies.
LEMMA BornKeeps ==
  ASSUME SystemInv, OnlyBorn, Next
  PROVE  OnlyBorn'
<1>1. \A m \in Movies : \A r : Old(Row(m), r) /\ r # NoRow => m \in born
  BY VersionSets DEF Old, OnlyBorn
<1>2. \A d \in Devices, m \in Movies : local[d][Row(m)] # NoRow => m \in born
  BY <1>1, HasOld, KeyFacts
<1>3. CASE (\A e \in Entities : \A r : Version(e, r)' => Old(e, r)) /\ UNCHANGED <<clock, pending, born>>
  BY <1>1, <1>3, KeyFacts, VersionSets DEF OnlyBorn
<1>4. ASSUME NEW d \in Devices, StepKeeps(d), DeviceStep(d),
             \A e \in Entities : \A r : Version(e, r)' => Old(e, r) \/ SavedBy(d, e, r)
      PROVE  OnlyBorn'
  <2>1. born \subseteq born'
    BY <1>4, DeviceGrows
  <2>2. ASSUME NEW m \in Movies, NEW r, r # NoRow, Version(Row(m), r)' PROVE m \in born'
    <3>1. Old(Row(m), r) \/ SavedBy(d, Row(m), r)
      BY <1>4, <2>2, KeyFacts
    <3>2. SavedBy(d, Row(m), r) => m \in born' \/ local[d][Row(m)] # NoRow
      BY DEF SavedBy, Row
    <3> QED BY <1>1, <1>2, <2>1, <2>2, <3>1, <3>2
  <2>3. ASSUME NEW m \in Movies, NEW o \in Devices, Deletion(m) \in pending'[o] PROVE m \in born'
    <3>1. Deletion(m) \in pending[o] \/ local[o][Row(m)] # NoRow
      BY <1>4, <2>3, DeviceGrows DEF StepKeeps, OthersSame
    <3> QED BY <1>2, <2>1, <3>1 DEF OnlyBorn
  <2> QED BY <2>2, <2>3, VersionSets DEF OnlyBorn
<1> QED BY <1>3, <1>4, NewVersions

\* When the clocks agree, an edit has a time that no version has.
LEMMA TimesKeep ==
  ASSUME SystemInv, OneVersionPerTime, Next, ClocksAgree
  PROVE  OneVersionPerTime'
<1>1. clock \in Nat /\ \A d \in Devices : Skew[d] \in Nat
  BY DeviceAssumption DEF SystemInv, TypeOK
<1>2. ASSUME NEW e \in Entities, NEW r, Old(e, r), r # NoRow
      PROVE  r \in Versions(e) \ {NoRow} /\ r.upd \in Nat /\ \A d \in Devices : r.upd <= Now(d)
  <2>1. r \in Versions(e) \ {NoRow}
    BY <1>2, VersionSets DEF Old
  <2>2. r.upd \in Nat
    BY <2>1, VersionRows, NoRowFacts DEF SystemInv
  <2> QED BY <2>1, <2>2 DEF OneVersionPerTime
<1>3. CASE (\A e \in Entities : \A r : Version(e, r)' => Old(e, r)) /\ UNCHANGED <<clock, pending, born>>
  <2>1. \A e \in Entities : \A r : r \in Versions(e)' \ {NoRow} => r \in Versions(e) \ {NoRow}
    BY <1>3, VersionSets DEF Old
  <2> QED BY <1>3, <2>1 DEF OneVersionPerTime, Now
<1>4. ASSUME NEW d \in Devices, StepKeeps(d), DeviceStep(d),
             \A e \in Entities : \A r : Version(e, r)' => Old(e, r) \/ SavedBy(d, e, r)
      PROVE  OneVersionPerTime'
  <2>1. \A o \in Devices : Now(o) \in Nat /\ Now(o) = Now(d) /\ Now(o)' = clock' + Skew[o] /\ Now(o) = clock + Skew[o]
    BY <1>1 DEF ClocksAgree, Now
  <2>2. \A o \in Devices : Now(o) <= Now(o)'
    BY <1>1, <1>4, <2>1, DeviceGrows
  <2>3. ASSUME NEW e \in Entities, NEW r \in Versions(e)' \ {NoRow}
        PROVE  /\ r.upd \in Nat /\ \A o \in Devices : r.upd <= Now(o)'
               /\ \/ r \in Versions(e) \ {NoRow} /\ r.upd <= Now(d)
                  \/ r = local'[d][e] /\ r.upd = Now(d) + 1
    <3>1. r # NoRow /\ (Old(e, r) \/ SavedBy(d, e, r))
      BY <1>4, VersionSets
    <3>2. \A o \in Devices : Now(o)' \in Nat
      BY <1>1, <1>4, <2>1, DeviceGrows
    <3>3. CASE Old(e, r)
      <4>1. r \in Versions(e) \ {NoRow} /\ r.upd \in Nat /\ \A o \in Devices : r.upd <= Now(o)
        BY <1>2, <3>1, <3>3
      <4> QED BY <2>1, <2>2, <3>2, <4>1
    <3>4. CASE SavedBy(d, e, r)
      BY <1>1, <2>1, <3>4 DEF SavedBy
    <3> QED BY <3>1, <3>3, <3>4
  <2>4. ASSUME NEW e \in Entities, NEW r \in Versions(e)' \ {NoRow}, NEW s \in Versions(e)' \ {NoRow},
               r.upd = s.upd
        PROVE  r = s
    <3>1. CASE r \in Versions(e) \ {NoRow} /\ s \in Versions(e) \ {NoRow}
      BY <2>4, <3>1 DEF OneVersionPerTime
    <3>2. CASE ~(r \in Versions(e) \ {NoRow} /\ s \in Versions(e) \ {NoRow})
      BY <2>1, <2>3, <2>4, <3>2
    <3> QED BY <3>1, <3>2
  <2> QED BY <2>3, <2>4 DEF OneVersionPerTime
<1> QED BY <1>3, <1>4, NewVersions

(***************************************************************************)
(* The theorems.                                                           *)
(***************************************************************************)

\* In the beginning, nothing was pulled or deleted, and the seeded rows are the
\* versions there are.
LEMMA HistoryInitFacts ==
  ASSUME HistoryInit
  PROVE  HistoryInv /\ OneVersionPerTime
<1>1. SystemInv
  BY InitFacts DEF HistoryInit
<1>2. PICK v \in Vals :
        LET table == [e \in Entities |-> IF e \in Seeded THEN [val |-> v, upd |-> 1] ELSE NoRow]
        IN server = table /\ local = [d \in Devices |-> table]
  BY DEF HistoryInit, Init
<1> DEFINE table == [e \in Entities |-> IF e \in Seeded THEN [val |-> v, upd |-> 1] ELSE NoRow]
<1>3. /\ clock = 1 /\ server = table /\ local = [d \in Devices |-> table]
      /\ imp = [q \in Requests |-> IdleHandler] /\ born = {m \in Movies : Row(m) \in Seeded}
      /\ pending = [d \in Devices |-> {}] /\ conflicts = [d \in Devices |-> {}]
      /\ run = [d \in Devices |-> IdleRun]
      /\ exported = [d \in Devices |-> EmptyTable] /\ undone = [d \in Devices |-> {}]
  BY <1>2 DEF HistoryInit, Init
<1>4. HistoryTypeOK
  BY <1>1, <1>3, EmptyFacts DEF HistoryTypeOK, SystemInv
<1>5. ASSUME NEW d \in Devices PROVE DeviceHistory(d)
  <2>1. /\ run[d].cur = None /\ pending[d] = {}
        /\ \A e \in Entities : run[d].snap[e] = NoRow /\ exported[d][e] = NoRow
    BY <1>3, EmptyFacts, IdleRunFacts
  <2> QED BY <2>1 DEF DeviceHistory, ExportKept, PullKept, PassedDelete, Gone
<1>6. ASSUME NEW e \in Entities, NEW r \in Versions(e) \ {NoRow} PROVE r = table[e]
  <2>1. Version(e, r) /\ r # NoRow
    BY <1>6, VersionSets
  <2>2. \A q \in Requests : imp[q].payload.rows[e] = NoRow
    BY <1>3, IdleFacts, EmptyFacts
  <2>3. \A d \in Devices : /\ local[d][e] = table[e] /\ run[d].snap[e] = NoRow
                           /\ run[d].step = "none" /\ conflicts[d] = {}
    BY <1>3, IdleRunFacts
  <2>4. server[e] = table[e]
    BY <1>3
  <2> HIDE DEF table
  <2> QED BY <2>1, <2>2, <2>3, <2>4 DEF Version, OnDevice
<1>7. \A e \in Entities : table[e] # NoRow => e \in Seeded /\ table[e].upd = 1
  OBVIOUS
<1> HIDE DEF table
<1>8. OnlyBorn
  <2>1. \A m \in Movies : Versions(Row(m)) \ {NoRow} # {} => m \in born
    BY <1>3, <1>6, <1>7, KeyFacts
  <2> QED BY <1>3, <2>1 DEF OnlyBorn
<1>9. OneVersionPerTime
  <2>1. \A d \in Devices : 1 <= Now(d)
    BY <1>3, DeviceAssumption DEF Now
  <2> QED BY <1>6, <1>7, <2>1 DEF OneVersionPerTime
<1> QED BY <1>1, <1>4, <1>5, <1>8, <1>9, HistoryByDevice

\* A step that changes nothing keeps everything.
LEMMA NothingMoves ==
  ASSUME UNCHANGED historyVars
  PROVE  (HistoryInv => HistoryInv') /\ (OneVersionPerTime => OneVersionPerTime')
<1>1. /\ UNCHANGED <<clock, server, imp, held, local, pending, conflicts, lastSync, ui, run, born, slipped>>
      /\ UNCHANGED <<exported, undone>>
  BY DEF historyVars, vars, serverVars, deviceVars
<1>2. ASSUME HistoryInv PROVE SystemInv'
  <2>1. UNCHANGED vars /\ SystemInv
    BY <1>1, <1>2 DEF HistoryInv, vars, serverVars, deviceVars
  <2> QED BY <2>1, SystemStep
<1>3. \A e : Versions(e)' = Versions(e)
  BY <1>1 DEF Versions, VersionsOn
<1>4. OneVersionPerTime => OneVersionPerTime'
  BY <1>1, <1>3 DEF OneVersionPerTime, Now
<1>5. OnlyBorn => OnlyBorn'
  BY <1>1, <1>3, KeyFacts DEF OnlyBorn
<1>6. \A d \in Devices : DeviceHistory(d) => DeviceHistory(d)'
  BY <1>1 DEF DeviceHistory, ExportKept, PullKept, PassedDelete, Gone, Excused, Unmarked
<1>7. ASSUME HistoryInv PROVE HistoryTypeOK'
  BY <1>1, <1>2, <1>7 DEF HistoryInv, HistoryTypeOK, SystemInv
<1> QED BY <1>2, <1>4, <1>5, <1>6, <1>7, HistoryByDevice DEF HistoryInv, DeviceHistory, PulledIsKept,
           PullKept, DeletedIsGone, Gone

\* HistoryInv is inductive.
LEMMA HistoryStep ==
  ASSUME HistoryInv, [HistoryNext]_historyVars
  PROVE  HistoryInv'
<1>1. CASE HistoryNext
  <2>1. HistoryTypeOK /\ SystemInv /\ OnlyBorn /\ Next /\ \A d \in Devices : DeviceHistory(d)
    BY <1>1, HistoryByDevice DEF HistoryNext
  <2>2. SystemInv' /\ OnlyBorn'
    BY <2>1, DeviceMoves, BornKeeps
  <2>3. HistoryTypeOK' /\ \A d \in Devices : DeviceHistory(d)'
    BY <1>1, <2>1, <2>2, HistoriesKeep, HistoryTypes DEF SystemInv
  <2> QED BY <2>2, <2>3 DEF HistoryInv, DeviceHistory, PulledIsKept, PullKept, DeletedIsGone, Gone
<1> QED BY <1>1, NothingMoves

\* In every reachable state, whatever cycles, edits, deletes, conflicts and
\* faults interleave, the history's invariant holds: for any movies, devices,
\* contents, clock skews and faults.
THEOREM HistoryInvariant == HistorySpec => []HistoryInv
<1>1. HistoryInit => HistoryInv
  BY HistoryInitFacts
<1>2. HistoryInv /\ [HistoryNext]_historyVars => HistoryInv'
  BY HistoryStep
<1> QED BY <1>1, <1>2, PTL DEF HistorySpec

\* The history is well typed.
THEOREM HistoryTypeCorrect == HistorySpec => []HistoryTypeOK
<1>1. HistoryInv => HistoryTypeOK
  BY DEF HistoryInv
<1> QED BY <1>1, HistoryInvariant, PTL

\* A pull misses no row: what it is through with is there, in the exported
\* version or a newer one, or the user has something to push or to resolve.
THEOREM PullsMissNothing == HistorySpec => []PulledIsKept
<1>1. HistoryInv => PulledIsKept
  BY DEF HistoryInv
<1> QED BY <1>1, HistoryInvariant, PTL

\* No pull brings a deleted movie back while its delete waits to be pushed,
\* except in the races that the history notes.
THEOREM DeletedMoviesAreGone == HistorySpec => []DeletedIsGone
<1>1. HistoryInv => DeletedIsGone
  BY DEF HistoryInv
<1> QED BY <1>1, HistoryInvariant, PTL

\* A device that is up to date has a row as new as the server's.
LEMMA UpToDateTime ==
  ASSUME HistoryInv, NEW d \in Devices, NEW e \in Entities, UpToDate(d, e)
  PROVE  local[d][e].upd = server[e].upd /\ local[d][e] \in Rows /\ server[e] \in Rows
<1>1. /\ TypeOK /\ ServerTypeOK /\ NoEditForgotten /\ PulledIsKept
      /\ local[d][e] \in Rows \cup {NoRow} /\ server[e] \in Rows \cup {NoRow}
  BY RunFacts, TypeFacts DEF HistoryInv, SystemInv, TypeOK
<1>2. /\ exported[d][e] = server[e] /\ server[e] # NoRow /\ run[d].snap[e] = NoRow /\ ~Excused(d, e)
      /\ \A t \in held[e] : t <= server[e].upd
  BY DEF UpToDate
<1>3. local[d][e].upd >= server[e].upd
  BY <1>1, <1>2 DEF PulledIsKept
<1>4. Received(e, local[d][e])
  BY <1>1, <1>2 DEF NoEditForgotten, Excused
<1>5. local[d][e].upd <= server[e].upd
  <2>1. held[e] \subseteq Nat /\ server[e].upd \in Nat /\ local[d][e].upd \in Nat /\ server[e].upd > 0
    BY <1>1, <1>2, TypeFacts, NoRowFacts DEF Rows
  <2>2. PICK t \in held[e] \cup {0} : local[d][e].upd <= t
    BY <1>4 DEF Received
  <2> QED BY <1>2, <2>1, <2>2
<1>6. server[e] \in Rows /\ server[e].upd \in Nat \ {0}
  BY <1>1, <1>2 DEF Rows
<1>7. local[d][e].upd \in Nat /\ local[d][e] # NoRow
  BY <1>1, <1>3, <1>6, NoRowFacts
<1> QED BY <1>1, <1>3, <1>5, <1>6, <1>7

\* A device that is up to date has a row as new as the server's, whatever the
\* clocks.
THEOREM UpToDateDevicesAgreeOnTime == HistorySpec => []QuietDevicesAgreeOnTime
<1>1. HistoryInv => QuietDevicesAgreeOnTime
  BY UpToDateTime DEF QuietDevicesAgreeOnTime
<1> QED BY <1>1, HistoryInvariant, PTL

\* A version that is new was just written by an edit of a user: everything else
\* only copies.
THEOREM VersionsAreSaved == HistorySpec => NothingInvented
<1>1. HistoryInv /\ [HistoryNext]_historyVars =>
        [\A e \in Entities : \A r \in Versions(e)' \ (Versions(e) \cup {NoRow}) :
           \E d \in Devices : /\ ui'[d] # ui[d] /\ ui'[d].op = "mark" /\ ui'[d].ent = e
                              /\ r = local'[d][e] /\ r.upd = Now(d) + 1]_vars
  <2> SUFFICES ASSUME HistoryInv, HistoryNext,
                      NEW e \in Entities, NEW r \in Versions(e)' \ (Versions(e) \cup {NoRow})
               PROVE  \E d \in Devices : SavedBy(d, e, r)
    BY DEF historyVars, SavedBy
  <2>1. Version(e, r)' /\ ~Old(e, r)
    BY VersionSets DEF Old
  <2>2. SystemInv /\ Next
    BY DEF HistoryInv, HistoryNext
  <2> QED BY <2>1, <2>2, NewVersions
<1> QED BY <1>1, HistoryInvariant, PTL DEF HistorySpec, NothingInvented

\* When the clocks agree, no two versions of a row have the same updated_at, so
\* that last-write-wins has one winner.
THEOREM TimesTellVersionsApart == ClocksAgree => (HistorySpec => []OneVersionPerTime)
<1> SUFFICES ASSUME ClocksAgree PROVE HistorySpec => []OneVersionPerTime
  OBVIOUS
<1>1. HistoryInit => OneVersionPerTime
  BY HistoryInitFacts
<1>2. HistoryInv /\ OneVersionPerTime /\ [HistoryNext]_historyVars => OneVersionPerTime'
  BY TimesKeep, NothingMoves DEF HistoryInv, HistoryNext
<1> QED BY <1>1, <1>2, HistoryInvariant, PTL DEF HistorySpec

\* When the clocks agree, devices that are up to date have the server's rows,
\* and so agree with each other.
THEOREM UpToDateDevicesAgree == ClocksAgree => (HistorySpec => []QuietDevicesAgree)
<1> SUFFICES ASSUME ClocksAgree PROVE HistorySpec => []QuietDevicesAgree
  OBVIOUS
<1>1. HistoryInv /\ OneVersionPerTime => QuietDevicesAgree
  <2> SUFFICES ASSUME HistoryInv, OneVersionPerTime, NEW d \in Devices, NEW e \in Entities, UpToDate(d, e)
               PROVE  local[d][e] = server[e]
    BY DEF QuietDevicesAgree
  <2>1. local[d][e].upd = server[e].upd /\ local[d][e] \in Rows /\ server[e] \in Rows
    BY UpToDateTime
  <2>2. local[d][e] \in Versions(e) \ {NoRow} /\ server[e] \in Versions(e) \ {NoRow}
    BY <2>1, VersionSets, NoRowFacts DEF Version, OnDevice
  <2> QED BY <2>1, <2>2 DEF OneVersionPerTime
<1> QED BY <1>1, HistoryInvariant, TimesTellVersionsApart, PTL
=============================================================================
