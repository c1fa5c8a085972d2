-------------------------- MODULE SyncSystemProofs --------------------------
(***************************************************************************)
(* Proofs about devices and server together.  SystemInv is inductive: for  *)
(* each action of a device one lemma shows that it keeps what concerns     *)
(* that device, and one argument for all of them (DeviceStepKeeps) that    *)
(* the other devices keep theirs.                                          *)
(***************************************************************************)
EXTENDS SyncSystem, SyncServerProofs

(***************************************************************************)
(* One device at a time.                                                   *)
(***************************************************************************)

\* What SystemInv says of device d alone; Awaits(d) also involves the others.
HasMovies(table) == \A m \in Movies : table[Entry(m)] # NoRow => table[Row(m)] # NoRow
OneOpen(d) == \A b, c \in conflicts[d] : b.entity = c.entity => b = c
EditsKept(d) ==
  \A e \in Entities : Received(e, local[d][e]) \/ e \in pending[d] \cup Unmarked(d) \cup slipped[d]

DeviceInv(d) == PullSound(d) /\ ExportReceived(d) /\ HasMovies(local[d]) /\ OneOpen(d) /\ EditsKept(d)

\* SystemInv, device by device.
LEMMA SystemByDevice ==
  SystemInv <=> TypeOK /\ ServerInv /\ \A d \in Devices : DeviceInv(d) /\ Awaits(d)
BY DEF SystemInv, DeviceInv, OneOpenConflict, LocalEntryHasMovie, NoEditForgotten, HasMovies, OneOpen,
       EditsKept

\* What DeviceTypeOK says of one device.
LEMMA DeviceFacts ==
  ASSUME TypeOK, NEW d \in Devices
  PROVE  /\ local[d] \in Tables
         /\ pending[d] \subseteq Marks /\ conflicts[d] \subseteq Conflicts /\ slipped[d] \subseteq Entities
         /\ ui[d] \in Operations \cup {NoOp}
         /\ run[d] \in Runs
         /\ Now(d) \in Nat /\ clock \in Nat
BY DeviceAssumption DEF TypeOK, DeviceTypeOK, Now

\* An operation in progress has the entity or the conflict that it needs.
LEMMA OperationFacts ==
  ASSUME NEW o \in Operations \cup {NoOp}
  PROVE  /\ o.op \in {"mark", "delete"} => o.ent \in Entities
         /\ o.op \in {"resolve", "close"} => o.ent \in Conflicts
BY DEF Operations, NoOp

\* A step of device d leaves the other devices alone.
OthersSame(d) ==
  \A o \in Devices \ {d} :
    /\ local'[o] = local[o] /\ pending'[o] = pending[o] /\ conflicts'[o] = conflicts[o]
    /\ lastSync'[o] = lastSync[o] /\ ui'[o] = ui[o] /\ run'[o] = run[o] /\ slipped'[o] = slipped[o]

\* A row saved at the time of the device is a row.
LEMMA SavedRow ==
  ASSUME TypeOK, NEW d \in Devices, NEW v \in Vals
  PROVE  [val |-> v, upd |-> Now(d) + 1] \in Rows
BY DeviceFacts DEF Rows

\* SaveRow, in terms of the device's own state.
LEMMA SaveRowFacts ==
  ASSUME TypeOK, NEW d \in Devices, NEW e \in Entities, NEW v \in Vals, SaveRow(d, e, v)
  PROVE  /\ clock' \in Nat /\ OthersSame(d)
         /\ local' \in [Devices -> Tables] /\ ui' \in [Devices -> Operations \cup {NoOp}]
         /\ slipped' \in [Devices -> SUBSET Entities]
         /\ UNCHANGED <<pending, conflicts, lastSync, run>>
         /\ local'[d][e] \in Rows /\ \A f \in Entities \ {e} : local'[d][f] = local[d][f]
         /\ ui[d] = NoOp /\ ui'[d].op = "mark" /\ ui'[d].ent = e
         /\ slipped'[d] = IF WillClear(d, e) THEN slipped[d] \cup {e} ELSE slipped[d]
<1> DEFINE r == [val |-> v, upd |-> Now(d) + 1]
           o == [op |-> "mark", ent |-> e]
<1>1. r \in Rows /\ o \in Operations /\ clock \in Nat
  BY SavedRow, DeviceFacts DEF Operations
<1>2. /\ local \in [Devices -> Tables] /\ ui \in [Devices -> Operations \cup {NoOp}]
      /\ slipped \in [Devices -> SUBSET Entities]
  BY DEF TypeOK, DeviceTypeOK
<1>3. /\ local' = [local EXCEPT ![d][e] = r] /\ ui' = [ui EXCEPT ![d] = o] /\ clock' = clock + 1
      /\ UNCHANGED <<pending, conflicts, lastSync, run>> /\ ui[d] = NoOp
      /\ slipped' = [slipped EXCEPT ![d] = IF WillClear(d, e) THEN @ \cup {e} ELSE @]
  BY DEF SaveRow, NoteLate
<1> HIDE DEF r, o
<1>4. /\ local' \in [Devices -> Tables] /\ local'[d][e] = r
      /\ \A f \in Entities \ {e} : local'[d][f] = local[d][f]
  BY <1>1, <1>2, <1>3 DEF Tables
<1>5. /\ ui' \in [Devices -> Operations \cup {NoOp}] /\ ui'[d] = o
      /\ slipped' \in [Devices -> SUBSET Entities]
      /\ slipped'[d] = IF WillClear(d, e) THEN slipped[d] \cup {e} ELSE slipped[d]
  BY <1>1, <1>2, <1>3
<1>6. OthersSame(d)
  BY <1>2, <1>3 DEF OthersSame
<1>7. o.op = "mark" /\ o.ent = e
  BY DEF o
<1> QED BY <1>1, <1>3, <1>4, <1>5, <1>6, <1>7

\* PullSound and ExportReceived concern the cycle and the open conflicts only.
LEMMA SameRun ==
  ASSUME NEW d \in Devices, PullSound(d), ExportReceived(d), UNCHANGED serverVars,
         run'[d] = run[d], conflicts'[d] \subseteq conflicts[d]
  PROVE  PullSound(d)' /\ ExportReceived(d)'
BY DEF PullSound, ExportReceived, HasOpenConflict, Received, serverVars

(***************************************************************************)
(* The user's operations.                                                  *)
(***************************************************************************)

\* What a step of a device has to keep.
StepKeeps(d) == DeviceTypeOK' /\ clock' \in Nat /\ OthersSame(d) /\ DeviceInv(d)' /\ Awaits(d)'

\* Creating or saving a row keeps the device's invariant: the edit awaits its
\* mark, and a push that is out does not contain it.
LEMMA SaveKeeps ==
  ASSUME SystemInv, NEW d \in Devices, NEW e \in Entities, NEW v \in Vals, SaveRow(d, e, v),
         e = Row(e[2]) \/ local[d][Row(e[2])] # NoRow, born' \in SUBSET Movies, UNCHANGED serverVars
  PROVE  StepKeeps(d)
<1>1. TypeOK /\ DeviceInv(d) /\ Awaits(d)
  BY SystemByDevice
<1>2. /\ clock' \in Nat /\ OthersSame(d)
      /\ local' \in [Devices -> Tables] /\ ui' \in [Devices -> Operations \cup {NoOp}]
      /\ slipped' \in [Devices -> SUBSET Entities]
      /\ UNCHANGED <<pending, conflicts, lastSync, run>>
      /\ local'[d][e] \in Rows /\ \A f \in Entities \ {e} : local'[d][f] = local[d][f]
      /\ ui[d] = NoOp /\ ui'[d].op = "mark" /\ ui'[d].ent = e
      /\ slipped'[d] = IF WillClear(d, e) THEN slipped[d] \cup {e} ELSE slipped[d]
  BY <1>1, SaveRowFacts
<1>3. DeviceTypeOK'
  BY <1>1, <1>2 DEF TypeOK, DeviceTypeOK
<1>4. HasMovies(local[d])'
  <2>1. local[d] \in Tables /\ local'[d] \in Tables /\ local'[d][e] # NoRow
    BY <1>1, <1>2, DeviceFacts, NoRowFacts
  <2> QED BY <1>1, <1>2, <2>1, WriteKeepsKey DEF DeviceInv, HasMovies
<1>5. EditsKept(d)'
  <2> SUFFICES ASSUME NEW f \in Entities
               PROVE  Received(f, local[d][f])' \/ f \in pending'[d] \cup Unmarked(d)' \cup slipped'[d]
    BY DEF EditsKept
  <2>1. CASE f = e
    BY <1>2, <2>1 DEF Unmarked
  <2>2. CASE f # e
    BY <1>1, <1>2, <2>2 DEF DeviceInv, EditsKept, Unmarked, Received, serverVars, NoOp
  <2> QED BY <2>1, <2>2
<1>6. PullSound(d)' /\ ExportReceived(d)' /\ OneOpen(d)'
  BY <1>1, <1>2, SameRun DEF DeviceInv, OneOpen
<1>7. Awaits(d)'
  BY <1>1, <1>2 DEF Awaits, WillClear, serverVars
<1> QED BY <1>2, <1>3, <1>4, <1>5, <1>6, <1>7 DEF StepKeeps, DeviceInv

\* The mark of an edit keeps it: it takes over from the operation.
LEMMA MarkSavedKeeps ==
  ASSUME SystemInv, NEW d \in Devices, MarkSaved(d), UNCHANGED serverVars
  PROVE  StepKeeps(d)
<1>1. TypeOK /\ DeviceTypeOK /\ DeviceInv(d) /\ Awaits(d)
  BY SystemByDevice DEF TypeOK
<1>2. ui[d].ent \in Entities /\ clock \in Nat
  BY <1>1, DeviceFacts, OperationFacts DEF MarkSaved
<1>3. /\ DeviceTypeOK' /\ clock' \in Nat /\ OthersSame(d)
      /\ UNCHANGED <<local, conflicts, run>>
      /\ pending'[d] = pending[d] \cup {ui[d].ent} /\ ui'[d] = NoOp
      /\ slipped'[d] = IF WillClear(d, ui[d].ent) THEN slipped[d] ELSE slipped[d] \ {ui[d].ent}
  BY <1>1, <1>2, KeyFacts DEF DeviceTypeOK, MarkSaved, NoteMarked, OthersSame
<1>4. EditsKept(d)'
  BY <1>1, <1>3 DEF DeviceInv, EditsKept, Unmarked, Received, serverVars, MarkSaved, NoOp
<1>5. PullSound(d)' /\ ExportReceived(d)' /\ OneOpen(d)' /\ HasMovies(local[d])'
  BY <1>1, <1>3, SameRun DEF DeviceInv, OneOpen, HasMovies
<1>6. Awaits(d)'
  BY <1>1, <1>3 DEF Awaits, WillClear, serverVars
<1> QED BY <1>3, <1>4, <1>5, <1>6 DEF StepKeeps, DeviceInv

\* The mark of a delete keeps what is there.
LEMMA MarkDeleteKeeps ==
  ASSUME SystemInv, NEW d \in Devices, NEW m \in Movies, MarkDelete(d, m), UNCHANGED serverVars
  PROVE  StepKeeps(d)
<1>1. TypeOK /\ DeviceTypeOK /\ DeviceInv(d) /\ Awaits(d)
  BY SystemByDevice DEF TypeOK
<1>2. [op |-> "delete", ent |-> Row(m)] \in Operations /\ clock \in Nat /\ Deletion(m) \in Marks
  BY <1>1, DeviceFacts, KeyFacts DEF Operations
<1>3. /\ DeviceTypeOK' /\ clock' \in Nat /\ OthersSame(d)
      /\ UNCHANGED <<local, conflicts, run, slipped>>
      /\ pending'[d] = pending[d] \cup {Deletion(m)} /\ ui[d] = NoOp /\ ui'[d].op = "delete"
  BY <1>1, <1>2 DEF DeviceTypeOK, MarkDelete, OthersSame
<1>4. EditsKept(d)'
  BY <1>1, <1>3 DEF DeviceInv, EditsKept, Unmarked, Received, serverVars, NoOp
<1>5. PullSound(d)' /\ ExportReceived(d)' /\ OneOpen(d)' /\ HasMovies(local[d])'
  BY <1>1, <1>3, SameRun DEF DeviceInv, OneOpen, HasMovies
<1>6. Awaits(d)'
  BY <1>1, <1>3 DEF Awaits, serverVars
<1> QED BY <1>3, <1>4, <1>5, <1>6 DEF StepKeeps, DeviceInv

\* The delete itself leaves fewer rows to account for.
LEMMA DeleteRowKeeps ==
  ASSUME SystemInv, NEW d \in Devices, DeleteRow(d), UNCHANGED serverVars
  PROVE  StepKeeps(d)
<1> DEFINE m == ui[d].ent[2]
<1>1. TypeOK /\ DeviceTypeOK /\ DeviceInv(d) /\ Awaits(d)
  BY SystemByDevice DEF TypeOK
<1>2. m \in Movies /\ clock \in Nat /\ local[d] \in Tables
  BY <1>1, DeviceFacts, OperationFacts, KeyFacts DEF DeleteRow
<1>3. Cascade(local[d], m) \in Tables
  BY <1>2, CascadeTable
<1>4. /\ DeviceTypeOK' /\ clock' \in Nat /\ OthersSame(d)
      /\ UNCHANGED <<pending, conflicts, run, slipped>>
      /\ local'[d] = Cascade(local[d], m) /\ ui[d].op = "delete" /\ ui'[d] = NoOp
  BY <1>1, <1>2, <1>3 DEF DeviceTypeOK, DeleteRow, OthersSame
<1>5. \A e \in Entities : local'[d][e] \in {local[d][e], NoRow}
  BY <1>2, <1>4, CascadeTable
<1>6. EditsKept(d)'
  <2> SUFFICES ASSUME NEW e \in Entities
               PROVE  Received(e, local[d][e])' \/ e \in pending'[d] \cup Unmarked(d)' \cup slipped'[d]
    BY DEF EditsKept
  <2>1. Received(e, local[d][e]) \/ e \in pending[d] \cup slipped[d]
    BY <1>1, <1>4 DEF DeviceInv, EditsKept, Unmarked
  <2>2. Received(e, NoRow)
    BY NoRowReceived
  <2> QED BY <1>4, <1>5, <2>1, <2>2 DEF Received, serverVars
<1>7. HasMovies(local[d])'
  BY <1>1, <1>2, <1>4, CascadeKeepsKey DEF DeviceInv, HasMovies
<1>8. PullSound(d)' /\ ExportReceived(d)' /\ OneOpen(d)'
  BY <1>1, <1>4, SameRun DEF DeviceInv, OneOpen
<1>9. Awaits(d)'
  BY <1>1, <1>4, <1>5 DEF Awaits, serverVars
<1> QED BY <1>4, <1>6, <1>7, <1>8, <1>9 DEF StepKeeps, DeviceInv

\* A resolution keeps the device's invariant: it writes a row whose movie is
\* there, or none, and the row awaits its mark.
LEMMA ResolveKeeps ==
  ASSUME SystemInv, NEW d \in Devices, NEW c \in conflicts[d], NEW chosen \in {c.local, c.remote},
         ResolveConflict(d, c, chosen), UNCHANGED serverVars
  PROVE  StepKeeps(d)
<1> DEFINE e == c.entity
           r == IF Newer(chosen, local[d][e]) THEN chosen ELSE local[d][e]
           o == [op |-> "resolve", ent |-> c]
<1>1. TypeOK /\ DeviceTypeOK /\ DeviceInv(d) /\ Awaits(d)
  BY SystemByDevice DEF TypeOK
<1>2. c \in Conflicts /\ e \in Entities /\ chosen \in Rows /\ clock \in Nat /\ local[d] \in Tables
  BY <1>1, DeviceFacts DEF Conflicts
<1>3. o \in Operations /\ o.op = "resolve" /\ o.ent = c
  BY <1>2 DEF Operations
<1>4. r \in Rows \cup {NoRow}
  BY <1>2 DEF Tables
<1>5. /\ local' = [local EXCEPT ![d][e] = r] /\ ui' = [ui EXCEPT ![d] = o] /\ ui[d] = NoOp
      /\ slipped' = [slipped EXCEPT ![d] = IF WillClear(d, e) THEN @ \cup {e} ELSE @]
      /\ UNCHANGED <<clock, pending, conflicts, lastSync, run, born>>
  <2>1. local' = [local EXCEPT ![d][e] = IF Newer(chosen, local[d][e]) THEN chosen ELSE local[d][e]]
    BY <1>1, <1>2 DEF ResolveConflict, DeviceTypeOK, Tables
  <2> QED BY <2>1 DEF ResolveConflict, NoteLate
<1> HIDE DEF r, o
<1>6. /\ local' \in [Devices -> Tables] /\ local'[d][e] = r
      /\ \A f \in Entities \ {e} : local'[d][f] = local[d][f]
  BY <1>1, <1>2, <1>4, <1>5 DEF DeviceTypeOK, Tables
<1>7. /\ DeviceTypeOK' /\ clock' \in Nat /\ OthersSame(d) /\ ui'[d] = o
      /\ slipped'[d] = IF WillClear(d, e) THEN slipped[d] \cup {e} ELSE slipped[d]
  BY <1>1, <1>2, <1>3, <1>5, <1>6 DEF DeviceTypeOK, OthersSame
<1>8. HasMovies(local[d])'
  <2>1. CASE Newer(chosen, local[d][e])
    <3>1. r = chosen /\ r # NoRow
      BY <1>2, <2>1, NoRowFacts DEF r
    <3>2. e = Row(e[2]) \/ local[d][Row(e[2])] # NoRow
      BY <1>2, <2>1 DEF ResolveConflict, Entities, Row
    <3>3. local'[d] \in Tables /\ local'[d][e] # NoRow
      BY <1>6, <3>1
    <3> QED BY <1>1, <1>2, <1>6, <3>2, <3>3, WriteKeepsKey DEF DeviceInv, HasMovies
  <2>2. CASE ~Newer(chosen, local[d][e])
    <3>1. \A f \in Entities : local'[d][f] = local[d][f]
      BY <1>6, <2>2 DEF r
    <3> QED BY <1>1, <3>1, KeyFacts DEF DeviceInv, HasMovies
  <2> QED BY <2>1, <2>2
<1>9. EditsKept(d)'
  <2> SUFFICES ASSUME NEW f \in Entities
               PROVE  Received(f, local[d][f])' \/ f \in pending'[d] \cup Unmarked(d)' \cup slipped'[d]
    BY DEF EditsKept
  <2>1. CASE f = e
    BY <1>3, <1>7, <2>1 DEF Unmarked
  <2>2. CASE f # e
    BY <1>1, <1>5, <1>6, <1>7, <2>2 DEF DeviceInv, EditsKept, Unmarked, Received, serverVars, NoOp
  <2> QED BY <2>1, <2>2
<1>10. PullSound(d)' /\ ExportReceived(d)' /\ OneOpen(d)'
  BY <1>1, <1>5, SameRun DEF DeviceInv, OneOpen
<1>11. Awaits(d)'
  BY <1>1, <1>5, <1>6, <1>7 DEF Awaits, WillClear, serverVars
<1> QED BY <1>7, <1>8, <1>9, <1>10, <1>11 DEF StepKeeps, DeviceInv

\* The mark of a resolution takes over from the operation.
LEMMA MarkResolvedKeeps ==
  ASSUME SystemInv, NEW d \in Devices, MarkResolved(d), UNCHANGED serverVars
  PROVE  StepKeeps(d)
<1> DEFINE e == ui[d].ent.entity
<1>1. TypeOK /\ DeviceTypeOK /\ DeviceInv(d) /\ Awaits(d)
  BY SystemByDevice DEF TypeOK
<1>2. ui[d].ent \in Conflicts /\ e \in Entities /\ clock \in Nat /\ e \in Marks
  BY <1>1, DeviceFacts, OperationFacts, KeyFacts DEF MarkResolved, Conflicts
<1>3. ui'[d] \in Operations /\ ui'[d].op = "close" /\ ui' \in [Devices -> Operations \cup {NoOp}]
      /\ \A o \in Devices \ {d} : ui'[o] = ui[o]
  <2>1. ui[d] \in [op : {"resolve", "close"}, ent : Conflicts]
    BY <1>1, DeviceFacts DEF MarkResolved, Operations, NoOp
  <2>2. [ui[d] EXCEPT !.op = "close"] \in Operations /\ [ui[d] EXCEPT !.op = "close"].op = "close"
    BY <2>1 DEF Operations
  <2>3. ui' = [ui EXCEPT ![d] = [ui[d] EXCEPT !.op = "close"]]
    BY <1>1 DEF MarkResolved, DeviceTypeOK
  <2> QED BY <1>1, <2>2, <2>3 DEF DeviceTypeOK
<1>4. /\ DeviceTypeOK' /\ clock' \in Nat /\ OthersSame(d)
      /\ UNCHANGED <<local, conflicts, run>>
      /\ pending'[d] = pending[d] \cup {e}
      /\ slipped'[d] = IF WillClear(d, e) THEN slipped[d] ELSE slipped[d] \ {e}
  BY <1>1, <1>2, <1>3 DEF DeviceTypeOK, MarkResolved, NoteMarked, OthersSame
<1>5. EditsKept(d)'
  BY <1>1, <1>4 DEF DeviceInv, EditsKept, Unmarked, Received, serverVars, MarkResolved
<1>6. PullSound(d)' /\ ExportReceived(d)' /\ OneOpen(d)' /\ HasMovies(local[d])'
  BY <1>1, <1>4, SameRun DEF DeviceInv, OneOpen, HasMovies
<1>7. Awaits(d)'
  BY <1>1, <1>4 DEF Awaits, WillClear, serverVars
<1> QED BY <1>4, <1>5, <1>6, <1>7 DEF StepKeeps, DeviceInv

\* A conflict closed is one fewer to shield.
LEMMA CloseKeeps ==
  ASSUME SystemInv, NEW d \in Devices, CloseConflict(d), UNCHANGED serverVars
  PROVE  StepKeeps(d)
<1>1. TypeOK /\ DeviceTypeOK /\ DeviceInv(d) /\ Awaits(d) /\ clock \in Nat
  BY SystemByDevice, DeviceFacts DEF TypeOK
<1>2. /\ DeviceTypeOK' /\ clock' \in Nat /\ OthersSame(d)
      /\ UNCHANGED <<local, pending, run, slipped>>
      /\ conflicts'[d] \subseteq conflicts[d] /\ ui[d].op = "close"
  BY <1>1 DEF DeviceTypeOK, CloseConflict, OthersSame
<1>3. EditsKept(d)'
  BY <1>1, <1>2 DEF DeviceInv, EditsKept, Unmarked, Received, serverVars
<1>4. PullSound(d)' /\ ExportReceived(d)' /\ OneOpen(d)' /\ HasMovies(local[d])'
  BY <1>1, <1>2, SameRun DEF DeviceInv, OneOpen, HasMovies
<1>5. Awaits(d)'
  BY <1>1, <1>2 DEF Awaits, serverVars
<1> QED BY <1>2, <1>3, <1>4, <1>5 DEF StepKeeps, DeviceInv

(***************************************************************************)
(* The cycle: pull.                                                        *)
(***************************************************************************)

\* What the fields of a cycle are.
LEMMA RunFacts ==
  ASSUME TypeOK, NEW d \in Devices
  PROVE  /\ run \in [Devices -> Runs] /\ run[d].snap \in Tables /\ run[d].clear \subseteq Marks
         /\ run[d].cur \in Entities \cup {None} /\ run[d].seen \in Rows \cup {NoRow}
         /\ \A e \in Entities : run[d].snap[e] \in Rows \cup {NoRow} /\ local[d][e] \in Rows \cup {NoRow}
BY DeviceFacts DEF TypeOK, DeviceTypeOK, Runs, Tables

\* A cycle that is idle.
LEMMA IdleRunFacts ==
  /\ IdleRun \in Runs /\ IdleRun.pc = "idle" /\ IdleRun.cur = None /\ IdleRun.step = "none"
  /\ \A e \in Entities : IdleRun.snap[e] = NoRow
BY EmptyFacts DEF IdleRun, Runs

\* A step that changes the cycle alone keeps the invariant if the cycle is sound.
LEMMA RunOnly ==
  ASSUME SystemInv, NEW d \in Devices,
         UNCHANGED <<clock, serverVars, local, pending, conflicts, ui, born, slipped>>,
         run' \in [Devices -> Runs], \A o \in Devices \ {d} : run'[o] = run[o],
         lastSync' \in [Devices -> Nat], \A o \in Devices \ {d} : lastSync'[o] = lastSync[o],
         run'[d].pc # "wait", PullSound(d)', ExportReceived(d)'
  PROVE  StepKeeps(d)
<1>1. TypeOK /\ DeviceTypeOK /\ DeviceInv(d) /\ clock \in Nat
  BY SystemByDevice DEF TypeOK
<1>2. DeviceTypeOK' /\ clock' \in Nat /\ OthersSame(d)
  BY <1>1 DEF DeviceTypeOK, OthersSame
<1>3. EditsKept(d)' /\ OneOpen(d)' /\ HasMovies(local[d])'
  BY <1>1 DEF DeviceInv, EditsKept, OneOpen, HasMovies, Unmarked, Received, serverVars
<1> QED BY <1>2, <1>3 DEF StepKeeps, DeviceInv, Awaits

\* A row of the export that is dealt with leaves a cycle between two rows.
LEMMA AppliedFacts ==
  ASSUME TypeOK, NEW d \in Devices, NEW e \in Entities, run' = Applied(d, e)
  PROVE  /\ run' \in [Devices -> Runs] /\ \A o \in Devices \ {d} : run'[o] = run[o]
         /\ run'[d].pc = run[d].pc /\ run'[d].cur = None /\ run'[d].step = "none"
         /\ \A f \in Entities : run'[d].snap[f] \in {run[d].snap[f], NoRow}
<1>1. run \in [Devices -> Runs] /\ run[d] \in Runs /\ run[d].snap \in Tables
  BY RunFacts
<1>2. [run[d].snap EXCEPT ![e] = NoRow] \in Tables
  BY <1>1 DEF Tables
<1>3. run'[d] = [run[d] EXCEPT !.snap = [run[d].snap EXCEPT ![e] = NoRow], !.cur = None,
                               !.step = "none", !.seen = NoRow]
  BY <1>1 DEF Applied, Runs
<1>4. run'[d] \in Runs
  BY <1>1, <1>2, <1>3 DEF Runs
<1>5. run' \in [Devices -> Runs] /\ \A o \in Devices \ {d} : run'[o] = run[o]
  BY <1>1, <1>4 DEF Applied
<1>6. /\ run'[d].pc = run[d].pc /\ run'[d].cur = None /\ run'[d].step = "none"
      /\ run'[d].snap = [run[d].snap EXCEPT ![e] = NoRow]
  BY <1>1, <1>3 DEF Runs
<1> QED BY <1>1, <1>5, <1>6 DEF Tables

\* ExportReceived concerns the rows of the export only.
LEMMA SameExport ==
  ASSUME NEW d \in Devices, ExportReceived(d), UNCHANGED serverVars, run'[d].snap = run[d].snap
  PROVE  ExportReceived(d)'
BY DEF ExportReceived, Received, serverVars

\* Between two rows a cycle is sound.
LEMMA AppliedSound ==
  ASSUME TypeOK, NEW d \in Devices, NEW e \in Entities, ExportReceived(d), run' = Applied(d, e),
         UNCHANGED serverVars
  PROVE  PullSound(d)' /\ ExportReceived(d)'
<1>1. PullSound(d)'
  BY AppliedFacts DEF PullSound
<1>2. ExportReceived(d)'
  BY AppliedFacts, NoRowReceived DEF ExportReceived, Received, serverVars
<1> QED BY <1>1, <1>2

\* Skipping a row or turning to it keeps the device's invariant.
LEMMA PullCheckKeeps ==
  ASSUME SystemInv, NEW d \in Devices, PullCheck(d), UNCHANGED serverVars
  PROVE  StepKeeps(d)
<1>1. TypeOK /\ DeviceTypeOK /\ DeviceInv(d)
  BY SystemByDevice DEF TypeOK
<1>2. PICK e \in Front(ToApply(d)) :
        run' = IF Deletion(e[2]) \in pending[d] THEN Applied(d, e)
               ELSE [run EXCEPT ![d].cur = e, ![d].step = "read"]
  BY DEF PullCheck
<1>3. e \in Entities /\ run[d].snap[e] # NoRow /\ run[d].pc = "pull"
  BY DEF Front, ToApply, PullCheck, Pulling
<1>4. CASE Deletion(e[2]) \in pending[d]
  <2>1. run' = Applied(d, e)
    BY <1>2, <1>4
  <2> QED BY <1>1, <1>3, <2>1, AppliedFacts, AppliedSound, RunOnly DEF PullCheck, DeviceInv, DeviceTypeOK
<1>5. CASE Deletion(e[2]) \notin pending[d]
  <2>1. run' = [run EXCEPT ![d].cur = e, ![d].step = "read"]
    BY <1>2, <1>5
  <2>2. /\ run' \in [Devices -> Runs] /\ \A o \in Devices \ {d} : run'[o] = run[o]
        /\ run'[d].pc = "pull" /\ run'[d].cur = e /\ run'[d].step = "read" /\ run'[d].snap = run[d].snap
    BY <1>1, <1>3, <2>1, RunFacts DEF Runs
  <2>3. PullSound(d)'
    BY <1>3, <2>2, KeyFacts DEF PullSound
  <2>4. ExportReceived(d)'
    BY <1>1, <2>2, SameExport DEF DeviceInv
  <2> QED BY <1>1, <2>2, <2>3, <2>4, RunOnly DEF PullCheck, DeviceTypeOK
<1> QED BY <1>4, <1>5

\* The first look at the local row: a row with an open conflict is left alone.
LEMMA PullReadKeeps ==
  ASSUME SystemInv, NEW d \in Devices, PullRead(d), UNCHANGED serverVars
  PROVE  StepKeeps(d)
<1> DEFINE e == run[d].cur
<1>1. TypeOK /\ DeviceTypeOK /\ DeviceInv(d)
  BY SystemByDevice DEF TypeOK
<1>2. e \in Entities /\ run[d].snap[e] # NoRow /\ run[d].pc = "pull" /\ local[d][e] \in Rows \cup {NoRow}
  BY <1>1, RunFacts DEF DeviceInv, PullSound, PullRead, Pulling
<1>3. CASE HasOpenConflict(d, e)
  <2>1. run' = Applied(d, e)
    BY <1>3 DEF PullRead
  <2> QED BY <1>1, <1>2, <2>1, AppliedFacts, AppliedSound, RunOnly DEF PullRead, DeviceInv, DeviceTypeOK
<1>4. CASE ~HasOpenConflict(d, e)
  <2>1. \/ run' = [run EXCEPT ![d].step = "judge", ![d].seen = local[d][e]] /\ local[d][e] # NoRow
        \/ run' = [run EXCEPT ![d].step = "compare"]
    BY <1>4 DEF PullRead, Clash
  <2>2. /\ run' \in [Devices -> Runs] /\ \A o \in Devices \ {d} : run'[o] = run[o]
        /\ run'[d].pc = "pull" /\ run'[d].cur = e /\ run'[d].snap = run[d].snap
        /\ \/ run'[d].step = "judge" /\ run'[d].seen # NoRow
           \/ run'[d].step = "compare"
    BY <1>1, <1>2, <2>1, RunFacts DEF Runs
  <2>3. PullSound(d)'
    BY <1>2, <1>4, <2>2, KeyFacts DEF PullSound, HasOpenConflict, PullRead
  <2>4. ExportReceived(d)'
    BY <1>1, <2>2, SameExport DEF DeviceInv
  <2> QED BY <1>1, <2>2, <2>3, <2>4, RunOnly DEF PullRead, DeviceTypeOK
<1> QED BY <1>3, <1>4

\* The question whether a conflict is to be recorded changes the step only.
LEMMA JudgeKeeps ==
  ASSUME SystemInv, NEW d \in Devices, NEW record, Judge(d, record), UNCHANGED serverVars
  PROVE  StepKeeps(d)
<1>1. TypeOK /\ DeviceTypeOK /\ DeviceInv(d)
  BY SystemByDevice DEF TypeOK
<1>2. /\ run[d].pc = "pull" /\ run[d].step = "judge" /\ run[d].cur # None /\ run[d].seen # NoRow
      /\ run[d].snap[run[d].cur] # NoRow /\ ~HasOpenConflict(d, run[d].cur)
  BY <1>1 DEF DeviceInv, PullSound, Judge, Pulling
<1>3. \/ run' = [run EXCEPT ![d].step = "record"]
      \/ run' = [run EXCEPT ![d].step = "compare", ![d].seen = NoRow]
  BY DEF Judge
<1>4. /\ run' \in [Devices -> Runs] /\ \A o \in Devices \ {d} : run'[o] = run[o]
      /\ run'[d].pc = "pull" /\ run'[d].cur = run[d].cur /\ run'[d].snap = run[d].snap
      /\ \/ run'[d].step = "record" /\ run'[d].seen = run[d].seen
         \/ run'[d].step = "compare"
  BY <1>1, <1>2, <1>3, RunFacts DEF Runs
<1>5. PullSound(d)'
  BY <1>2, <1>4 DEF PullSound, HasOpenConflict, Judge
<1>6. ExportReceived(d)'
  BY <1>1, <1>4, SameExport DEF DeviceInv
<1> QED BY <1>1, <1>4, <1>5, <1>6, RunOnly DEF Judge, DeviceTypeOK

\* The comparison keeps the invariant: the write that follows is of a newer row.
LEMMA PullCompareKeeps ==
  ASSUME SystemInv, NEW d \in Devices, PullCompare(d), UNCHANGED serverVars
  PROVE  StepKeeps(d)
<1> DEFINE e == run[d].cur
<1>1. TypeOK /\ DeviceTypeOK /\ DeviceInv(d)
  BY SystemByDevice DEF TypeOK
<1>2. /\ run[d].pc = "pull" /\ e # None /\ run[d].snap[e] # NoRow /\ ~HasOpenConflict(d, e)
      /\ e \in Entities /\ local[d][e] \in Rows \cup {NoRow}
  BY <1>1, RunFacts DEF DeviceInv, PullSound, PullCompare, Pulling
<1>3. CASE Newer(run[d].snap[e], local[d][e])
  <2>1. run' = [run EXCEPT ![d].step = "write", ![d].seen = local[d][e]]
    BY <1>3 DEF PullCompare
  <2>2. /\ run' \in [Devices -> Runs] /\ \A o \in Devices \ {d} : run'[o] = run[o]
        /\ run'[d].pc = "pull" /\ run'[d].cur = e /\ run'[d].snap = run[d].snap
        /\ run'[d].step = "write" /\ run'[d].seen = local[d][e]
    BY <1>1, <1>2, <2>1, RunFacts DEF Runs
  <2>3. PullSound(d)'
    BY <1>2, <1>3, <2>2 DEF PullSound, HasOpenConflict, PullCompare, Newer
  <2>4. ExportReceived(d)'
    BY <1>1, <2>2, SameExport DEF DeviceInv
  <2> QED BY <1>1, <2>2, <2>3, <2>4, RunOnly DEF PullCompare, DeviceTypeOK
<1>4. CASE ~Newer(run[d].snap[e], local[d][e])
  <2>1. run' = Applied(d, e)
    BY <1>4 DEF PullCompare
  <2> QED BY <1>1, <1>2, <2>1, AppliedFacts, AppliedSound, RunOnly DEF PullCompare, DeviceInv, DeviceTypeOK
<1> QED BY <1>3, <1>4

\* The cycle ends, well or not.
LEMMA IdleKeeps ==
  ASSUME SystemInv, NEW d \in Devices, run' = [run EXCEPT ![d] = IdleRun], UNCHANGED serverVars,
         UNCHANGED <<clock, local, pending, conflicts, ui, born, slipped>>,
         lastSync' \in [Devices -> Nat], \A o \in Devices \ {d} : lastSync'[o] = lastSync[o]
  PROVE  StepKeeps(d)
<1>1. TypeOK /\ DeviceTypeOK
  BY SystemByDevice DEF TypeOK
<1>2. run' \in [Devices -> Runs] /\ run'[d] = IdleRun /\ \A o \in Devices \ {d} : run'[o] = run[o]
  BY <1>1, IdleRunFacts DEF DeviceTypeOK
<1>3. PullSound(d)' /\ ExportReceived(d)'
  BY <1>2, IdleRunFacts, NoRowReceived DEF PullSound, ExportReceived, Received, serverVars
<1> QED BY <1>2, <1>3, IdleRunFacts, RunOnly

\* The end of a cycle, with last_sync_at or with an error.
LEMMA EndKeeps ==
  ASSUME SystemInv, NEW d \in Devices, FinishRun(d) \/ RunFails(d), UNCHANGED serverVars
  PROVE  StepKeeps(d)
<1>1. TypeOK /\ DeviceTypeOK /\ Now(d) \in Nat
  BY SystemByDevice, DeviceFacts DEF TypeOK
<1>2. CASE FinishRun(d)
  <2>1. lastSync' = [lastSync EXCEPT ![d] = Now(d)]
    BY <1>2 DEF FinishRun
  <2>2. lastSync' \in [Devices -> Nat] /\ \A o \in Devices \ {d} : lastSync'[o] = lastSync[o]
    BY <1>1, <2>1 DEF DeviceTypeOK
  <2> QED BY <1>2, <2>2, IdleKeeps DEF FinishRun
<1>3. CASE RunFails(d)
  BY <1>1, <1>3, IdleKeeps DEF RunFails, DeviceTypeOK
<1> QED BY <1>2, <1>3

\* The write of a pull keeps the device's invariant: the row was the server's,
\* and the foreign key holds when the write succeeds.
LEMMA PullWriteKeeps ==
  ASSUME SystemInv, NEW d \in Devices, PullWrite(d), UNCHANGED serverVars
  PROVE  StepKeeps(d)
<1> DEFINE e == run[d].cur
           r == run[d].snap[e]
<1>1. TypeOK /\ DeviceTypeOK /\ DeviceInv(d) /\ clock \in Nat
  BY SystemByDevice, DeviceFacts DEF TypeOK
<1>2. /\ run[d].pc = "pull" /\ e \in Entities /\ r \in Rows /\ r # NoRow /\ local[d] \in Tables
  BY <1>1, RunFacts, DeviceFacts, NoRowFacts DEF DeviceInv, PullSound, PullWrite, Pulling
<1>3. CASE WriteFails(local[d], e, run[d].seen)
  BY <1>1, <1>3, IdleKeeps DEF PullWrite, DeviceTypeOK
<1>4. CASE ~WriteFails(local[d], e, run[d].seen)
  <2>1. run' = Applied(d, e) /\ local' = [local EXCEPT ![d][e] = r]
    BY <1>4 DEF PullWrite
  <2>2. UNCHANGED <<clock, pending, conflicts, lastSync, ui, born, slipped>>
    BY DEF PullWrite
  <2> HIDE DEF r
  <2>3. /\ local' \in [Devices -> Tables] /\ local'[d][e] = r
        /\ \A f \in Entities \ {e} : local'[d][f] = local[d][f]
    BY <1>1, <1>2, <2>1 DEF DeviceTypeOK, Tables
  <2>4. DeviceTypeOK' /\ clock' \in Nat /\ OthersSame(d)
    BY <1>1, <1>2, <2>1, <2>2, <2>3, AppliedFacts DEF DeviceTypeOK, OthersSame
  <2>5. HasMovies(local[d])'
    <3>1. e = Row(e[2]) \/ local[d][Row(e[2])] # NoRow
      BY <1>2, <1>4 DEF WriteFails, Entities, RowKinds, Row
    <3>2. local'[d] \in Tables
      BY <2>3
    <3> QED BY <1>1, <1>2, <2>3, <3>1, <3>2, WriteKeepsKey DEF DeviceInv, HasMovies
  <2>6. EditsKept(d)'
    <3> SUFFICES ASSUME NEW f \in Entities
                 PROVE  Received(f, local[d][f])' \/ f \in pending'[d] \cup Unmarked(d)' \cup slipped'[d]
      BY DEF EditsKept
    <3>1. CASE f = e
      BY <1>1, <1>2, <2>3, <3>1 DEF DeviceInv, ExportReceived, Received, serverVars, r
    <3>2. CASE f # e
      BY <1>1, <2>2, <2>3, <3>2 DEF DeviceInv, EditsKept, Unmarked, Received, serverVars
    <3> QED BY <3>1, <3>2
  <2>7. PullSound(d)' /\ ExportReceived(d)' /\ OneOpen(d)'
    BY <1>1, <1>2, <2>1, <2>2, AppliedSound DEF DeviceInv, OneOpen
  <2>8. Awaits(d)'
    BY <1>1, <1>2, <2>1, AppliedFacts DEF Awaits
  <2> QED BY <2>4, <2>5, <2>6, <2>7, <2>8 DEF StepKeeps, DeviceInv
<1> QED BY <1>3, <1>4

\* Recording a conflict keeps the device's invariant: no other one is open on
\* the row.
LEMMA PullRecordKeeps ==
  ASSUME SystemInv, NEW d \in Devices, PullRecord(d), UNCHANGED serverVars
  PROVE  StepKeeps(d)
<1> DEFINE e == run[d].cur
           c == [entity |-> e, local |-> run[d].seen, remote |-> run[d].snap[e],
                 twin |-> \E b \in conflicts[d] : b.entity = e]
<1>1. TypeOK /\ DeviceTypeOK /\ DeviceInv(d) /\ clock \in Nat
  BY SystemByDevice, DeviceFacts DEF TypeOK
<1>2. /\ run[d].pc = "pull" /\ e \in Entities /\ run[d].snap[e] \in Rows /\ run[d].seen \in Rows
      /\ \A b \in conflicts[d] : b.entity # e
  BY <1>1, RunFacts DEF DeviceInv, PullSound, PullRecord, Pulling, HasOpenConflict
<1>3. c \in Conflicts /\ c.entity = e
  BY <1>2 DEF Conflicts
<1>4. /\ conflicts' = [conflicts EXCEPT ![d] = @ \cup {c}] /\ run' = Applied(d, e)
      /\ UNCHANGED <<clock, local, pending, lastSync, ui, born, slipped>>
  BY DEF PullRecord
<1> HIDE DEF c
<1>5. DeviceTypeOK' /\ clock' \in Nat /\ OthersSame(d) /\ conflicts'[d] = conflicts[d] \cup {c}
  BY <1>1, <1>2, <1>3, <1>4, AppliedFacts DEF DeviceTypeOK, OthersSame
<1>6. OneOpen(d)'
  BY <1>1, <1>2, <1>3, <1>5 DEF DeviceInv, OneOpen
<1>7. EditsKept(d)' /\ HasMovies(local[d])'
  BY <1>1, <1>4 DEF DeviceInv, EditsKept, HasMovies, Unmarked, Received, serverVars
<1>8. PullSound(d)' /\ ExportReceived(d)'
  BY <1>1, <1>2, <1>4, AppliedSound DEF DeviceInv
<1>9. Awaits(d)'
  BY <1>1, <1>2, <1>4, AppliedFacts DEF Awaits
<1> QED BY <1>5, <1>6, <1>7, <1>8, <1>9 DEF StepKeeps, DeviceInv

\* What one SELECT of the export adds: rows of the server, for rows not there.
LEMMA ExportTable ==
  ASSUME TypeOK, NEW d \in Devices, PullMovies(d) \/ PullEntries(d)
  PROVE  \E pc \in {"listed", "pull"}, table \in Tables :
           /\ run' = [run EXCEPT ![d].pc = pc, ![d].snap = table]
           /\ \A e \in Entities : table[e] \in {server[e], run[d].snap[e], NoRow}
<1>1. DeviceTypeOK /\ server \in Tables
  BY DEF TypeOK, ServerTypeOK
<1>2. CASE PullMovies(d)
  <2> DEFINE t == [e \in Entities |-> IF e[1] = "movie" THEN server[e] ELSE NoRow]
  <2>1. t \in Tables /\ \A e \in Entities : t[e] \in {server[e], NoRow}
    BY <1>1 DEF Tables
  <2>2. run' = [run EXCEPT ![d].pc = "listed", ![d].snap = t]
    BY <1>2 DEF PullMovies, ReceiveMovies
  <2> QED BY <2>1, <2>2
<1>3. CASE PullEntries(d)
  <2> DEFINE old == run[d].snap
             t == [e \in Entities |->
                     IF e[1] = "watch_entry" /\ old[Row(e[2])] # NoRow THEN server[e] ELSE old[e]]
  <2>1. old \in Tables
    BY RunFacts
  <2>2. t \in Tables /\ \A e \in Entities : t[e] \in {server[e], old[e]}
    BY <1>1, <2>1 DEF Tables
  <2>3. run' = [run EXCEPT ![d].pc = "pull", ![d].snap = t]
    BY <1>1, <1>3 DEF PullEntries, ReceiveEntries, DeviceTypeOK, Runs
  <2> QED BY <2>2, <2>3
<1> QED BY <1>2, <1>3

\* The rows that an export reads are rows the server has, and nothing is being
\* applied yet.
LEMMA ExportKeeps ==
  ASSUME SystemInv, NEW d \in Devices, PullMovies(d) \/ PullEntries(d)
  PROVE  StepKeeps(d)
<1>1. TypeOK /\ DeviceTypeOK /\ DeviceInv(d) /\ RowsReceived /\ server \in Tables
  BY SystemByDevice DEF TypeOK, ServerInv, ServerTypeOK
<1>2. UNCHANGED serverVars /\ UNCHANGED <<clock, local, pending, conflicts, lastSync, ui, born, slipped>>
  BY DEF PullMovies, PullEntries, ReceiveMovies, ReceiveEntries
<1>3. run[d].cur = None /\ run[d].step = "none"
  BY <1>1 DEF DeviceInv, PullSound, PullMovies, PullEntries, ReceiveMovies, ReceiveEntries
<1>4. PICK pc \in {"listed", "pull"}, table \in Tables :
        /\ run' = [run EXCEPT ![d].pc = pc, ![d].snap = table]
        /\ \A e \in Entities : table[e] \in {server[e], run[d].snap[e], NoRow}
  BY <1>1, ExportTable
<1>5. /\ run' \in [Devices -> Runs] /\ \A o \in Devices \ {d} : run'[o] = run[o]
      /\ run'[d].pc = pc /\ run'[d].snap = table /\ run'[d].cur = None /\ run'[d].step = "none"
  <2>1. run' = [run EXCEPT ![d].pc = pc, ![d].snap = table]
    BY <1>4
  <2>2. run \in [Devices -> Runs] /\ run[d] \in Runs
    BY <1>1, RunFacts
  <2> QED BY <1>3, <2>1, <2>2 DEF Runs
<1>6. PullSound(d)'
  BY <1>5 DEF PullSound
<1>7. ExportReceived(d)'
  <2>1. \A e \in Entities : Received(e, table[e])
    BY <1>1, <1>4, NoRowReceived DEF RowsReceived, DeviceInv, ExportReceived
  <2> QED BY <1>2, <1>5, <2>1 DEF ExportReceived, Received, serverVars
<1> QED BY <1>1, <1>2, <1>5, <1>6, <1>7, RunOnly DEF DeviceTypeOK

\* A crash ends the cycle and the operation; the history notes the edit that
\* had not got its mark.
LEMMA CrashKeeps ==
  ASSUME SystemInv, NEW d \in Devices, Crash(d), UNCHANGED serverVars
  PROVE  StepKeeps(d)
<1>1. TypeOK /\ DeviceTypeOK /\ DeviceInv(d) /\ clock \in Nat
  BY SystemByDevice, DeviceFacts DEF TypeOK
<1>2. Unmarked(d) \subseteq Entities
  BY DEF Unmarked
<1>3. /\ DeviceTypeOK' /\ clock' \in Nat /\ OthersSame(d)
      /\ UNCHANGED <<local, pending, conflicts>>
      /\ run'[d] = IdleRun /\ slipped'[d] = slipped[d] \cup Unmarked(d)
  BY <1>1, <1>2, IdleRunFacts DEF DeviceTypeOK, Crash, OthersSame
<1>4. EditsKept(d)'
  BY <1>1, <1>3 DEF DeviceInv, EditsKept, Received, serverVars
<1>5. PullSound(d)' /\ ExportReceived(d)' /\ Awaits(d)'
  BY <1>3, IdleRunFacts, NoRowReceived DEF PullSound, ExportReceived, Received, serverVars, Awaits
<1>6. OneOpen(d)' /\ HasMovies(local[d])'
  BY <1>1, <1>3 DEF DeviceInv, OneOpen, HasMovies
<1> QED BY <1>3, <1>4, <1>5, <1>6 DEF StepKeeps, DeviceInv

(***************************************************************************)
(* The cycle: push.                                                        *)
(***************************************************************************)

\* What a device pushes is a payload.
LEMMA PushedPayload ==
  ASSUME TypeOK, NEW d \in Devices
  PROVE  /\ PushPayload(d) \in Payloads
         /\ \A e \in Entities : e \in pending[d] => PushPayload(d).rows[e] = local[d][e]
BY DeviceFacts DEF PushPayload, Payloads, Tables

\* A push begins: what has a mark is in it, and its request is no other device's.
LEMMA RequestPushKeeps ==
  ASSUME SystemInv, NEW d \in Devices, NEW q \in Requests, RequestPush(d, q)
  PROVE  StepKeeps(d) /\ ServerInv'
<1> DEFINE p == PushPayload(d)
<1>1. TypeOK /\ DeviceTypeOK /\ DeviceInv(d) /\ clock \in Nat /\ ServerInv
  BY SystemByDevice, DeviceFacts DEF TypeOK
<1>2. ServerInv'
  BY <1>1, PushedPayload, KeepsArrive DEF RequestPush
<1>3. /\ run[d].pc = "idle"
      /\ run' = [run EXCEPT ![d].pc = "wait", ![d].req = q, ![d].clear = Clearable(d)]
      /\ slipped' = [slipped EXCEPT ![d] = @ \ pending[d]]
      /\ UNCHANGED <<clock, local, pending, conflicts, lastSync, ui, born>>
      /\ imp[q].pc = "idle" /\ UNCHANGED <<server, held>>
  BY DEF RequestPush, StartPush, Arrive
<1>4. /\ imp'[q].pc = "run" /\ imp'[q].payload = p
  BY <1>1 DEF RequestPush, Arrive, ServerInv, ServerTypeOK, Handlers, IdleHandler
<1>5. Clearable(d) \subseteq pending[d] /\ Clearable(d) \subseteq Marks
  BY <1>1, DeviceFacts DEF Clearable
<1>6. /\ run' \in [Devices -> Runs] /\ \A o \in Devices \ {d} : run'[o] = run[o]
      /\ run'[d].pc = "wait" /\ run'[d].req = q /\ run'[d].clear = Clearable(d)
      /\ run'[d].snap = run[d].snap /\ run'[d].cur = run[d].cur /\ run'[d].step = run[d].step
      /\ run'[d].seen = run[d].seen
  BY <1>1, <1>3, <1>5 DEF DeviceTypeOK, Runs
<1>7. DeviceTypeOK' /\ clock' \in Nat /\ OthersSame(d) /\ slipped'[d] = slipped[d] \ pending[d]
  BY <1>1, <1>3, <1>6 DEF DeviceTypeOK, OthersSame
<1>8. EditsKept(d)' /\ OneOpen(d)' /\ HasMovies(local[d])'
  BY <1>1, <1>3, <1>7 DEF DeviceInv, EditsKept, OneOpen, HasMovies, Unmarked, Received
<1>9. PullSound(d)' /\ ExportReceived(d)'
  BY <1>1, <1>3, <1>6 DEF DeviceInv, PullSound, ExportReceived, Received, HasOpenConflict
<1>10. Awaits(d)'
  <2>1. \A o \in Devices \ {d} : run[o].pc = "wait" => run[o].req # q
    BY <1>3, SystemByDevice DEF Awaits
  <2>2. \A e \in Entities : e \in Clearable(d) => local[d][e] = p.rows[e]
    BY <1>1, <1>5, PushedPayload
  <2> QED BY <1>3, <1>4, <1>6, <2>1, <2>2 DEF Awaits
<1> QED BY <1>2, <1>7, <1>8, <1>9, <1>10 DEF StepKeeps, DeviceInv

\* An acknowledgement clears the marks of what was received: of each mark it
\* clears the server received the row, or the history notes that it did not.
LEMMA ReceiveAckKeeps ==
  ASSUME SystemInv, NEW d \in Devices, ReceiveAck(d)
  PROVE  StepKeeps(d) /\ ServerInv'
<1> DEFINE q == run[d].req
           p == imp[q].payload
<1>1. TypeOK /\ DeviceTypeOK /\ DeviceInv(d) /\ clock \in Nat /\ ServerInv /\ Awaits(d)
  BY SystemByDevice, DeviceFacts DEF TypeOK
<1>2. run[d].pc = "wait" /\ q \in Requests /\ Done(q) /\ Release(q)
  BY <1>1 DEF ReceiveAck, Awaits
<1>3. ServerInv'
  BY <1>1, <1>2, KeepsRelease
<1>4. PICK cleared \in SUBSET run[d].clear : ClearPushed(d, p, cleared)
  <2>1. \E cleared \in IF "error" \in Faults THEN SUBSET run[d].clear ELSE {run[d].clear} :
          ClearPushed(d, p, cleared)
    BY DEF ReceiveAck
  <2> QED BY <2>1
<1> DEFINE missed == {Entry(m) : m \in {n \in Movies : Entry(n) \in cleared /\ p.rows[Row(n)] = NoRow}}
<1>5. missed \subseteq Entities
  BY KeyFacts
<1>6. /\ pending' = [pending EXCEPT ![d] = @ \ cleared]
      /\ slipped' = [slipped EXCEPT ![d] = @ \cup missed]
      /\ run' = [run EXCEPT ![d] = [IdleRun EXCEPT !.pc = "export"]]
      /\ UNCHANGED <<clock, local, conflicts, lastSync, ui, born>>
  BY <1>4 DEF ClearPushed
<1>7. /\ [IdleRun EXCEPT !.pc = "export"] \in Runs
      /\ [IdleRun EXCEPT !.pc = "export"].pc = "export"
      /\ [IdleRun EXCEPT !.pc = "export"].cur = None
      /\ [IdleRun EXCEPT !.pc = "export"].step = "none"
      /\ [IdleRun EXCEPT !.pc = "export"].snap = IdleRun.snap
  BY EmptyFacts DEF IdleRun, Runs
<1> HIDE DEF missed
<1>8. /\ DeviceTypeOK' /\ clock' \in Nat /\ OthersSame(d) /\ UNCHANGED <<local, conflicts, ui, held>>
      /\ pending'[d] = pending[d] \ cleared /\ slipped'[d] = slipped[d] \cup missed
      /\ run'[d] = [IdleRun EXCEPT !.pc = "export"]
  BY <1>1, <1>2, <1>5, <1>6, <1>7 DEF DeviceTypeOK, OthersSame, Release
<1>9. ASSUME NEW e \in Entities, e \in cleared, e \notin slipped[d], e \notin missed
      PROVE  Received(e, local[d][e])
  <2>1. local[d][e] \in {p.rows[e], NoRow}
    BY <1>1, <1>2, <1>4, <1>9 DEF Awaits
  <2>2. p.rows[Row(e[2])] # NoRow => Received(e, p.rows[e])
    BY <1>1, <1>2, InvImpliesReceived DEF DoneMeansReceived
  <2>3. p.rows[Row(e[2])] = NoRow => p.rows[e] = NoRow
    BY <1>9, KeyFacts DEF missed
  <2> QED BY <2>1, <2>2, <2>3, NoRowReceived
<1>10. EditsKept(d)'
  BY <1>1, <1>8, <1>9 DEF DeviceInv, EditsKept, Unmarked, Received
<1>11. OneOpen(d)' /\ HasMovies(local[d])'
  BY <1>1, <1>8 DEF DeviceInv, OneOpen, HasMovies
<1>12. PullSound(d)' /\ ExportReceived(d)' /\ Awaits(d)'
  BY <1>7, <1>8, IdleRunFacts, NoRowReceived DEF PullSound, ExportReceived, Received, Awaits
<1> QED BY <1>3, <1>8, <1>10, <1>11, <1>12 DEF StepKeeps, DeviceInv

\* An error ends the cycle and clears nothing.
LEMMA ReceiveErrorKeeps ==
  ASSUME SystemInv, NEW d \in Devices, ReceiveError(d)
  PROVE  StepKeeps(d) /\ ServerInv'
<1>1. TypeOK /\ DeviceTypeOK /\ DeviceInv(d) /\ clock \in Nat /\ ServerInv /\ Awaits(d)
  BY SystemByDevice, DeviceFacts DEF TypeOK
<1>2. run[d].req \in Requests /\ Release(run[d].req) /\ RunFails(d)
  BY <1>1 DEF ReceiveError, Awaits
<1>3. ServerInv'
  BY <1>1, <1>2, KeepsRelease
<1>4. /\ run' = [run EXCEPT ![d] = IdleRun] /\ UNCHANGED held
      /\ UNCHANGED <<clock, local, pending, conflicts, lastSync, ui, born, slipped>>
  BY <1>2 DEF RunFails, Release
<1>5. DeviceTypeOK' /\ clock' \in Nat /\ OthersSame(d) /\ run'[d] = IdleRun
  BY <1>1, <1>4, IdleRunFacts DEF DeviceTypeOK, OthersSame
<1>6. EditsKept(d)' /\ OneOpen(d)' /\ HasMovies(local[d])'
  BY <1>1, <1>4 DEF DeviceInv, EditsKept, OneOpen, HasMovies, Unmarked, Received
<1>7. PullSound(d)' /\ ExportReceived(d)' /\ Awaits(d)'
  BY <1>4, <1>5, IdleRunFacts, NoRowReceived DEF PullSound, ExportReceived, Received, Awaits
<1> QED BY <1>3, <1>5, <1>6, <1>7 DEF StepKeeps, DeviceInv

(***************************************************************************)
(* All devices and the server.                                             *)
(***************************************************************************)

\* The requests for which devices other than d wait go on as they are.
OthersAwait(d) ==
  \A o \in Devices \ {d} : run[o].pc = "wait" =>
    imp'[run[o].req].pc # "idle" /\ imp'[run[o].req].payload = imp[run[o].req].payload

\* A step of one device that keeps its own invariant keeps the system's.
LEMMA DeviceStepKeeps ==
  ASSUME SystemInv, NEW d \in Devices, StepKeeps(d), ServerInv',
         \A e \in Entities : held[e] \subseteq held'[e], OthersAwait(d)
  PROVE  SystemInv'
<1>1. TypeOK' /\ ServerInv' /\ DeviceInv(d)' /\ Awaits(d)'
  BY DEF StepKeeps, TypeOK, ServerInv
<1>2. ASSUME NEW o \in Devices \ {d} PROVE DeviceInv(o)' /\ Awaits(o)'
  <2>1. DeviceInv(o) /\ Awaits(o)
    BY SystemByDevice
  <2>2. /\ local'[o] = local[o] /\ pending'[o] = pending[o] /\ conflicts'[o] = conflicts[o]
        /\ ui'[o] = ui[o] /\ run'[o] = run[o] /\ slipped'[o] = slipped[o]
    BY DEF StepKeeps, OthersSame
  <2>3. \A e \in Entities : \A r : Received(e, r) => \E t \in held'[e] \cup {0} : r.upd <= t
    BY DEF Received
  <2>4. PullSound(o)' /\ OneOpen(o)' /\ HasMovies(local[o])'
    BY <2>1, <2>2 DEF DeviceInv, PullSound, HasOpenConflict, OneOpen, HasMovies
  <2>5. ExportReceived(o)'
    BY <2>1, <2>2, <2>3 DEF DeviceInv, ExportReceived, Received
  <2>6. EditsKept(o)'
    <3> SUFFICES ASSUME NEW e \in Entities
                 PROVE  Received(e, local[o][e])' \/ e \in pending'[o] \cup Unmarked(o)' \cup slipped'[o]
      BY DEF EditsKept
    <3>1. Unmarked(o)' = Unmarked(o)
      BY <2>2 DEF Unmarked
    <3>2. Received(e, local[o][e]) \/ e \in pending[o] \cup Unmarked(o) \cup slipped[o]
      BY <2>1 DEF DeviceInv, EditsKept
    <3>3. Received(e, local[o][e]) => Received(e, local[o][e])'
      BY <2>2, <2>3 DEF Received
    <3> QED BY <2>2, <3>1, <3>2, <3>3
  <2>7. Awaits(o)'
    <3>1. SUFFICES ASSUME run'[o].pc = "wait"
                   PROVE  /\ run'[o].req \in Requests /\ imp'[run'[o].req].pc # "idle"
                          /\ \A c \in Devices \ {o} : run'[c].pc = "wait" => run'[c].req # run'[o].req
                          /\ \A e \in Entities : e \in run'[o].clear =>
                               \/ local'[o][e] = imp'[run'[o].req].payload.rows[e]
                               \/ local'[o][e] = NoRow \/ e \in slipped'[o]
      BY DEF Awaits
    <3>2. /\ run'[o].req \in Requests /\ imp'[run'[o].req].pc # "idle"
          /\ imp'[run'[o].req].payload = imp[run[o].req].payload
      BY <2>1, <2>2, <3>1 DEF OthersAwait, Awaits
    <3>3. ASSUME NEW c \in Devices \ {o}, run'[c].pc = "wait" PROVE run'[c].req # run'[o].req
      <4>1. CASE c = d
        <5>1. o \in Devices \ {d} /\ run'[d].pc = "wait"
          BY <3>3, <4>1
        <5> QED BY <1>1, <3>1, <4>1, <5>1 DEF Awaits
      <4>2. CASE c # d
        <5>1. run'[c] = run[c]
          BY <4>2 DEF StepKeeps, OthersSame
        <5> QED BY <2>1, <2>2, <3>1, <3>3, <5>1 DEF Awaits
      <4> QED BY <4>1, <4>2
    <3> QED BY <2>1, <2>2, <3>1, <3>2, <3>3 DEF Awaits
  <2> QED BY <2>4, <2>5, <2>6, <2>7 DEF DeviceInv
<1>3. \A o \in Devices : DeviceInv(o)' /\ Awaits(o)'
  BY <1>1, <1>2
<1> QED BY <1>1, <1>3, SystemByDevice DEF SystemInv, DeviceInv, OneOpenConflict, LocalEntryHasMovie,
           NoEditForgotten, HasMovies, OneOpen, EditsKept

\* A step of the server keeps the system's invariant if it forgets no row, and
\* no request that a device waits for.
LEMMA ServerStepKeeps ==
  ASSUME SystemInv, ServerInv', UNCHANGED <<clock, deviceVars>>,
         \A e \in Entities : held[e] \subseteq held'[e],
         \A d \in Devices : run[d].pc = "wait" =>
           imp'[run[d].req].pc # "idle" /\ imp'[run[d].req].payload = imp[run[d].req].payload
  PROVE  SystemInv'
<1>1. UNCHANGED <<clock, local, pending, conflicts, lastSync, ui, run, born, slipped>>
  BY DEF deviceVars
<1>2. TypeOK' /\ OneOpenConflict' /\ LocalEntryHasMovie'
  BY <1>1 DEF SystemInv, TypeOK, DeviceTypeOK, ServerInv, OneOpenConflict, LocalEntryHasMovie
<1>3. \A e \in Entities : \A r : Received(e, r) => \E t \in held'[e] \cup {0} : r.upd <= t
  BY DEF Received
<1>4. NoEditForgotten'
  <2> SUFFICES ASSUME NEW d \in Devices, NEW e \in Entities
               PROVE  Received(e, local[d][e])' \/ e \in pending'[d] \cup Unmarked(d)' \cup slipped'[d]
    BY DEF NoEditForgotten
  <2>1. Received(e, local[d][e]) \/ e \in pending[d] \cup Unmarked(d) \cup slipped[d]
    BY DEF SystemInv, NoEditForgotten
  <2>2. Unmarked(d)' = Unmarked(d)
    BY <1>1 DEF Unmarked
  <2> QED BY <1>1, <1>3, <2>1, <2>2 DEF Received
<1>5. ASSUME NEW d \in Devices PROVE PullSound(d)' /\ ExportReceived(d)' /\ Awaits(d)'
  <2>1. PullSound(d) /\ ExportReceived(d) /\ Awaits(d)
    BY DEF SystemInv
  <2>2. PullSound(d)'
    BY <1>1, <2>1 DEF PullSound, HasOpenConflict
  <2>3. ExportReceived(d)'
    BY <1>1, <1>3, <2>1 DEF ExportReceived, Received
  <2>4. Awaits(d)'
    BY <1>1, <2>1 DEF Awaits
  <2> QED BY <2>2, <2>3, <2>4
<1> QED BY <1>2, <1>4, <1>5 DEF SystemInv

\* The steps of an import handler: they keep ServerInv, the history grows, and
\* of the handlers only q's changes, which stays busy with its payload.
LEMMA HandlerSteps ==
  ASSUME ServerInv, NEW q \in Requests,
         Lookup(q) \/ WriteDelete(q) \/ WriteRow(q) \/ Abort(q)
  PROVE  /\ ServerInv' /\ \A e \in Entities : held[e] \subseteq held'[e]
         /\ \A o \in Requests : imp[o].pc # "idle" =>
              imp'[o].pc # "idle" /\ imp'[o].payload = imp[o].payload
<1>1. ServerInv'
  BY KeepsLookup, KeepsWriteDelete, KeepsWriteRow, KeepsAbort
<1>2. imp \in [Requests -> Handlers]
  BY DEF ServerInv, ServerTypeOK
<1>3. CASE Lookup(q)
  <2>1. UNCHANGED held
    BY <1>3 DEF Lookup
  <2>2. ASSUME NEW x, imp' = [imp EXCEPT ![q].todo = @ \ {x}]
        PROVE  \A o \in Requests : imp'[o].pc = imp[o].pc /\ imp'[o].payload = imp[o].payload
    BY <1>2, <2>2 DEF Handlers
  <2>3. ASSUME NEW x, NEW s, imp' = [imp EXCEPT ![q].cur = x, ![q].seen = s]
        PROVE  \A o \in Requests : imp'[o].pc = imp[o].pc /\ imp'[o].payload = imp[o].payload
    BY <1>2, <2>3 DEF Handlers
  <2>4. \A o \in Requests : imp'[o].pc = imp[o].pc /\ imp'[o].payload = imp[o].payload
    BY <1>3, <2>2, <2>3 DEF Lookup
  <2> QED BY <1>1, <2>1, <2>4
<1>4. CASE WriteDelete(q)
  BY <1>1, <1>2, <1>4 DEF WriteDelete, Handlers
<1>5. CASE WriteRow(q)
  <2> DEFINE e == imp[q].cur
             r == imp[q].payload.rows[e]
  <2>1. /\ \/ imp' = [imp EXCEPT ![q].pc = "failed"]
           \/ imp' = [imp EXCEPT ![q].todo = @ \ {e}, ![q].cur = None, ![q].seen = NoRow]
        /\ UNCHANGED held \/ held' = [held EXCEPT ![e] = @ \cup {r.upd}]
    BY <1>5 DEF WriteRow, Put
  <2>2. \A f \in Entities : held[f] \subseteq held'[f]
    BY <2>1 DEF ServerInv, ServerTypeOK
  <2> QED BY <1>1, <1>2, <2>1, <2>2 DEF Handlers
<1>6. CASE Abort(q)
  BY <1>1, <1>2, <1>6 DEF Abort, Handlers
<1> QED BY <1>3, <1>4, <1>5, <1>6

\* When the server does not move, its invariant stays and so do its requests.
LEMMA ServerStays ==
  ASSUME SystemInv, UNCHANGED serverVars
  PROVE  ServerInv' /\ (\A d \in Devices : OthersAwait(d)) /\ \A e \in Entities : held[e] \subseteq held'[e]
<1>1. (\A d \in Devices : Awaits(d)) /\ ServerInv
  BY DEF SystemInv
<1>2. UNCHANGED <<server, imp, held>>
  BY DEF serverVars
<1>3. ServerInv'
  BY <1>1, <1>2 DEF ServerInv, ServerTypeOK, EntryHasMovie, HandlersSound, RowsReceived, HandledReceived,
                Received
<1> QED BY <1>1, <1>2, <1>3 DEF OthersAwait, Awaits

\* The steps of a user's operation keep the device's and the system's invariant.
LEMMA UserKeeps ==
  ASSUME SystemInv, NEW d \in Devices, User(d)
  PROVE  StepKeeps(d) /\ SystemInv'
<1>1. UNCHANGED serverVars /\ TypeOK
  BY DEF User, SystemInv
<1>2. ASSUME NEW m \in Movies, NEW v \in Vals, CreateMovie(d, m, v) PROVE StepKeeps(d)
  <2>1. Row(m) \in Entities /\ Row(m) = Row(Row(m)[2]) /\ born' \in SUBSET Movies
    BY <1>1, <1>2, KeyFacts DEF CreateMovie, Row, TypeOK, DeviceTypeOK
  <2> QED BY <1>1, <1>2, <2>1, SaveKeeps DEF CreateMovie
<1>3. ASSUME NEW e \in Entities, NEW v \in Vals, SaveExisting(d, e, v) PROVE StepKeeps(d)
  BY <1>1, <1>3, SaveKeeps DEF SaveExisting, TypeOK, DeviceTypeOK
<1>4. ASSUME NEW m \in Movies, MarkDelete(d, m) PROVE StepKeeps(d)
  BY <1>1, <1>4, MarkDeleteKeeps
<1>5. ASSUME NEW c \in conflicts[d], NEW chosen \in {c.local, c.remote}, ResolveConflict(d, c, chosen)
      PROVE  StepKeeps(d)
  BY <1>1, <1>5, ResolveKeeps
<1>6. StepKeeps(d)
  BY <1>1, <1>2, <1>3, <1>4, <1>5, MarkSavedKeeps, DeleteRowKeeps, MarkResolvedKeeps, CloseKeeps
     DEF User, UserStep, UserContinues
<1> QED BY <1>1, <1>6, ServerStays, DeviceStepKeeps

\* The steps of a cycle keep the device's and the system's invariant.
LEMMA RunKeeps ==
  ASSUME SystemInv, NEW d \in Devices, RunStep(d)
  PROVE  StepKeeps(d) /\ SystemInv'
<1>1. \A o \in Devices : Awaits(o)
  BY DEF SystemInv
<1>2. ASSUME NEW q \in Requests, RequestPush(d, q) PROVE StepKeeps(d) /\ SystemInv'
  <2>1. UNCHANGED held /\ imp[q].pc = "idle" /\ \A o \in Requests \ {q} : imp'[o] = imp[o]
    BY <1>2 DEF RequestPush, Arrive, SystemInv, ServerInv, ServerTypeOK
  <2>2. OthersAwait(d)
    BY <1>1, <2>1 DEF OthersAwait, Awaits
  <2> QED BY <1>2, <2>1, <2>2, RequestPushKeeps, DeviceStepKeeps
<1>3. ASSUME ReceiveAck(d) \/ ReceiveError(d) PROVE StepKeeps(d) /\ SystemInv'
  <2>1. run[d].pc = "wait" /\ Release(run[d].req)
    BY <1>3 DEF ReceiveAck, ReceiveError
  <2>2. UNCHANGED held /\ \A o \in Requests \ {run[d].req} : imp'[o] = imp[o]
    BY <2>1 DEF Release, SystemInv, ServerInv, ServerTypeOK
  <2>3. OthersAwait(d)
    BY <1>1, <2>1, <2>2 DEF OthersAwait, Awaits
  <2> QED BY <1>3, <2>2, <2>3, ReceiveAckKeeps, ReceiveErrorKeeps, DeviceStepKeeps
<1>4. ASSUME PullMovies(d) \/ PullEntries(d) PROVE StepKeeps(d) /\ SystemInv'
  BY <1>4, ExportKeeps, ServerStays, DeviceStepKeeps DEF PullMovies, PullEntries
<1>5. ASSUME PullStep(d), UNCHANGED serverVars PROVE StepKeeps(d) /\ SystemInv'
  <2>1. CASE PullJudge(d)
    BY <1>5, <2>1, JudgeKeeps, ServerStays, DeviceStepKeeps DEF PullJudge
  <2> QED BY <1>5, <2>1, PullCheckKeeps, PullReadKeeps, PullCompareKeeps, PullWriteKeeps,
             PullRecordKeeps, EndKeeps, ServerStays, DeviceStepKeeps DEF PullStep
<1> QED BY <1>2, <1>3, <1>4, <1>5 DEF RunStep

\* Steps of the server and faults keep the system's invariant.
LEMMA ServerKeeps ==
  ASSUME SystemInv, NEW q \in Requests,
         ServerStep(q) \/ LoseResponse(q) \/ (Abort(q) /\ UNCHANGED <<clock, deviceVars>>)
  PROVE  SystemInv'
<1>1. ServerInv /\ \A o \in Devices : Awaits(o)
  BY DEF SystemInv
<1>2. CASE LoseResponse(q)
  <2>1. Release(q) /\ UNCHANGED <<clock, deviceVars>> /\ \A d \in Devices : run[d].req # q
    BY <1>2 DEF LoseResponse
  <2>2. UNCHANGED held /\ \A o \in Requests \ {q} : imp'[o] = imp[o]
    BY <1>1, <2>1 DEF Release, ServerInv, ServerTypeOK
  <2>3. \A d \in Devices : run[d].pc = "wait" =>
          imp'[run[d].req].pc # "idle" /\ imp'[run[d].req].payload = imp[run[d].req].payload
    BY <1>1, <2>1, <2>2 DEF Awaits
  <2> QED BY <1>1, <2>1, <2>2, <2>3, KeepsRelease, ServerStepKeeps
<1>3. CASE (Lookup(q) \/ WriteDelete(q) \/ WriteRow(q) \/ Abort(q)) /\ UNCHANGED <<clock, deviceVars>>
  <2>1. \A d \in Devices : run[d].pc = "wait" =>
          imp'[run[d].req].pc # "idle" /\ imp'[run[d].req].payload = imp[run[d].req].payload
    BY <1>1, <1>3, HandlerSteps DEF Awaits
  <2> QED BY <1>1, <1>3, <2>1, HandlerSteps, ServerStepKeeps
<1> QED BY <1>2, <1>3 DEF ServerStep

\* Failing cycles and crashes keep the system's invariant.
LEMMA FaultKeeps ==
  ASSUME SystemInv, Fault
  PROVE  SystemInv'
<1>1. ASSUME NEW d \in Devices, RunFails(d) \/ JudgeFails(d) \/ Crash(d), UNCHANGED serverVars
      PROVE  SystemInv'
  <2>1. CASE JudgeFails(d)
    BY <1>1, <2>1, JudgeKeeps, ServerStays, DeviceStepKeeps DEF JudgeFails
  <2> QED BY <1>1, <2>1, EndKeeps, CrashKeeps, ServerStays, DeviceStepKeeps
<1> QED BY <1>1, ServerKeeps DEF Fault

\* The seeded rows obey the foreign key and are known to the history.
LEMMA InitFacts == Init => SystemInv
<1> SUFFICES ASSUME Init PROVE SystemInv
  OBVIOUS
<1>1. PICK v \in Vals :
        LET table == [e \in Entities |-> IF e \in Seeded THEN [val |-> v, upd |-> 1] ELSE NoRow]
        IN server = table /\ local = [d \in Devices |-> table]
  BY DEF Init
<1> DEFINE table == [e \in Entities |-> IF e \in Seeded THEN [val |-> v, upd |-> 1] ELSE NoRow]
<1>2. /\ clock = 1 /\ server = table /\ local = [d \in Devices |-> table]
      /\ held = [e \in Entities |-> IF e \in Seeded THEN {1} ELSE {}]
      /\ imp = [q \in Requests |-> IdleHandler]
      /\ pending = [d \in Devices |-> {}] /\ conflicts = [d \in Devices |-> {}]
      /\ lastSync = [d \in Devices |-> IF Seeded = {} THEN Never ELSE 1 + Skew[d]]
      /\ ui = [d \in Devices |-> NoOp]
      /\ run = [d \in Devices |-> IdleRun] /\ born = {m \in Movies : Row(m) \in Seeded}
      /\ slipped = [d \in Devices |-> {}]
  BY <1>1 DEF Init
<1>3. /\ table \in Tables /\ \A e \in Entities : table[e] # NoRow <=> e \in Seeded
      /\ \A e \in Entities : table[e].upd = IF e \in Seeded THEN 1 ELSE 0
  <2>1. [val |-> v, upd |-> 1] \in Rows /\ [val |-> v, upd |-> 1] # NoRow
    BY NoRowFacts DEF Rows
  <2> QED BY <2>1, NoRowFacts DEF Tables
<1>4. HasMovies(table)
  BY <1>3, SeedAssumption, KeyFacts DEF HasMovies, Entry
<1> HIDE DEF table
<1>5. \A e \in Entities : Received(e, table[e])
  <2>1. \A e \in Entities : IF e \in Seeded THEN 1 \in held[e] /\ table[e].upd = 1 ELSE table[e].upd = 0
    BY <1>2, <1>3
  <2> QED BY <2>1 DEF Received
<1>6. ServerTypeOK
  BY <1>2, <1>3, IdleFacts DEF ServerTypeOK
<1>7. ServerInv
  BY <1>2, <1>4, <1>5, <1>6, IdleFacts DEF ServerInv, EntryHasMovie, HasMovies, HandlersSound, RowsReceived,
     HandledReceived
<1>8. TypeOK
  BY <1>2, <1>3, <1>6, IdleRunFacts, DeviceAssumption DEF TypeOK, DeviceTypeOK, Never
<1>9. ASSUME NEW d \in Devices PROVE DeviceInv(d) /\ Awaits(d)
  <2>1. local[d] = table /\ run[d] = IdleRun /\ conflicts[d] = {}
    BY <1>2
  <2>2. HasMovies(local[d]) /\ OneOpen(d) /\ EditsKept(d)
    BY <1>4, <1>5, <2>1 DEF OneOpen, EditsKept
  <2>3. PullSound(d) /\ ExportReceived(d) /\ Awaits(d)
    BY <2>1, IdleRunFacts, NoRowReceived DEF PullSound, ExportReceived, Awaits
  <2> QED BY <2>2, <2>3 DEF DeviceInv
<1> QED BY <1>7, <1>8, <1>9, SystemByDevice

\* SystemInv is inductive.
LEMMA SystemStep ==
  ASSUME SystemInv, [Next]_vars
  PROVE  SystemInv'
<1>1. CASE Next
  BY <1>1, UserKeeps, RunKeeps, ServerKeeps, FaultKeeps DEF Next
<1>2. CASE UNCHANGED vars
  <2>1. UNCHANGED <<clock, deviceVars>> /\ UNCHANGED serverVars
    BY <1>2 DEF vars
  <2>2. \A d \in Devices : Awaits(d)
    BY DEF SystemInv
  <2> QED BY <2>1, <2>2, ServerStays, ServerStepKeeps DEF serverVars, Awaits
<1> QED BY <1>1, <1>2

\* The inductive invariant of devices and server holds in every reachable
\* state: for any movies, devices, contents, clock skews and faults.
THEOREM SystemInvariant == Spec => []SystemInv
<1>1. SystemInv /\ [Next]_vars => SystemInv'
  BY SystemStep
<1> QED BY <1>1, InitFacts, PTL DEF Spec

\* The state is well typed: no step of a cycle meets a row, a mark or a conflict
\* of the wrong kind, nor a version that is missing.
THEOREM TypeCorrect == Spec => []TypeOK
<1>1. SystemInv => TypeOK
  BY DEF SystemInv
<1> QED BY <1>1, SystemInvariant, PTL

\* Every edit keeps its mark until the server received it, except those that
\* the history notes, however users, cycles, handlers and faults interleave.
THEOREM EditsAreNotForgotten == Spec => []NoEditForgotten
<1>1. SystemInv => NoEditForgotten
  BY DEF SystemInv
<1> QED BY <1>1, SystemInvariant, PTL

\* No device has a watch entry without its movie.
THEOREM LocalEntriesHaveMovies == Spec => []LocalEntryHasMovie
<1>1. SystemInv => LocalEntryHasMovie
  BY DEF SystemInv
<1> QED BY <1>1, SystemInvariant, PTL

\* A row has one open conflict at most.
THEOREM ConflictsAreUnique == Spec => []OneOpenConflict
<1>1. SystemInv => OneOpenConflict
  BY DEF SystemInv
<1> QED BY <1>1, SystemInvariant, PTL

\* The local tables of a device change by an operation of its user or by the
\* write of its pull, and by nothing else.
LEMMA LocalWriters ==
  ASSUME SystemInv, [Next]_vars, NEW d \in Devices, local'[d] # local[d]
  PROVE  PullWrite(d) \/ (ui'[d] # ui[d] /\ UNCHANGED run)
<1>1. local \in [Devices -> Tables] /\ ui \in [Devices -> Operations \cup {NoOp}]
  BY DEF SystemInv, TypeOK, DeviceTypeOK
<1>2. ASSUME NEW o \in Devices, NEW e \in Entities, NEW v \in Vals, SaveRow(o, e, v)
      PROVE  ui'[d] # ui[d] /\ UNCHANGED run
  BY <1>1, <1>2 DEF SaveRow, NoOp
<1>3. ASSUME NEW o \in Devices, DeleteRow(o) PROVE ui'[d] # ui[d] /\ UNCHANGED run
  BY <1>1, <1>3 DEF DeleteRow, NoOp
<1>4. ASSUME NEW o \in Devices, NEW c \in conflicts[o], NEW chosen \in {c.local, c.remote},
             ResolveConflict(o, c, chosen)
      PROVE  ui'[d] # ui[d] /\ UNCHANGED run
  <2>1. c.entity \in Entities
    BY <1>4 DEF SystemInv, TypeOK, DeviceTypeOK, Conflicts
  <2> QED BY <1>1, <1>4, <2>1 DEF ResolveConflict, NoOp
<1>5. ASSUME NEW o \in Devices, User(o) PROVE ui'[d] # ui[d] /\ UNCHANGED run
  <2>1. ASSUME NEW m \in Movies, NEW v \in Vals, CreateMovie(o, m, v) PROVE ui'[d] # ui[d] /\ UNCHANGED run
    BY <1>2, <2>1, KeyFacts DEF CreateMovie
  <2>2. ASSUME MarkSaved(o) \/ MarkResolved(o) \/ CloseConflict(o) \/ \E m \in Movies : MarkDelete(o, m)
        PROVE  FALSE
    BY <2>2 DEF MarkSaved, MarkResolved, CloseConflict, MarkDelete
  <2> QED BY <1>2, <1>3, <1>4, <1>5, <2>1, <2>2 DEF User, UserStep, UserContinues, SaveExisting
<1>6. ASSUME NEW o \in Devices, RunStep(o) PROVE PullWrite(d)
  <2>1. ASSUME ~PullWrite(o) PROVE FALSE
    BY <1>6, <2>1 DEF RunStep, RequestPush, StartPush, ReceiveAck, ClearPushed, ReceiveError, RunFails,
       PullMovies, PullEntries, ReceiveMovies, ReceiveEntries, PullStep, PullCheck, PullRead, PullJudge, Judge,
       PullCompare, PullRecord, FinishRun
  <2>2. PullWrite(o) => o = d
    BY <1>1 DEF PullWrite
  <2> QED BY <2>1, <2>2
<1>7. ASSUME NEW q \in Requests, ServerStep(q) \/ LoseResponse(q) PROVE FALSE
  BY <1>7 DEF ServerStep, LoseResponse, deviceVars
<1>8. ~Fault /\ ~UNCHANGED vars
  BY DEF Fault, RunFails, JudgeFails, Judge, Crash, deviceVars, vars
<1> QED BY <1>5, <1>6, <1>7, <1>8 DEF Next

\* While a conflict is open, only the user changes its row.
THEOREM ConflictsShieldRows == Spec => ConflictShieldsRow
<1>1. ASSUME SystemInv, [Next]_vars
      PROVE  [\A d \in Devices, e \in Entities :
                (\E c \in conflicts[d] : c.entity = e) /\ local'[d][e] # local[d][e] => ui'[d] # ui[d]]_vars
  <2> SUFFICES ASSUME NEW d \in Devices, NEW e \in Entities,
                      \E c \in conflicts[d] : c.entity = e, local'[d][e] # local[d][e]
               PROVE  ui'[d] # ui[d]
    OBVIOUS
  <2>1. CASE PullWrite(d)
    <3>1. run[d].step = "write" /\ ~HasOpenConflict(d, run[d].cur)
      BY <1>1, <2>1 DEF SystemInv, PullSound, PullWrite, Pulling
    <3>2. run[d].cur # e /\ run[d].cur \in Entities
      BY <1>1, <2>1, <3>1, RunFacts DEF HasOpenConflict, SystemInv, PullSound
    <3>3. local \in [Devices -> Tables]
      BY <1>1 DEF SystemInv, TypeOK, DeviceTypeOK
    <3> QED BY <2>1, <3>2, <3>3 DEF PullWrite, Tables
  <2> QED BY <1>1, <2>1, LocalWriters
<1>2. SystemInv /\ [Next]_vars =>
        [\A d \in Devices, e \in Entities :
           (\E c \in conflicts[d] : c.entity = e) /\ local'[d][e] # local[d][e] => ui'[d] # ui[d]]_vars
  BY <1>1
<1> QED BY <1>2, SystemInvariant, PTL DEF Spec, ConflictShieldsRow

\* A pull makes a row older only if an edit slipped in after it compared.
THEOREM PullsApplyNewer == Spec => PullOlderNeedsRace
<1>1. ASSUME SystemInv, [Next]_vars
      PROVE  [\A d \in Devices, e \in Entities :
                PullWrites(d, e) /\ local'[d][e].upd <= local[d][e].upd => run[d].seen # local[d][e]]_vars
  <2> SUFFICES ASSUME NEW d \in Devices, NEW e \in Entities, PullWrites(d, e),
                      local'[d][e].upd <= local[d][e].upd, run[d].seen = local[d][e]
               PROVE  FALSE
    OBVIOUS
  <2>1. TypeOK /\ PullSound(d) /\ local \in [Devices -> Tables]
    BY <1>1 DEF SystemInv, TypeOK, DeviceTypeOK
  <2>2. PullWrite(d)
    BY <1>1, LocalWriters DEF PullWrites
  <2>3. local'[d][e] = run[d].snap[e]
    BY <2>1, <2>2 DEF PullWrite, PullWrites, Tables
  <2>4. run[d].snap[e].upd > run[d].seen.upd
    BY <2>1 DEF PullSound, PullWrites, Newer
  <2>5. run[d].snap[e].upd \in Nat /\ run[d].seen.upd \in Nat
    BY <2>1, RunFacts, NoRowFacts
  <2> QED BY <2>3, <2>4, <2>5
<1>2. SystemInv /\ [Next]_vars =>
        [\A d \in Devices, e \in Entities :
           PullWrites(d, e) /\ local'[d][e].upd <= local[d][e].upd => run[d].seen # local[d][e]]_vars
  BY <1>1
<1> QED BY <1>2, SystemInvariant, PTL DEF Spec, PullOlderNeedsRace

(***************************************************************************)
(* The promises of an import, kept while devices push and give up.         *)
(***************************************************************************)

\* On the server a step of the system is one of a handler, or nothing.
LEMMA ServerSide ==
  ASSUME SystemInv, [Next]_vars
  PROVE  \/ UNCHANGED serverVars
         \/ \E q \in Requests : (\E p \in Payloads : Arrive(q, p)) \/ ImportStep(q) \/ Release(q)
<1>1. TypeOK /\ \A d \in Devices : Awaits(d)
  BY DEF SystemInv
<1>2. ASSUME NEW d \in Devices, RunStep(d)
      PROVE  \/ UNCHANGED serverVars
             \/ \E q \in Requests : (\E p \in Payloads : Arrive(q, p)) \/ Release(q)
  <2>1. ASSUME NEW q \in Requests, RequestPush(d, q) PROVE \E p \in Payloads : Arrive(q, p)
    BY <1>1, <2>1, PushedPayload DEF RequestPush
  <2>2. ASSUME ReceiveAck(d) \/ ReceiveError(d) PROVE run[d].req \in Requests /\ Release(run[d].req)
    BY <1>1, <2>2 DEF ReceiveAck, ReceiveError, Awaits
  <2>3. ASSUME PullMovies(d) \/ PullEntries(d) PROVE UNCHANGED serverVars
    BY <2>3 DEF PullMovies, PullEntries
  <2> QED BY <1>2, <2>1, <2>2, <2>3 DEF RunStep
<1>3. ASSUME NEW d \in Devices, User(d) PROVE UNCHANGED serverVars
  BY <1>3 DEF User
<1>4. ASSUME NEW q \in Requests, ServerStep(q) \/ LoseResponse(q) PROVE ImportStep(q) \/ Release(q)
  BY <1>4 DEF ServerStep, LoseResponse, ImportStep
<1>5. ASSUME Fault PROVE UNCHANGED serverVars \/ \E q \in Requests : ImportStep(q)
  BY <1>5 DEF Fault, ImportStep
<1>6. CASE UNCHANGED vars
  BY <1>6 DEF vars
<1> QED BY <1>2, <1>3, <1>4, <1>5, <1>6 DEF Next

\* Outstanding writes stay due, and each step does its part of the import.
LEMMA SystemMerges ==
  ASSUME SystemInv, Compared, [Next]_vars
  PROVE  Compared' /\ MergeStep /\ RetryStep
<1>1. ServerInv
  BY DEF SystemInv
<1>2. CASE UNCHANGED serverVars
  <2>1. UNCHANGED imp
    BY <1>2 DEF serverVars
  <2> QED BY <2>1, NoHandlerMerges DEF Compared
<1>3. CASE \E q \in Requests : (\E p \in Payloads : Arrive(q, p)) \/ ImportStep(q) \/ Release(q)
  BY <1>1, <1>3, KeepsCompared, StepsMerge
<1> QED BY <1>2, <1>3, ServerSide

\* At the start no write is outstanding.
LEMMA ComparedAtFirst == Init => Compared
<1> SUFFICES ASSUME Init PROVE Compared
  OBVIOUS
<1>1. imp = [q \in Requests |-> IdleHandler]
  BY DEF Init
<1> QED BY <1>1, IdleFacts, KeyFacts DEF Compared

\* Whatever devices push at once, give up and push again, the imports merge.
THEOREM PushesAreMerged == Spec => ImportsMerge /\ RetriesAreHarmless
<1>1. SystemInv /\ Compared /\ [Next]_vars => Compared' /\ [MergeStep]_serverVars /\ [RetryStep]_serverVars
  BY SystemMerges
<1> QED BY <1>1, ComparedAtFirst, SystemInvariant, PTL
        DEF Spec, ImportsMerge, RetriesAreHarmless, MergeStep, RetryStep

\* Devices with any clocks: an import of theirs makes a row older only by a race.
THEOREM PushesApplyNewer == Spec => OlderNeedsRace
<1> DEFINE Step ==
      \A e \in Entities :
        server[e] # NoRow /\ server'[e] # NoRow /\ server'[e] # server[e] /\ server'[e].upd <= server[e].upd
          => \E q \in Requests : imp'[q] # imp[q] /\ imp[q].cur = e /\ imp[q].seen # server[e]
<1>1. SystemInv /\ Compared /\ [Next]_vars => [Step]_server
  <2> SUFFICES ASSUME SystemInv, Compared, [Next]_vars, server' # server PROVE Step
    OBVIOUS
  <2>1. ServerInv
    BY DEF SystemInv
  <2>2. PICK q \in Requests : (\E p \in Payloads : Arrive(q, p)) \/ ImportStep(q) \/ Release(q)
    BY ServerSide DEF serverVars
  <2> QED BY <2>1, <2>2, NewerUnlessRaced
<1>2. SystemInv /\ Compared /\ [Next]_vars => Compared'
  BY SystemMerges
<1> QED BY <1>1, <1>2, ComparedAtFirst, SystemInvariant, PTL DEF Spec, OlderNeedsRace
=============================================================================
