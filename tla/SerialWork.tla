----------------------------- MODULE SerialWork -----------------------------
(***************************************************************************)
(* What Service.Run promises of its callers: "concurrent calls are         *)
(* serialized to avoid overlapping push/pull cycles" (sync/service.go:84). *)
(* A job that was submitted waits, works alone, and leaves.                *)
(***************************************************************************)
CONSTANT Jobs

VARIABLES
  waiting, \* the jobs submitted and not begun
  working  \* the jobs at work

SerialInit == waiting = {} /\ working = {}

Submit(j) == waiting' = waiting \cup {j} /\ UNCHANGED working

Begin(j) ==
  /\ working = {} /\ j \in waiting
  /\ waiting' = waiting \ {j} /\ working' = {j}

\* A job may be turned away when its turn comes.
TurnAway(j) ==
  /\ working = {} /\ j \in waiting
  /\ waiting' = waiting \ {j} /\ UNCHANGED working

Leave == working' = {} /\ UNCHANGED waiting

\* The process ends.
Stop == waiting' = {} /\ working' = {}

SerialNext ==
  \/ \E j \in Jobs : Submit(j) \/ Begin(j) \/ TurnAway(j)
  \/ Leave
  \/ Stop

SerialSpec == SerialInit /\ [][SerialNext]_<<waiting, working>>
=============================================================================
