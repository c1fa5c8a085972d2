----------------------------- MODULE SyncSystem -----------------------------
(***************************************************************************)
(* Devices and server together: one account, any number of devices that    *)
(* edit offline, push and pull while their users go on working.  Requests  *)
(* and responses may be lost, cycles fail and processes die at any step.   *)
(***************************************************************************)
EXTENDS SyncServer, SyncDevice

CONSTANTS
  Seeded, \* the rows every device and the server already share
  Faults  \* bound of the model: the kinds of faults that occur

ASSUME SeedAssumption ==
  /\ Seeded \subseteq Entities
  /\ Faults \subseteq {"error", "crash", "abort"}
  /\ \A e \in Seeded : Row(e[2]) \in Seeded

vars == <<clock, serverVars, deviceVars>>

TypeOK == clock \in Nat /\ ServerTypeOK /\ DeviceTypeOK

\* The state after a sync of every device: they have the same rows, written
\* at time 1 with the same content.  Without any rows they are new devices.
Init ==
  \E v \in Vals :
    LET table == [e \in Entities |-> IF e \in Seeded THEN [val |-> v, upd |-> 1] ELSE NoRow]
    IN /\ clock = 1
       /\ server = table
       /\ held = [e \in Entities |-> IF e \in Seeded THEN {1} ELSE {}]
       /\ imp = [q \in Requests |-> IdleHandler]
       /\ local = [d \in Devices |-> table]
       /\ pending = [d \in Devices |-> {}]
       /\ conflicts = [d \in Devices |-> {}]
       /\ lastSync = [d \in Devices |-> IF Seeded = {} THEN Never ELSE 1 + Skew[d]]
       /\ ui = [d \in Devices |-> NoOp]
       /\ run = [d \in Devices |-> IdleRun]
       /\ born = {m \in Movies : Row(m) \in Seeded}
       /\ slipped = [d \in Devices |-> {}]

\* POST /api/v1/sync reaches the server.
RequestPush(d, q) == StartPush(d, q) /\ Arrive(q, PushPayload(d))

\* The response reaches the device that waits for it.
ReceiveAck(d) ==
  LET q == run[d].req
  IN /\ run[d].pc = "wait"
     /\ Done(q)
     /\ \E cleared \in IF "error" \in Faults THEN SUBSET run[d].clear ELSE {run[d].clear} :
          ClearPushed(d, imp[q].payload, cleared)
     /\ Release(q)

\* A status other than 200 reaches it.
ReceiveError(d) ==
  LET q == run[d].req
  IN /\ run[d].pc = "wait"
     /\ imp[q].pc = "failed"
     /\ RunFails(d)
     /\ Release(q)

\* A response nobody waits for any more
LoseResponse(q) ==
  /\ \A d \in Devices : run[d].req # q
  /\ Release(q)
  /\ UNCHANGED <<clock, deviceVars>>

\* GET /api/v1/sync: the handler's two SELECTs
PullMovies(d) == ReceiveMovies(d, server) /\ UNCHANGED serverVars
PullEntries(d) == ReceiveEntries(d, server) /\ UNCHANGED serverVars

User(d) == (UserStep(d) \/ UserContinues(d)) /\ UNCHANGED serverVars

RunStep(d) ==
  \/ \E q \in Requests : RequestPush(d, q)
  \/ ReceiveAck(d)
  \/ ReceiveError(d)
  \/ PullMovies(d)
  \/ PullEntries(d)
  \/ PullStep(d) /\ UNCHANGED serverVars

ServerStep(q) == (Lookup(q) \/ WriteDelete(q) \/ WriteRow(q)) /\ UNCHANGED <<clock, deviceVars>>

\* A cycle ends with an error or a timeout, a query of its pull fails without
\* ending it, a device's process dies, or the server gives up a request.
Fault ==
  \/ \E d \in Devices :
       /\ \/ "error" \in Faults /\ (RunFails(d) \/ JudgeFails(d))
          \/ "crash" \in Faults /\ Crash(d)
       /\ UNCHANGED serverVars
  \/ \E q \in Requests : "abort" \in Faults /\ Abort(q) /\ UNCHANGED <<clock, deviceVars>>

Next ==
  \/ \E d \in Devices : User(d) \/ RunStep(d)
  \/ \E q \in Requests : ServerStep(q) \/ LoseResponse(q)
  \/ Fault

Spec == Init /\ [][Next]_vars

(***************************************************************************)
(* Fairness: an operation begun goes on, the sync tick and Run do not stop *)
(* (tui/sync.go:72-99), the server works on what it accepted and, though   *)
(* the slots for requests are few, accepts every device's push some time.  *)
(***************************************************************************)
Fairness ==
  /\ \A d \in Devices : /\ WF_vars(UserContinues(d) /\ UNCHANGED serverVars)
                        /\ WF_vars(RunStep(d))
                        /\ SF_vars(\E q \in Requests : RequestPush(d, q))
  /\ \A q \in Requests : WF_vars(ServerStep(q)) /\ WF_vars(LoseResponse(q))

FairSpec == Spec /\ Fairness

(***************************************************************************)
(* Properties.                                                             *)
(***************************************************************************)

\* No edit is forgotten: a row newer than all the server ever had keeps its
\* mark, or is about to get it.  The exceptions are those the history notes:
\* a crash between the row and its mark (hybrid_client.go:72-76), an edit
\* between the build of a push that has the row and its ClearPending, and a watch
\* entry pushed without its movie (service.go:123-137, sync_handlers.go:88).
NoEditForgotten ==
  \A d \in Devices, e \in Entities :
    \/ Received(e, local[d][e])
    \/ e \in pending[d] \cup Unmarked(d) \cup slipped[d]

\* A device has no watch entry without its movie, although pulls, deletes and
\* conflict resolutions interleave (service.go:162-200).
LocalEntryHasMovie ==
  \A d \in Devices, m \in Movies : local[d][Entry(m)] # NoRow => local[d][Row(m)] # NoRow

\* A row has at most one open conflict, so that a resolution settles it: later
\* pulls skip a row with an open conflict (service.go:413, 437).
OneOpenConflict ==
  \A d \in Devices : \A b, c \in conflicts[d] : b.entity = c.entity => b = c

\* While a conflict is open, no pull touches the row under the user's eyes:
\* only the user's own operation changes it (service.go:412-416, 436-440).
ConflictShieldsRow ==
  [][\A d \in Devices, e \in Entities :
       (\E c \in conflicts[d] : c.entity = e) /\ local'[d][e] # local[d][e] => ui'[d] # ui[d]]_vars

\* A pull of device d writes row e of the export.
PullWrites(d, e) == run[d].step = "write" /\ run[d].cur = e /\ run'[d] # run[d] /\ local'[d] # local[d]

\* A pull replaces a local row by one that is not newer only when the row
\* changed between the decision and the write (service.go:412-458,
\* movie_repository.go:205, 234): an edit of the user slipped in between.
PullOlderNeedsRace ==
  [][\A d \in Devices, e \in Entities :
       PullWrites(d, e) /\ local'[d][e].upd <= local[d][e].upd => run[d].seen # local[d][e]]_vars

\* "re-sync sans perte silencieuse" (docs/E2E.md:287): a pull writes over other
\* content only if the server had the lost version, so that it lost to a later
\* edit there, and not over an edit the user was never asked about.  Not
\* counted: the races that PullOlderNeedsRace and NoEditForgotten describe.
NoSilentLoss ==
  [][\A d \in Devices, e \in Entities :
       PullWrites(d, e) /\ run[d].seen = local[d][e] /\ ContentDiffers(local'[d][e], local[d][e])
         => \/ local[d][e] = NoRow \/ local[d][e].upd \in held[e]
            \/ e \in slipped[d] \cup Unmarked(d) \cup pending[d]]_vars

\* The users are idle, and nothing waits for a push or for a resolution.
Settled == \A d \in Devices : ui[d] = NoOp /\ pending[d] = {} /\ conflicts[d] = {}

\* Every device has the server's rows, except those whose push slipped.
Agreed ==
  \A d \in Devices, e \in Entities : server[e] = NoRow \/ local[d][e] = server[e] \/ e \in slipped[d]

\* Devices converge: once everything is settled, every device eventually has
\* what the server has (service.go:162-200: each pull looks at every row).
Convergence == <>[]Settled => <>[]Agreed

\* "MarkMoviePending records a local movie mutation for the next push",
\* "MarkWatchEntryPending records a local watch entry mutation for the next push"
\* (service.go:365, 370): the mark stays until the server received the mutation.
EditsArePushed ==
  \A d \in Devices, e \in Entities :
    Received(e, local[d][e]) \/ e \in pending[d] \cup Unmarked(d)

\* "ResolveConflict applies the chosen version for a conflict" (service.go:257):
\* a user who has not edited the row since and chooses the remote version has it.
ChoiceIsApplied ==
  [][\A d \in Devices : \A c \in conflicts[d] :
       ResolveConflict(d, c, c.remote) /\ local[d][c.entity] = c.local
         => local'[d][c.entity] = c.remote]_vars

\* Marks do not wait forever (service.go:123-137, 331-339): every mark is gone
\* some time, or it is that of the watch entry of a movie deleted here, which
\* the push neither contains nor clears.
MarksDrain ==
  \A d \in Devices, x \in Marks :
    x \in pending[d] ~> x \notin pending[d] \/ (x[1] = "watch_entry" /\ local[d][x] = NoRow)

(***************************************************************************)
(* The inductive invariant behind the safety properties.                   *)
(***************************************************************************)

\* The step a pull has reached says what it found: the export has the row, the
\* device had one to compare it with, the export's is newer than the one read
\* last, and no conflict is open on it.
PullSound(d) ==
  /\ run[d].cur # None => run[d].pc = "pull" /\ run[d].snap[run[d].cur] # NoRow
  /\ run[d].step # "none" => run[d].cur # None
  /\ run[d].step \in {"judge", "record"} => run[d].seen # NoRow
  /\ run[d].step = "write" => Newer(run[d].snap[run[d].cur], run[d].seen)
  /\ run[d].step \in {"judge", "record", "compare", "write"} => ~HasOpenConflict(d, run[d].cur)

\* An export has only what the server once held.
ExportReceived(d) == \A e \in Entities : Received(e, run[d].snap[e])

\* A waiting device has a request of its own, and the rows whose marks the
\* response will clear are those it sent, except the ones edited since.
Awaits(d) ==
  run[d].pc = "wait" =>
    /\ run[d].req \in Requests /\ imp[run[d].req].pc # "idle"
    /\ \A o \in Devices \ {d} : run[o].pc = "wait" => run[o].req # run[d].req
    /\ \A e \in Entities : e \in run[d].clear =>
         \/ local[d][e] = imp[run[d].req].payload.rows[e]
         \/ local[d][e] = NoRow
         \/ e \in slipped[d]

SystemInv ==
  /\ TypeOK /\ ServerInv
  /\ OneOpenConflict /\ LocalEntryHasMovie /\ NoEditForgotten
  /\ \A d \in Devices : PullSound(d) /\ ExportReceived(d) /\ Awaits(d)
=============================================================================
