---------------------------- MODULE MCSyncHistory ----------------------------
(***************************************************************************)
(* Small instances of SyncHistory for TLC, with the constants of           *)
(* MCSyncSystem.                                                           *)
(***************************************************************************)
EXTENDS SyncHistory, MCSyncSystem, FiniteSets

\* Bound of the model: one device at a time goes through an export or has an
\* operation of its user under way.  These steps read and write the tables of
\* their own device only; what connects two devices is the clock and the server.
OneAtATime == Cardinality({d \in Devices : run[d].pc = "pull" \/ ui[d] # NoOp}) <= 1
=============================================================================
