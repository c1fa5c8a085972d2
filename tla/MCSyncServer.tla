---------------------------- MODULE MCSyncServer ----------------------------
(***************************************************************************)
(* Small instances of SyncServer for TLC.                                  *)
(***************************************************************************)
EXTENDS SyncServer, TLC

\* Request slots, contents and movies are interchangeable.
ServerSymmetry == Permutations(Requests) \cup Permutations(Vals) \cup Permutations(Movies)
=============================================================================
