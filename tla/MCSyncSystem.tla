---------------------------- MODULE MCSyncSystem ----------------------------
(***************************************************************************)
(* Small instances of SyncSystem for TLC.                                  *)
(***************************************************************************)
EXTENDS SyncSystem, TLC

\* All clocks agree.
NoSkew == [d \in Devices |-> 0]

AllSeeded == Entities
MoviesSeeded == {Row(m) : m \in Movies}

\* Request slots, contents and, when their clocks agree, devices are
\* interchangeable.  The runs with liveness properties use no symmetry.
Symmetry == Permutations(Requests) \cup Permutations(Vals)
SymmetryDevices == Symmetry \cup Permutations(Devices)
=============================================================================
