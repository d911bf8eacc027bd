----------------------------- MODULE MCSupervise -----------------------------
(* Instances of Supervise for TLC.  Pids are interchangeable, and so are   *)
(* the launchers; the symmetry is used by the safety runs only.            *)
EXTENDS Supervise, TLC

Symmetry == Permutations(Pids) \cup Permutations(Launchers)
=============================================================================
