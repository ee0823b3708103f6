----------------------- MODULE MCConnectionLifecycle -----------------------
(***************************************************************************)
(* ConnectionLifecycle on a small set of interchangeable sessions.         *)
(***************************************************************************)
EXTENDS ConnectionLifecycle, TLC

Symmetry == Permutations(Sessions)
=============================================================================
