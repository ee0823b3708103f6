-------------------------- MODULE MCClientSession --------------------------
(***************************************************************************)
(* ClientSession on small sets of interchangeable clients, keys, values.   *)
(* The unit tests of the messages and of the handler that ClientSession    *)
(* takes at their word are evaluated first.                                *)
(***************************************************************************)
EXTENDS ClientSession, UnitTests, TLC

Symmetry == Permutations(Clients) \cup Permutations(Keys) \cup Permutations(Values)
=============================================================================
