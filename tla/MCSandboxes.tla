---------------------------- MODULE MCSandboxes ----------------------------
(***************************************************************************)
(* Small hosts for Sandboxes.                                              *)
(***************************************************************************)
EXTENDS Sandboxes, TLC

\* Requests, slots, ids and names are all alike.
Symmetry == Permutations(Tasks) \cup Permutations(Slots)
              \cup Permutations(Ids) \cup Permutations(Names)
=============================================================================
