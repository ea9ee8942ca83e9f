---------------------------- MODULE MCHarnessLane ----------------------------
(* HarnessLane on a small instance: the clients are interchangeable. *)
EXTENDS HarnessLane

ClientSymmetry == Permutations(Clients)

=============================================================================
