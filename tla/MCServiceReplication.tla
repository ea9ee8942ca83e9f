------------------------ MODULE MCServiceReplication ------------------------
(* ServiceReplication on a small instance: the publishers are interchangeable. *)
EXTENDS ServiceReplication, TLC

PublisherSymmetry == Permutations(Publishers)

=============================================================================
