-------------------------- MODULE MCCredentialStore --------------------------
(* CredentialStore on a small instance: the processes are interchangeable. *)
EXTENDS CredentialStore, TLC

ProcSymmetry == Permutations(Procs)

=============================================================================
