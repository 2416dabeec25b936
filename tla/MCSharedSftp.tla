---------------------------- MODULE MCSharedSftp ----------------------------
(* TLC instances of SharedSftp. *)
EXTENDS SharedSftp, TLC

\* Clients are interchangeable, and so are the tasks that clear the transport.
Symmetry == Permutations(Clients) \union Permutations(ClearTasks)
=============================================================================
