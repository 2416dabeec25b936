---------------------------- MODULE MCForwarding ----------------------------
(***************************************************************************)
(* Two tasks, a local and a remote rule, two connections.                  *)
(***************************************************************************)
EXTENDS Forwarding, TLC

MCPortOf == [r \in Rules |-> "p"]

\* Tasks and connections are interchangeable.
Symmetry == Permutations(Tasks) \union Permutations(Connections)

MCCallSets ==
    {{"stop", "restart", "delete"}, {"stop", "suspend", "restore", "update"},
     {"delete", "restore"}, {"remove", "stop"}, {"shutdown", "register", "stop"},
     {"clear", "suspend"}, {"stop_all", "register"}}
=============================================================================
