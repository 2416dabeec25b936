------------------------- MODULE MCTransferManager --------------------------
(***************************************************************************)
(* Two runs of one transfer id (the second call of a plugin with the same  *)
(* transferId, or one after the other), two permits, one node.             *)
(***************************************************************************)
EXTENDS TransferManager

MCCallSets ==
    {{"queue", "limit"}, {"queue", "shutdown"}, {"pause", "shutdown"},
     {"watch", "list", "shutdown"}, {"pause", "interrupt", "watch"},
     {"pause", "cancel"}}
=============================================================================
