------------------------- MODULE MCArtifactLifecycle -------------------------
(* Small instances of ArtifactLifecycle for TLC. *)
EXTENDS ArtifactLifecycleInv

AllFaultPoints ==
  {"StageWrite", "StageSync", "PublishInsert", "AdvanceIntent", "RenameBarrier",
   "Rename", "Finalize", "SafeRemove", "FinishIntent", "PublishDeleteRow", "Cancel",
   "UpdateRejected", "UpdateCommit", "Snapshot", "Prune", "RestoreSnapshot",
   "UpdateRevert", "TempRemoveBarrier", "TempRemove", "DeleteRow", "Remove",
   "DeleteAdvance", "Crash"}

\* Without the failure of the last intent update of a delete (trash.rs:253), which
\* records a completed delete as compensated.
AtomicFaultPoints == AllFaultPoints \ {"DeleteAdvance"}
=============================================================================
