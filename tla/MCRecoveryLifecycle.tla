------------------------ MODULE MCRecoveryLifecycle ------------------------
(* Instances of RecoveryLifecycle for TLC.                                 *)
EXTENDS RecoveryLifecycleInv, TLC
=============================================================================
