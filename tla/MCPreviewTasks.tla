--------------------------- MODULE MCPreviewTasks ---------------------------
(* Two bodies of one and two bytes, so that the byte limit and the job     *)
(* limit bind at different times.                                          *)
EXTENDS PreviewTasks, TLC

CONSTANTS b1, b2

MCBodies == {b1, b2}
MCBytes  == b1 :> 1 @@ b2 :> 2

=============================================================================
