------------------------- MODULE MCHelperLifecycle -------------------------
(* HelperLifecycle for TLC.                                                *)
EXTENDS HelperLifecycle
=============================================================================
