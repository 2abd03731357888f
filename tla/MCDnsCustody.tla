---------------------------- MODULE MCDnsCustody ----------------------------
(* DnsCustody for TLC.                                                     *)
EXTENDS DnsCustody, TLC
=============================================================================
