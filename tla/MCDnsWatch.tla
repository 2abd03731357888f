----------------------------- MODULE MCDnsWatch -----------------------------
(* DnsWatch for TLC.                                                       *)
EXTENDS DnsWatch, TLC
=============================================================================
