---------------------------- MODULE MCDnsStoreKey ----------------------------
(* DnsStoreKey for TLC.                                                    *)
EXTENDS DnsStoreKey
=============================================================================
