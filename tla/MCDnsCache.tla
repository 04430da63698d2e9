----------------------------- MODULE MCDnsCache -----------------------------
(* Three names compete for two entries of a short-lived cache.             *)
EXTENDS DnsCache, TLC

CONSTANTS n1, n2, n3, t1, t2

MCSymmetry == Permutations(Names) \cup Permutations(Tasks)
=============================================================================
