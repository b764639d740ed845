----------------------------- MODULE MCDownload -----------------------------
EXTENDS Download, TLC

CONSTANTS k1, k2, c1, c2, s1, s2, if1, if2

\* Two clients of the host, each with a server of its own.
Targets == k1 :> s1 @@ k2 :> s2
Interfaces == s1 :> if1 @@ s2 :> if2
Sizes == s1 :> 3 @@ s2 :> 1
=============================================================================
