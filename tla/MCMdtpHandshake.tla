--------------------------- MODULE MCMdtpHandshake ---------------------------
EXTENDS MdtpHandshake

CONSTANTS c1, c2, p1, p2, p3

\* A client with two paths next to a client with one.
TwoClients == [p \in {p1, p2, p3} |-> IF p = p3 THEN c2 ELSE c1]
=============================================================================
