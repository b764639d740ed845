----------------------------- MODULE MCMdtpData -----------------------------
\* The paths of a connection for the model checker, with what m_lastPathIndex
\* may hold at first and what stray bytes may read as: "no number" or another.
EXTENDS MdtpData

CONSTANTS p1, p2, p3

BelowZero == {-2}
NearZero == {-1, 0}
Strays == [b \in Bytes(MaxSends) |-> {0, 2}]
=============================================================================
