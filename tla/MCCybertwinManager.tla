------------------------- MODULE MCCybertwinManager -------------------------
\* Hosts for the model checker: the first two have the same name.
EXTENDS CybertwinManager, TLC

CONSTANTS h1, h2, h3, n1, n2, n3, k1, k2, k3

SharedName == (h1 :> n1) @@ (h2 :> n1)
OneId == (n1 :> k1)

OwnNames == (h1 :> n1) @@ (h2 :> n2) @@ (h3 :> n3)
ThreeIds == (n1 :> k1) @@ (n2 :> k2) @@ (n3 :> k3)
=============================================================================
