------------------------------- MODULE MCCnrs -------------------------------
EXTENDS Cnrs

CONSTANTS root, mid, a, b

\* Two edge servers below a core server below the root; each draws its own
\* query id (the ids are 32-bit random numbers in the code).
Tree == [n \in {root, mid, a, b} |->
           CASE n = root -> NoNode
             [] n = mid -> root
             [] OTHER -> mid]
Pools == [n \in {root, mid, a, b} |->
           CASE n = root -> {0}
             [] n = mid -> {1}
             [] n = a -> {2}
             [] OTHER -> {3}]
=============================================================================
