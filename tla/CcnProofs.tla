------------------------------ MODULE CcnProofs ------------------------------
(***************************************************************************)
(* Proofs about Ccn, for any nodes, names, files and prefix table, any     *)
(* number of consumers and producers and any number of losses.             *)
(*                                                                         *)
(* Interests for a name travel on one link, from the asker to the host of  *)
(* the name, and data on the one back (RouteInv).  Each consumer asks      *)
(* once, and what it asked for is an interest on its way or one copy of    *)
(* the file (BudgetInv).  A file is sent without a gap, so that a piece    *)
(* which is not the last is followed by the next one, in the link or from  *)
(* the consumer's last piece to the head of the link (FlowInv).            *)
(***************************************************************************)
EXTENDS Ccn, FiniteSetTheorems, TLAPS

HostOf(x) == GetHostAddressFromContentName(x)

\* A piece that is not full is the last of its file.
Whole(d) == d.bytes < ChunkLen => Ends(d)

\* Piece b of a file comes after the full piece a.
Continues(a, b) ==
    b.by = a.by /\ a.bytes = ChunkLen /\ b.offset = a.offset + a.bytes

Last(s) == s[Len(s)]

ConsumersHome ==
    \A n \in Node : \A c \in Elems(consumers[n]) : ConsumerNode[c] = n

\* The first consumer of name x on node n, in the tables cs.
FirstOf(cs, n, x) == First(cs[n], ConsumersOf[x])

\* Where a packet from s to n may be, if the consumers are cs.
OnRoute(cs, s, n, m) ==
    /\ m.type = "INTEREST" => n = HostOf(m.name) /\ FirstOf(cs, s, m.name) # {}
    /\ m.type = "DATA" => /\ s = HostOf(m.name) /\ FirstOf(cs, n, m.name) # {}
                          /\ m.name = ContentName(m.chunk.by) /\ Whole(m.chunk)

RouteInv ==
    \A s, n \in Node : \A i \in DOMAIN net[<<s, n>>] :
        OnRoute(consumers, s, n, net[<<s, n>>][i])

\* Only the first consumer of a name is given anything.
GivenInv ==
    \A c \in Consumer : \A i \in DOMAIN received[c] :
        /\ c \in FirstOf(consumers, ConsumerNode[c], Wanted[c])
        /\ HostOf(Wanted[c]) \in Node
        /\ ContentName(received[c][i].by) = Wanted[c] /\ Whole(received[c][i])

Count(s, x) == Cardinality(At(s, x))

\* Interests that are still to be answered, pieces on the way and pieces
\* that were given.
Budget(c, d) ==
    LET n == ConsumerNode[c]
        x == Wanted[c]
        h == HostOf(x)
    IN Count(received[c], d) + Count(net[<<h, n>>], Data(x, d))
          + Count(net[<<n, h>>], Interest(x))

BudgetInv ==
    \A c \in Consumer, d \in Chunk : HostOf(Wanted[c]) \in Node =>
        Budget(c, d) <= Cardinality(Asking(ConsumerNode[c], Wanted[c]))

\* The packets of a link hold whole files, but for the one that is arriving.
Seamless(s) ==
    \A i \in DOMAIN s : s[i].type = "DATA" =>
        /\ s[i].chunk.bytes = ChunkLen =>
              /\ i + 1 \in DOMAIN s /\ s[i + 1].type = "DATA"
              /\ Continues(s[i].chunk, s[i + 1].chunk)
        /\ i > 1 /\ s[i].chunk.offset # 0 =>
              s[i - 1].type = "DATA" /\ Continues(s[i - 1].chunk, s[i].chunk)

\* Packet m is inside a file.
Inner(m) == m.type = "DATA" /\ m.chunk.offset # 0

HeadFlow(s, n) ==
    LET m == net[<<s, n>>][1]
    IN net[<<s, n>>] # <<>> /\ Inner(m) =>
          \A c \in FirstOf(consumers, n, m.name) :
             received[c] # <<>> /\ Continues(Last(received[c]), m.chunk)

OpenFlow(c) ==
    LET l == <<HostOf(Wanted[c]), ConsumerNode[c]>>
    IN received[c] # <<>> /\ Last(received[c]).bytes = ChunkLen =>
          /\ net[l] # <<>> /\ net[l][1].type = "DATA"
          /\ Continues(Last(received[c]), net[l][1].chunk)

FlowInv ==
    losses = 0 => /\ \A s, n \in Node : Seamless(net[<<s, n>>]) /\ HeadFlow(s, n)
                  /\ \A c \in Consumer : OpenFlow(c)

CInv ==
    /\ TypeOK /\ ConsumersHome /\ RouteInv /\ GivenInv /\ BudgetInv
    /\ FlowInv /\ ContentIntact

-----------------------------------------------------------------------------
(* Numbers and searches.                                                   *)

\* Induction over the naturals, in the form of a set that 0 is in and that
\* is closed under the successor: a number n outside would make the part
\* of the set below n a finite set with an injection into a smaller one.
LEMMA NatInd ==
    ASSUME NEW S \in SUBSET Nat, 0 \in S, \A k \in S : k + 1 \in S, NEW n \in Nat
    PROVE  n \in S
<1> SUFFICES ASSUME n \notin S PROVE FALSE
  OBVIOUS
<1> DEFINE F == {x \in S : x <= n}
           g == [x \in F |-> x + 1]
<1>1. F \in SUBSET Nat /\ \A x \in F : x <= n
  OBVIOUS
<1>2. IsFiniteSet(F)
  BY <1>1, FS_BoundedSetOfNaturals
<1>3. \A x \in F : x + 1 \in F \ {0}
  OBVIOUS
<1>4. 0 \in F
  OBVIOUS
<1>5. g \in Injection(F, F \ {0})
  <2>1. g \in [F -> F \ {0}]
    BY <1>3
  <2>2. \A x, y \in F : g[x] = g[y] => x = y
    BY <1>1
  <2> QED
    BY <2>1, <2>2 DEF Injection, IsInjective
<1>6. IsFiniteSet(F \ {0}) /\ Cardinality(F \ {0}) = Cardinality(F) - 1
  BY <1>2, <1>4, FS_RemoveElement
<1>7. Cardinality(F) <= Cardinality(F \ {0})
  BY <1>5, <1>6, FS_Injection
<1>8. Cardinality(F) \in Nat
  BY <1>2, FS_CardinalityType
<1> HIDE DEF F
<1> QED
  BY <1>6, <1>7, <1>8

\* A set of naturals has a least member.
LEMMA Least ==
    ASSUME NEW T \in SUBSET Nat, NEW n \in T
    PROVE  \E m \in T : \A k \in T : m <= k
<1> SUFFICES ASSUME \A m \in T : \E k \in T : k < m PROVE FALSE
  OBVIOUS
<1> DEFINE S == {x \in Nat : \A k \in T : x < k}
<1>1. S \in SUBSET Nat /\ 0 \in S
  OBVIOUS
<1>2. ASSUME NEW x \in S PROVE x + 1 \in S
  <2>1. x \in Nat /\ \A k \in T : x + 1 <= k
    OBVIOUS
  <2>2. x + 1 \notin T
    BY <2>1
  <2> QED
    BY <2>1, <2>2
<1>3. n \in S
  <2> HIDE DEF S
  <2> QED
    BY <1>1, <1>2, NatInd
<1> QED
  BY <1>3

\* A search finds a member of the set, and one only.
LEMMA FirstFacts ==
    ASSUME NEW R, NEW s \in Seq(R), NEW S
    PROVE  /\ First(s, S) \subseteq Elems(s) \cap S
           /\ First(s, S) \subseteq R
           /\ \A x, y \in First(s, S) : x = y
           /\ \A x \in Elems(s) \cap S : First(s, S) # {}
<1>1. First(s, S) \subseteq Elems(s) \cap S
  BY DEF First, Elems
<1>2. Elems(s) \subseteq R
  BY DEF Elems
<1>3. ASSUME NEW x \in First(s, S), NEW y \in First(s, S) PROVE x = y
  <2>1. PICK i \in DOMAIN s : /\ x = s[i] /\ s[i] \in S
                              /\ \A k \in 1..(i - 1) : s[k] \notin S
    BY DEF First
  <2>2. PICK j \in DOMAIN s : /\ y = s[j] /\ s[j] \in S
                              /\ \A k \in 1..(j - 1) : s[k] \notin S
    BY DEF First
  <2>3. i \in Nat \ {0} /\ j \in Nat \ {0}
    OBVIOUS
  <2>4. ~(i < j) /\ ~(j < i)
    BY <2>1, <2>2, <2>3
  <2> QED
    BY <2>1, <2>2, <2>3, <2>4
<1>4. ASSUME NEW x \in Elems(s) \cap S PROVE First(s, S) # {}
  <2> DEFINE T == {i \in DOMAIN s : s[i] \in S}
  <2>1. PICK i \in DOMAIN s : s[i] = x
    BY DEF Elems
  <2>2. i \in T /\ T \in SUBSET Nat
    BY <2>1
  <2>3. PICK m \in T : \A k \in T : m <= k
    <3> HIDE DEF T
    <3> QED
      BY <2>2, Least
  <2>4. m \in DOMAIN s /\ s[m] \in S /\ \A k \in 1..(m - 1) : s[k] \notin S
    BY <2>3
  <2> QED
    BY <2>4 DEF First
<1> QED
  BY <1>1, <1>2, <1>3, <1>4

\* A search that succeeded finds the same when more is appended.
LEMMA FirstAppend ==
    ASSUME NEW R, NEW s \in Seq(R), NEW e \in R, NEW S
    PROVE  /\ First(s, S) # {} => First(Append(s, e), S) = First(s, S)
           /\ e \in S => First(Append(s, e), S) # {}
           /\ Elems(Append(s, e)) = Elems(s) \cup {e}
<1> DEFINE t == Append(s, e)
<1>1. /\ t \in Seq(R) /\ Len(s) \in Nat /\ DOMAIN s = 1..Len(s)
      /\ DOMAIN t = 1..(Len(s) + 1) /\ t[Len(s) + 1] = e
      /\ \A i \in 1..Len(s) : t[i] = s[i]
  OBVIOUS
<1> HIDE DEF t
<1>2. Elems(t) = Elems(s) \cup {e}
  BY <1>1 DEF Elems
<1>3. First(s, S) \subseteq First(t, S)
  <2> SUFFICES ASSUME NEW x \in First(s, S) PROVE x \in First(t, S)
    OBVIOUS
  <2>1. PICK i \in DOMAIN s : /\ x = s[i] /\ s[i] \in S
                              /\ \A k \in 1..(i - 1) : s[k] \notin S
    BY DEF First
  <2>2. i \in DOMAIN t /\ t[i] = s[i] /\ \A k \in 1..(i - 1) : t[k] = s[k]
    BY <1>1
  <2> QED
    BY <2>1, <2>2 DEF First
<1>4. \A x, y \in First(t, S) : x = y
  BY <1>1, FirstFacts
<1>5. e \in S => First(t, S) # {}
  <2>1. e \in Elems(t)
    BY <1>2
  <2> QED
    BY <1>1, <2>1, FirstFacts
<1> QED
  BY <1>2, <1>3, <1>4, <1>5 DEF t

-----------------------------------------------------------------------------
(* Names and files.                                                        *)

\* The recursion of the search has a solution.
LEMMA SearchExists ==
    ASSUME NEW x, NEW n \in Nat
    PROVE  \E g : g = [k \in 0..n |-> IF k = 0 THEN NoNode
                                     ELSE IF Known(x, k) THEN HostTable[SubSeq(x, 1, k)]
                                     ELSE g[k - 1]]
<1> DEFINE Pass(k, a) == IF Known(x, k) THEN HostTable[SubSeq(x, 1, k)] ELSE a
           Solves(g, m) == /\ DOMAIN g = 0..m /\ g[0] = NoNode
                           /\ \A k \in 1..m : g[k] = Pass(k, g[k - 1])
           S == {m \in Nat : \E g : g = [k \in 0..m |-> g[k]] /\ Solves(g, m)}
<1> HIDE DEF Pass
<1>1. 0 \in S
  <2> DEFINE g == [k \in 0..0 |-> NoNode]
  <2>1. g = [k \in 0..0 |-> g[k]] /\ Solves(g, 0)
    OBVIOUS
  <2> QED
    BY <2>1
<1>2. ASSUME NEW m \in S PROVE m + 1 \in S
  <2>1. m \in Nat
    OBVIOUS
  <2>2. PICK g : g = [k \in 0..m |-> g[k]] /\ Solves(g, m)
    OBVIOUS
  <2> DEFINE h == [k \in 0..(m + 1) |-> IF k <= m THEN g[k] ELSE Pass(m + 1, g[m])]
  <2>3. Solves(h, m + 1)
    <3>1. DOMAIN h = 0..(m + 1) /\ h[0] = NoNode
      BY <2>1, <2>2
    <3>2. ASSUME NEW k \in 1..(m + 1) PROVE h[k] = Pass(k, h[k - 1])
      <4>1. CASE k <= m
        <5>1. k \in 1..m /\ k \in 0..(m + 1) /\ k - 1 \in 0..(m + 1) /\ k - 1 <= m
          BY <2>1, <4>1
        <5>2. h[k] = g[k] /\ h[k - 1] = g[k - 1]
          BY <4>1, <5>1, Zenon
        <5>3. g[k] = Pass(k, g[k - 1])
          BY <2>2, <5>1
        <5> HIDE DEF h
        <5> QED
          BY <5>2, <5>3
      <4>2. CASE k = m + 1
        <5>1. h[m] = g[m]
          BY <2>1
        <5>2. m + 1 \in 0..(m + 1) /\ ~(m + 1 <= m) /\ k - 1 = m
          BY <2>1, <4>2
        <5>3. h[m + 1] = Pass(m + 1, g[m])
          BY <5>2, Zenon
        <5> HIDE DEF h
        <5> QED
          BY <4>2, <5>1, <5>2, <5>3
      <4>3. k <= m \/ k = m + 1
        BY <2>1
      <4> QED
        BY <4>1, <4>2, <4>3
    <3> QED
      BY <3>1, <3>2
  <2>4. h = [k \in 0..(m + 1) |-> h[k]]
    OBVIOUS
  <2>5. m + 1 \in Nat
    BY <2>1
  <2> HIDE DEF h, Solves
  <2>6. \E e : e = [k \in 0..(m + 1) |-> e[k]] /\ Solves(e, m + 1)
    BY <2>3, <2>4
  <2> QED
    BY <2>5, <2>6, Zenon
<1>3. n \in S
  <2>1. S \in SUBSET Nat /\ \A k \in S : k + 1 \in S
    BY <1>2
  <2> HIDE DEF S
  <2> QED
    BY <1>1, <2>1, NatInd
<1>4. PICK g : g = [k \in 0..n |-> g[k]] /\ Solves(g, n)
  BY <1>3
<1>5. \A k \in 0..n : g[k] = IF k = 0 THEN NoNode ELSE Pass(k, g[k - 1])
  <2>1. g[0] = NoNode /\ \A k \in 1..n : g[k] = Pass(k, g[k - 1])
    BY <1>4
  <2>2. \A k \in 0..n : k = 0 \/ k \in 1..n
    OBVIOUS
  <2> QED
    BY <2>1, <2>2, Zenon
<1>6. g = [k \in 0..n |-> IF k = 0 THEN NoNode ELSE Pass(k, g[k - 1])]
  <2> HIDE DEF Solves
  <2> QED
    BY <1>4, <1>5
<1> QED
  BY <1>6 DEF Pass

\* The passes of the loop, one after the other.
LEMMA SearchPasses ==
    ASSUME NEW x, Len(x) \in Nat
    PROVE  \E g : /\ HostOf(x) = g[Len(x)] /\ g[0] = NoNode
                  /\ \A k \in 1..Len(x) :
                        g[k] = IF Known(x, k) THEN HostTable[SubSeq(x, 1, k)]
                               ELSE g[k - 1]
<1> DEFINE n == Len(x)
           f == CHOOSE f : f = [k \in 0..n |-> IF k = 0 THEN NoNode
                                  ELSE IF Known(x, k) THEN HostTable[SubSeq(x, 1, k)]
                                  ELSE f[k - 1]]
<1>1. HostOf(x) = f[n]
  BY DEF HostOf, GetHostAddressFromContentName
<1>2. f = [k \in 0..n |-> IF k = 0 THEN NoNode
                          ELSE IF Known(x, k) THEN HostTable[SubSeq(x, 1, k)]
                          ELSE f[k - 1]]
  BY SearchExists
<1> HIDE DEF f
<1>3. /\ f[0] = NoNode
      /\ \A k \in 1..n : f[k] = IF Known(x, k) THEN HostTable[SubSeq(x, 1, k)]
                                ELSE f[k - 1]
  BY <1>2
<1> QED
  BY <1>1, <1>3

\* The search in the prefix table gives a node or none.
LEMMA HostType ==
    ASSUME NEW x \in Name
    PROVE  HostOf(x) \in Node \cup {NoNode}
<1>1. Len(x) \in Nat
  BY NameAssumption DEF Name
<1>2. PICK g : /\ HostOf(x) = g[Len(x)] /\ g[0] = NoNode
               /\ \A k \in 1..Len(x) :
                     g[k] = IF Known(x, k) THEN HostTable[SubSeq(x, 1, k)]
                            ELSE g[k - 1]
  BY <1>1, SearchPasses
<1> DEFINE S == {k \in Nat : k <= Len(x) => g[k] \in Node \cup {NoNode}}
<1>3. 0 \in S
  BY <1>2
<1>4. ASSUME NEW k \in S PROVE k + 1 \in S
  <2>1. SUFFICES ASSUME k + 1 <= Len(x) PROVE g[k + 1] \in Node \cup {NoNode}
    OBVIOUS
  <2>2. k + 1 \in 1..Len(x) /\ (k + 1) - 1 = k /\ g[k] \in Node \cup {NoNode}
    BY <1>1, <2>1
  <2>3. Known(x, k + 1) => HostTable[SubSeq(x, 1, k + 1)] \in Node
    BY NodeAssumption DEF Known
  <2> QED
    BY <1>2, <2>2, <2>3
<1>5. Len(x) \in S
  <2>1. S \in SUBSET Nat /\ \A k \in S : k + 1 \in S
    BY <1>4
  <2> HIDE DEF S
  <2> QED
    BY <1>1, <1>3, <2>1, NatInd
<1> QED
  BY <1>1, <1>2, <1>5

\* The loop, which overwrites the address at every prefix it finds, ends with
\* the host of the longest one, however the prefixes of the table overlap
\* (GetHostAddressFromContentName).
THEOREM LongestPrefixWins ==
    ASSUME NEW x \in Name, NEW k \in 1..(Len(x) - 1),
           SubSeq(x, 1, k) \in DOMAIN HostTable,
           \A j \in (k + 1)..(Len(x) - 1) : SubSeq(x, 1, j) \notin DOMAIN HostTable
    PROVE  GetHostAddressFromContentName(x) = HostTable[SubSeq(x, 1, k)]
<1>1. Len(x) \in Nat
  BY NameAssumption DEF Name
<1>2. PICK g : /\ HostOf(x) = g[Len(x)] /\ g[0] = NoNode
               /\ \A j \in 1..Len(x) :
                     g[j] = IF Known(x, j) THEN HostTable[SubSeq(x, 1, j)]
                            ELSE g[j - 1]
  BY <1>1, SearchPasses
<1> DEFINE top == HostTable[SubSeq(x, 1, k)]
           S == {d \in Nat : k + d <= Len(x) => g[k + d] = top}
<1> HIDE DEF top
<1>3. 0 \in S
  <2>1. k \in 1..Len(x) /\ k + 0 = k /\ Known(x, k)
    BY <1>1 DEF Known
  <2> QED
    BY <1>2, <2>1 DEF top
<1>4. ASSUME NEW d \in S PROVE d + 1 \in S
  <2>1. SUFFICES ASSUME k + (d + 1) <= Len(x) PROVE g[k + (d + 1)] = top
    OBVIOUS
  <2> DEFINE j == k + (d + 1)
  <2>2. j \in 1..Len(x) /\ j - 1 = k + d /\ g[k + d] = top
    BY <1>1, <2>1
  <2>3. ~Known(x, j)
    <3>1. j < Len(x) => j \in (k + 1)..(Len(x) - 1)
      BY <1>1, <2>1
    <3> QED
      BY <3>1 DEF Known
  <2> HIDE DEF j
  <2>4. g[j] = top
    BY <1>2, <2>2, <2>3
  <2> QED
    BY <2>4 DEF j
<1>5. Len(x) - k \in S
  <2>1. S \in SUBSET Nat /\ (\A d \in S : d + 1 \in S) /\ Len(x) - k \in Nat
    BY <1>1, <1>4
  <2> HIDE DEF S
  <2> QED
    BY <1>3, <2>1, NatInd
<1>6. g[Len(x)] = top
  <2>1. k + (Len(x) - k) = Len(x)
    BY <1>1
  <2> QED
    BY <1>1, <1>5, <2>1
<1> QED
  BY <1>2, <1>6 DEF HostOf, top

\* Multiples of a positive number.
LEMMA Multiples ==
    ASSUME NEW L \in Nat \ {0}, NEW a \in Nat, NEW b \in Nat
    PROVE  /\ a * L \in Nat /\ (a + 1) * L = a * L + L /\ a * L = L * a
           /\ a * L = b * L => a = b
           /\ a # 0 => a * L # 0
<1>1. /\ a * L \in Nat /\ b * L \in Nat /\ (a + 1) * L = a * L + L /\ a * L = L * a
      /\ a # 0 => a * L # 0
  OBVIOUS
<1>2. (a - b) * L = a * L - b * L
  OBVIOUS
<1>3. (a - b) * L = 0 => a - b = 0
  OBVIOUS
<1> QED
  BY <1>1, <1>2, <1>3

\* The pieces of a file: all are full but the last, which ends where the file
\* ends, and each starts where the one before it ends.
LEMMA ChunksFacts ==
    ASSUME NEW p \in Producer, FileSize[p] \in Nat
    PROVE  \E K \in Nat \ {0} :
             /\ Chunks(p) \in [1..K -> Chunk]
             /\ \A k \in 1..K : Chunks(p)[k].by = p /\ Whole(Chunks(p)[k])
             /\ Chunks(p)[1].offset = 0
             /\ \A k \in 1..K : Chunks(p)[k].bytes = ChunkLen => k + 1 \in 1..K
             /\ \A k \in 1..(K - 1) : Continues(Chunks(p)[k], Chunks(p)[k + 1])
             /\ \A j, k \in 1..K : Chunks(p)[j] = Chunks(p)[k] => j = k
<1> DEFINE F == FileSize[p]
           L == ChunkLen
           q == F \div L
           r == F % L
           K == q + 1
           C == Chunks(p)
<1>1. L \in Nat \ {0} /\ F \in Nat
  BY LengthAssumption
<1>2. q \in Nat /\ r \in 0..(L - 1) /\ F = L * q + r
  BY <1>1
<1>3. C = [k \in 1..K |-> [by |-> p, offset |-> (k - 1) * L,
                           bytes |-> IF k <= q THEN L ELSE r]]
  BY DEF Chunks
<1>13. \A k \in 1..K : C[k] = [by |-> p, offset |-> (k - 1) * L,
                                bytes |-> IF k <= q THEN L ELSE r]
  BY <1>3
<1> HIDE DEF C, q, r, F
<1>4. ASSUME NEW k \in 1..K
      PROVE  /\ C[k].by = p /\ C[k].offset = (k - 1) * L
             /\ k <= q => C[k].bytes = L
             /\ ~(k <= q) => C[k].bytes = r
  <2> DEFINE o == (k - 1) * L
             b == IF k <= q THEN L ELSE r
  <2>1. C[k] = [by |-> p, offset |-> o, bytes |-> b]
    BY <1>13
  <2>2. (k <= q => b = L) /\ (~(k <= q) => b = r)
    OBVIOUS
  <2>3. o = (k - 1) * L
    OBVIOUS
  <2> HIDE DEF o, b
  <2>4. C[k].by = p /\ C[k].offset = o /\ C[k].bytes = b
    BY <2>1
  <2> QED
    BY <2>2, <2>3, <2>4
<1>14. ASSUME NEW k \in 1..K PROVE (k - 1) * L \in Nat
  <2>1. k - 1 \in Nat
    BY <1>2
  <2> HIDE DEF L
  <2> QED
    BY <1>1, <2>1, Multiples
<1>5. C \in [1..K -> Chunk]
  <2>1. ASSUME NEW k \in 1..K PROVE C[k] \in Chunk
    <3> DEFINE o == (k - 1) * L
               b == IF k <= q THEN L ELSE r
    <3>1. o \in Nat /\ b \in 0..ChunkLen
      BY <1>1, <1>2, <1>14
    <3>2. C[k] = [by |-> p, offset |-> o, bytes |-> b]
      BY <1>13
    <3> HIDE DEF o, b
    <3> QED
      BY <3>1, <3>2 DEF Chunk
  <2>2. C = [k \in 1..K |-> C[k]]
    BY <1>3
  <2> QED
    BY <2>1, <2>2
<1>6. ASSUME NEW k \in 1..K PROVE Whole(C[k])
  <2>1. CASE k <= q
    BY <1>1, <1>4, <2>1 DEF Whole
  <2>2. CASE ~(k <= q)
    <3>1. k - 1 = q
      BY <1>2, <2>2
    <3>2. q * L = L * q
      BY <1>1, <1>2, Multiples
    <3>3. C[k].offset + C[k].bytes = F
      BY <1>1, <1>2, <1>4, <2>2, <3>1, <3>2
    <3> QED
      BY <1>4, <3>3 DEF Whole, Ends, F
  <2> QED
    BY <2>1, <2>2
<1>7. C[1].offset = 0
  <2>1. 1 \in 1..K /\ (1 - 1) * L = 0
    BY <1>1, <1>2
  <2> QED
    BY <1>4, <2>1
<1>8. ASSUME NEW k \in 1..K, C[k].bytes = ChunkLen PROVE k + 1 \in 1..K
  <2>1. k <= q
    BY <1>1, <1>2, <1>4, <1>8
  <2> QED
    BY <1>2, <2>1
<1>9. ASSUME NEW k \in 1..(K - 1) PROVE Continues(C[k], C[k + 1])
  <2>1. k \in 1..K /\ k + 1 \in 1..K /\ k <= q /\ k - 1 \in Nat
    BY <1>2
  <2>2. ((k - 1) + 1) * L = (k - 1) * L + L
    BY <1>1, <2>1, Multiples
  <2>3. (k + 1) - 1 = (k - 1) + 1
    BY <2>1
  <2>4. /\ C[k].offset = (k - 1) * L /\ C[k].bytes = L /\ C[k].by = p
        /\ C[k + 1].offset = ((k + 1) - 1) * L /\ C[k + 1].by = p
    BY <1>4, <2>1
  <2> QED
    BY <2>2, <2>3, <2>4 DEF Continues
<1>10. ASSUME NEW j \in 1..K, NEW k \in 1..K, C[j] = C[k] PROVE j = k
  <2>1. (j - 1) * L = (k - 1) * L /\ j - 1 \in Nat /\ k - 1 \in Nat
    <3>1. C[j].offset = (j - 1) * L /\ C[k].offset = (k - 1) * L
      BY <1>4
    <3>2. j - 1 \in Nat /\ k - 1 \in Nat
      BY <1>2
    <3> QED
      BY <1>10, <3>1, <3>2
  <2>2. j - 1 = k - 1
    BY <1>1, <2>1, Multiples
  <2> QED
    BY <1>2, <2>2
<1>11. \A k \in 1..K : C[k].by = p
  BY <1>4
<1>12. K \in Nat \ {0}
  BY <1>2
<1> HIDE DEF K, L
<1> QED
  BY <1>5, <1>6, <1>7, <1>8, <1>9, <1>10, <1>11, <1>12 DEF C, L

\* Data packets by their fields.
LEMMA DataFields ==
    ASSUME NEW x, NEW d
    PROVE  /\ Data(x, d).type = "DATA" /\ Data(x, d).name = x
           /\ Data(x, d).chunk = d
           /\ x \in Name /\ d \in Chunk => Data(x, d) \in Packet
<1>1. Data(x, d).type = "DATA" /\ Data(x, d).name = x /\ Data(x, d).chunk = d
  BY DEF Data
<1>2. ASSUME x \in Name, d \in Chunk PROVE Data(x, d) \in Packet
  <2> HIDE DEF Name, Chunk
  <2> QED
    BY <1>2 DEF Data, Packet
<1> QED
  BY <1>1, <1>2

\* Interests by their fields.
LEMMA InterestFields ==
    ASSUME NEW x
    PROVE  /\ Interest(x).type = "INTEREST" /\ Interest(x).name = x
           /\ x \in Name => Interest(x) \in Packet
  BY DEF Interest, Packet

\* The two kinds of packets.
LEMMA PacketKinds ==
    ASSUME NEW m \in Packet
    PROVE  /\ m.name \in Name
           /\ \/ m.type = "INTEREST" /\ m = Interest(m.name)
              \/ /\ m.type = "DATA" /\ m.chunk \in Chunk
                 /\ m = Data(m.name, m.chunk)
<1> HIDE DEF Name, Chunk
<1>1. CASE m \in [type : {"INTEREST"}, name : Name]
  BY <1>1 DEF Interest
<1>2. CASE m \in [type : {"DATA"}, name : Name, chunk : Chunk]
  BY <1>2 DEF Data
<1> QED
  BY <1>1, <1>2 DEF Packet

\* An answer is one whole file of the name, from its first piece on.
LEMMA AnswerFacts ==
    ASSUME NEW n \in Node, NEW x \in Name, producers[n] \in Seq(Producer)
    PROVE  /\ Answer(n, x) \in Seq(Packet)
           /\ \A i \in DOMAIN Answer(n, x) :
                 /\ Answer(n, x)[i].type = "DATA" /\ Answer(n, x)[i].name = x
                 /\ x = ContentName(Answer(n, x)[i].chunk.by)
                 /\ Whole(Answer(n, x)[i].chunk)
           /\ \A i, j \in DOMAIN Answer(n, x) :
                 Answer(n, x)[i] = Answer(n, x)[j] => i = j
           /\ Seamless(Answer(n, x))
           /\ Answer(n, x) # <<>> => ~Inner(Answer(n, x)[1])
<1> DEFINE serving == First(producers[n], ProducersOf[x])
           p == CHOOSE q \in serving : TRUE
           v == Answer(n, x)
<1>1. CASE serving = {} \/ FileSize[p] = NoFile
  <2>1. v = <<>>
    BY <1>1 DEF Answer, SendContentResponse
  <2>2. v \in Seq(Packet) /\ DOMAIN v = {}
    BY <2>1
  <2> HIDE DEF v
  <2> QED
    BY <2>1, <2>2 DEF Seamless, v
<1>2. CASE serving # {} /\ FileSize[p] # NoFile
  <2>1. p \in serving
    BY <1>2
  <2>2. serving \subseteq Producer /\ serving \subseteq ProducersOf[x]
    BY FirstFacts
  <2>3. p \in Producer /\ ContentName(p) = x
    BY <2>1, <2>2 DEF ProducersOf
  <2>4. FileSize[p] \in Nat
    BY <1>2, <2>3, FileAssumption
  <2>5. v = [k \in DOMAIN Chunks(p) |-> Data(ContentName(p), Chunks(p)[k])]
    BY <1>2 DEF Answer, SendContentResponse
  <2> HIDE DEF p, serving, v
  <2> DEFINE C == Chunks(p)
  <2>6. PICK K \in Nat \ {0} :
             /\ C \in [1..K -> Chunk]
             /\ \A k \in 1..K : C[k].by = p /\ Whole(C[k])
             /\ C[1].offset = 0
             /\ \A k \in 1..K : C[k].bytes = ChunkLen => k + 1 \in 1..K
             /\ \A k \in 1..(K - 1) : Continues(C[k], C[k + 1])
             /\ \A j, k \in 1..K : C[j] = C[k] => j = k
    BY <2>3, <2>4, ChunksFacts
  <2>7. DOMAIN C = 1..K /\ v = [k \in 1..K |-> Data(x, C[k])]
    BY <2>3, <2>5, <2>6
  <2> HIDE DEF C
  <2>8. \A k \in 1..K : v[k] = Data(x, C[k]) /\ C[k] \in Chunk
    BY <2>6, <2>7
  <2>9. \A k \in 1..K : /\ v[k] \in Packet /\ v[k].type = "DATA"
                        /\ v[k].name = x /\ v[k].chunk = C[k]
    BY <2>8, DataFields
  <2>10. v \in [1..K -> Packet] /\ DOMAIN v = 1..K
    BY <2>7, <2>9
  <2>11. v \in Seq(Packet)
    BY <2>10
  <2>12. \A i, j \in DOMAIN v : v[i] = v[j] => i = j
    BY <2>6, <2>9, <2>10
  <2>13. Seamless(v)
    <3>1. ASSUME NEW i \in 1..K, i > 1 PROVE Continues(C[i - 1], C[i])
      <4>1. i - 1 \in 1..(K - 1) /\ (i - 1) + 1 = i
        BY <3>1
      <4> QED
        BY <2>6, <4>1
    <3>2. ASSUME NEW i \in 1..K, C[i].bytes = ChunkLen
          PROVE  i + 1 \in 1..K /\ Continues(C[i], C[i + 1])
      <4>1. i + 1 \in 1..K
        BY <2>6, <3>2
      <4>2. i \in 1..(K - 1)
        BY <4>1
      <4> QED
        BY <2>6, <4>1, <4>2
    <3>3. \A i \in 1..K : i > 1 => i - 1 \in 1..K
      OBVIOUS
    <3> QED
      BY <2>9, <2>10, <3>1, <3>2, <3>3 DEF Seamless
  <2>14. ~Inner(v[1])
    <3>1. 1 \in 1..K
      OBVIOUS
    <3> QED
      BY <2>6, <2>9, <3>1 DEF Inner
  <2>15. \A i \in DOMAIN v : x = ContentName(v[i].chunk.by) /\ Whole(v[i].chunk)
    BY <2>3, <2>6, <2>9, <2>10
  <2> QED
    BY <2>9, <2>10, <2>11, <2>12, <2>13, <2>14, <2>15 DEF v
<1> QED
  BY <1>1, <1>2

-----------------------------------------------------------------------------
(* Queues.                                                                 *)

\* The places of a member are finitely many.
LEMMA CountType ==
    ASSUME NEW R, NEW s \in Seq(R), NEW x
    PROVE  IsFiniteSet(At(s, x)) /\ Count(s, x) \in Nat
<1>1. IsFiniteSet(1..Len(s))
  BY FS_Interval
<1>2. At(s, x) \subseteq 1..Len(s)
  BY DEF At
<1> QED
  BY <1>1, <1>2, FS_Subset, FS_CardinalityType DEF Count

\* The members of a concatenation.
LEMMA JoinFacts ==
    ASSUME NEW R, NEW u \in Seq(R), NEW v \in Seq(R)
    PROVE  /\ u \o v \in Seq(R) /\ Len(u) \in Nat /\ Len(v) \in Nat
           /\ DOMAIN (u \o v) = 1..(Len(u) + Len(v))
           /\ DOMAIN u = 1..Len(u) /\ DOMAIN v = 1..Len(v)
           /\ \A i \in 1..Len(u) : (u \o v)[i] = u[i]
           /\ \A i \in 1..Len(v) : (u \o v)[Len(u) + i] = v[i]
           /\ \A i \in DOMAIN (u \o v) :
                 \/ i \in 1..Len(u) /\ (u \o v)[i] = u[i]
                 \/ i - Len(u) \in 1..Len(v) /\ (u \o v)[i] = v[i - Len(u)]
  OBVIOUS

\* Packets at the end of a queue add at most their own copies.
LEMMA CountJoin ==
    ASSUME NEW R, NEW u \in Seq(R), NEW v \in Seq(R), NEW x
    PROVE  /\ (\A i \in DOMAIN v : v[i] # x) => Count(u \o v, x) = Count(u, x)
           /\ (\A i, j \in DOMAIN v : v[i] = v[j] => i = j)
                 => Count(u \o v, x) <= Count(u, x) + 1
<1> DEFINE w == u \o v
<1>1. /\ w \in Seq(R) /\ Len(u) \in Nat /\ Len(v) \in Nat
      /\ DOMAIN w = 1..(Len(u) + Len(v)) /\ DOMAIN u = 1..Len(u)
      /\ DOMAIN v = 1..Len(v)
      /\ \A i \in 1..Len(u) : w[i] = u[i]
      /\ \A i \in 1..Len(v) : w[Len(u) + i] = v[i]
  BY JoinFacts
<1>2. \A i \in DOMAIN w : \/ i \in 1..Len(u) /\ w[i] = u[i]
                          \/ i - Len(u) \in 1..Len(v) /\ w[i] = v[i - Len(u)]
  BY JoinFacts
<1> HIDE DEF w
<1>3. At(u, x) \subseteq At(w, x)
  BY <1>1 DEF At
<1>4. ASSUME \A i \in DOMAIN v : v[i] # x PROVE Count(w, x) = Count(u, x)
  <2>1. At(w, x) \subseteq At(u, x)
    BY <1>1, <1>2, <1>4 DEF At
  <2>2. At(w, x) = At(u, x)
    BY <1>3, <2>1
  <2> QED
    BY <2>2 DEF Count
<1>5. ASSUME \A i, j \in DOMAIN v : v[i] = v[j] => i = j
      PROVE  Count(w, x) <= Count(u, x) + 1
  <2>1. CASE \A i \in DOMAIN v : v[i] # x
    BY <1>4, <2>1, CountType
  <2>2. CASE \E i \in DOMAIN v : v[i] = x
    <3>1. PICK k \in DOMAIN v : v[k] = x
      BY <2>2
    <3>2. At(w, x) \subseteq At(u, x) \cup {Len(u) + k}
      <4> SUFFICES ASSUME NEW i \in At(w, x), i \notin At(u, x)
                   PROVE  i = Len(u) + k
        OBVIOUS
      <4>1. i \in DOMAIN w /\ w[i] = x
        BY DEF At
      <4>2. i - Len(u) \in 1..Len(v) /\ w[i] = v[i - Len(u)]
        BY <1>1, <1>2, <4>1 DEF At
      <4>3. i - Len(u) = k
        BY <1>1, <1>5, <3>1, <4>1, <4>2
      <4> QED
        BY <1>1, <4>1, <4>3
    <3>3. IsFiniteSet(At(u, x)) /\ Count(u, x) \in Nat
      BY CountType
    <3>4. /\ IsFiniteSet(At(u, x) \cup {Len(u) + k})
          /\ Cardinality(At(u, x) \cup {Len(u) + k}) <= Count(u, x) + 1
      <4> DEFINE A == At(u, x)
                 y == Len(u) + k
      <4>1. IsFiniteSet(A) /\ Cardinality(A) \in Nat /\ Cardinality(A) = Count(u, x)
        BY <3>3 DEF Count
      <4> HIDE DEF A, y
      <4>2. /\ IsFiniteSet(A \cup {y})
            /\ Cardinality(A \cup {y}) =
                  IF y \in A THEN Cardinality(A) ELSE Cardinality(A) + 1
        BY <4>1, FS_AddElement
      <4>3. Cardinality(A \cup {y}) <= Count(u, x) + 1
        BY <4>1, <4>2
      <4> QED
        BY <4>2, <4>3 DEF A, y
    <3>5. Count(w, x) <= Cardinality(At(u, x) \cup {Len(u) + k})
      BY <3>2, <3>4, FS_Subset DEF Count
    <3>6. /\ Count(w, x) \in Nat
          /\ Cardinality(At(u, x) \cup {Len(u) + k}) \in Nat
      BY <1>1, <3>4, CountType, FS_CardinalityType
    <3> QED
      BY <3>3, <3>4, <3>5, <3>6
  <2> QED
    BY <2>1, <2>2
<1> QED
  BY <1>4, <1>5 DEF w

\* The head of a queue is one of its copies.
LEMMA CountTail ==
    ASSUME NEW R, NEW s \in Seq(R), s # <<>>, NEW x
    PROVE  /\ Count(Tail(s), x) <= Count(s, x)
           /\ s[1] = x => Count(Tail(s), x) <= Count(s, x) - 1
<1> DEFINE t == Tail(s)
           g == [i \in At(t, x) |-> i + 1]
<1>1. /\ t \in Seq(R) /\ Len(s) \in Nat \ {0} /\ DOMAIN s = 1..Len(s)
      /\ DOMAIN t = 1..(Len(s) - 1)
      /\ \A i \in 1..(Len(s) - 1) : t[i] = s[i + 1]
  OBVIOUS
<1> HIDE DEF t
<1>2. g \in Injection(At(t, x), At(s, x) \ {1})
  <2>1. \A i \in At(t, x) : i \in Nat \ {0} /\ i + 1 \in At(s, x) \ {1}
    BY <1>1 DEF At
  <2>2. g \in [At(t, x) -> At(s, x) \ {1}]
    BY <2>1
  <2>3. \A i, j \in At(t, x) : g[i] = g[j] => i = j
    BY <2>1
  <2> QED
    BY <2>2, <2>3 DEF Injection, IsInjective
<1>3. IsFiniteSet(At(s, x)) /\ Count(s, x) \in Nat /\ Count(t, x) \in Nat
  BY <1>1, CountType
<1>4. /\ IsFiniteSet(At(s, x) \ {1})
      /\ Cardinality(At(s, x) \ {1}) =
            IF 1 \in At(s, x) THEN Count(s, x) - 1 ELSE Count(s, x)
  BY <1>3, FS_RemoveElement DEF Count
<1> HIDE DEF g
<1>5. Count(t, x) <= Cardinality(At(s, x) \ {1})
  BY <1>2, <1>4, FS_Injection DEF Count
<1>6. 1 \in At(s, x) <=> s[1] = x
  BY <1>1 DEF At
<1> QED
  BY <1>3, <1>4, <1>5, <1>6 DEF t

\* Whole files stay whole when the first packet arrives ...
LEMMA SeamlessTail ==
    ASSUME NEW R, NEW s \in Seq(R), s # <<>>, Seamless(s)
    PROVE  Seamless(Tail(s))
<1> DEFINE t == Tail(s)
<1>1. /\ Len(s) \in Nat \ {0} /\ DOMAIN s = 1..Len(s) /\ DOMAIN t = 1..(Len(s) - 1)
      /\ \A i \in 1..(Len(s) - 1) : t[i] = s[i + 1]
  OBVIOUS
<1> HIDE DEF t
<1>2. SUFFICES ASSUME NEW i \in DOMAIN t, t[i].type = "DATA"
               PROVE  /\ t[i].chunk.bytes = ChunkLen =>
                            /\ i + 1 \in DOMAIN t /\ t[i + 1].type = "DATA"
                            /\ Continues(t[i].chunk, t[i + 1].chunk)
                      /\ i > 1 /\ t[i].chunk.offset # 0 =>
                            /\ t[i - 1].type = "DATA"
                            /\ Continues(t[i - 1].chunk, t[i].chunk)
  BY DEF Seamless, t
<1>3. i + 1 \in DOMAIN s /\ s[i + 1] = t[i]
  BY <1>1
<1>4. /\ s[i + 1].chunk.bytes = ChunkLen =>
            /\ (i + 1) + 1 \in DOMAIN s /\ s[(i + 1) + 1].type = "DATA"
            /\ Continues(s[i + 1].chunk, s[(i + 1) + 1].chunk)
      /\ i + 1 > 1 /\ s[i + 1].chunk.offset # 0 =>
            /\ s[(i + 1) - 1].type = "DATA"
            /\ Continues(s[(i + 1) - 1].chunk, s[i + 1].chunk)
  BY <1>2, <1>3 DEF Seamless
<1>5. (i + 1) + 1 \in DOMAIN s => i + 1 \in DOMAIN t /\ t[i + 1] = s[(i + 1) + 1]
  BY <1>1
<1>6. i > 1 => i + 1 > 1 /\ t[i - 1] = s[(i + 1) - 1]
  BY <1>1
<1> QED
  BY <1>3, <1>4, <1>5, <1>6

\* ... and when others are sent that do not start inside a file.
LEMMA SeamlessJoin ==
    ASSUME NEW R, NEW u \in Seq(R), NEW v \in Seq(R), Seamless(u), Seamless(v),
           v # <<>> => ~Inner(v[1])
    PROVE  Seamless(u \o v)
<1> DEFINE w == u \o v
           a == Len(u)
<1>1. /\ a \in Nat /\ Len(v) \in Nat
      /\ DOMAIN w = 1..(a + Len(v)) /\ DOMAIN u = 1..a
      /\ DOMAIN v = 1..Len(v)
      /\ \A i \in 1..a : w[i] = u[i]
      /\ \A i \in 1..Len(v) : w[a + i] = v[i]
  BY JoinFacts
<1>2. v = <<>> <=> Len(v) = 0
  OBVIOUS
<1> HIDE DEF w, a
<1>3. SUFFICES ASSUME NEW i \in DOMAIN w, w[i].type = "DATA"
               PROVE  /\ w[i].chunk.bytes = ChunkLen =>
                            /\ i + 1 \in DOMAIN w /\ w[i + 1].type = "DATA"
                            /\ Continues(w[i].chunk, w[i + 1].chunk)
                      /\ i > 1 /\ w[i].chunk.offset # 0 =>
                            /\ w[i - 1].type = "DATA"
                            /\ Continues(w[i - 1].chunk, w[i].chunk)
  BY DEF Seamless, w
<1>4. CASE i <= a
  <2>1. i \in DOMAIN u /\ w[i] = u[i]
    BY <1>1, <1>4
  <2>2. /\ u[i].chunk.bytes = ChunkLen =>
              /\ i + 1 \in DOMAIN u /\ u[i + 1].type = "DATA"
              /\ Continues(u[i].chunk, u[i + 1].chunk)
        /\ i > 1 /\ u[i].chunk.offset # 0 =>
              u[i - 1].type = "DATA" /\ Continues(u[i - 1].chunk, u[i].chunk)
    BY <1>3, <2>1 DEF Seamless
  <2>3. i + 1 \in DOMAIN u => i + 1 \in DOMAIN w /\ w[i + 1] = u[i + 1]
    BY <1>1
  <2>4. i > 1 => w[i - 1] = u[i - 1]
    BY <1>1, <1>4
  <2> QED
    BY <2>1, <2>2, <2>3, <2>4
<1>5. CASE ~(i <= a)
  <2> DEFINE j == i - a
  <2>1. j \in DOMAIN v /\ w[i] = v[j] /\ i = a + j
    <3>1. i \in Nat /\ j \in 1..Len(v) /\ a + j = i
      BY <1>1, <1>5
    <3> QED
      BY <1>1, <3>1
  <2>7. j + 1 = (i + 1) - a /\ a + (j + 1) = i + 1 /\ a + (j - 1) = i - 1
    BY <1>1, <1>5
  <2>2. j + 1 \in DOMAIN v => i + 1 \in DOMAIN w /\ w[i + 1] = v[j + 1]
    BY <1>1, <1>5, <2>7
  <2>3. j > 1 => w[i - 1] = v[j - 1]
    <3>1. j > 1 => j - 1 \in 1..Len(v)
      BY <1>1, <2>1
    <3> QED
      BY <1>1, <2>7, <3>1
  <2>4. ~(j > 1) => j = 1 /\ v # <<>>
    BY <1>1, <1>2, <1>5
  <2> HIDE DEF j
  <2>5. /\ v[j].chunk.bytes = ChunkLen =>
              /\ j + 1 \in DOMAIN v /\ v[j + 1].type = "DATA"
              /\ Continues(v[j].chunk, v[j + 1].chunk)
        /\ j > 1 /\ v[j].chunk.offset # 0 =>
              v[j - 1].type = "DATA" /\ Continues(v[j - 1].chunk, v[j].chunk)
    BY <1>3, <2>1 DEF Seamless
  <2>6. ~(j > 1) => v[j].chunk.offset = 0
    BY <1>3, <2>1, <2>4 DEF Inner
  <2> QED
    BY <2>1, <2>2, <2>3, <2>5, <2>6
<1> QED
  BY <1>1, <1>4, <1>5

\* Link l after the head of link in was taken and v was sent on link out.
Moved(in, out, v) ==
    /\ v \in Seq(Packet)
    /\ in \in Link => net[in] # <<>>
    /\ net' = [l \in Link |-> (IF l = in THEN Tail(net[l]) ELSE net[l])
                                 \o (IF l = out THEN v ELSE <<>>)]

\* How many copies of x a queue s holds after v was sent, and before that the
\* head was taken if taken says so.
LEMMA PassCount ==
    ASSUME NEW s \in Seq(Packet), NEW v \in Seq(Packet), NEW taken \in BOOLEAN,
           taken => s # <<>>, NEW u \in Seq(Packet),
           taken => u = Tail(s), ~taken => u = s, NEW t, t = u \o v, NEW x
    PROVE  /\ Count(s, x) \in Nat /\ Count(t, x) \in Nat
           /\ (\A i \in DOMAIN v : v[i] # x) =>
                 /\ Count(t, x) <= Count(s, x)
                 /\ taken /\ s[1] = x => Count(t, x) <= Count(s, x) - 1
           /\ (\A i, j \in DOMAIN v : v[i] = v[j] => i = j) =>
                 Count(t, x) <= Count(s, x) + 1
<1>1. u \in Seq(Packet) /\ (taken => u = Tail(s)) /\ (~taken => u = s)
  OBVIOUS
<1>2. t = u \o v
  OBVIOUS
<1>3. t \in Seq(Packet)
  BY <1>1, <1>2
<1>4. Count(s, x) \in Nat /\ Count(t, x) \in Nat /\ Count(u, x) \in Nat
  BY <1>1, <1>3, CountType
<1>5. Count(u, x) <= Count(s, x) /\ (taken /\ s[1] = x => Count(u, x) <= Count(s, x) - 1)
  <2>1. CASE taken
    BY <1>1, <2>1, CountTail
  <2>2. CASE ~taken
    BY <1>1, <1>4, <2>2
  <2> QED
    BY <2>1, <2>2
<1>6. (\A i \in DOMAIN v : v[i] # x) => Count(t, x) = Count(u, x)
  BY <1>1, <1>2, CountJoin
<1>7. (\A i, j \in DOMAIN v : v[i] = v[j] => i = j) => Count(t, x) <= Count(u, x) + 1
  BY <1>1, <1>2, CountJoin
<1> QED
  BY <1>4, <1>5, <1>6, <1>7

\* What a step does to one link.
LEMMA MovedFacts ==
    ASSUME net \in [Link -> Seq(Packet)], NEW in, NEW out, NEW v,
           Moved(in, out, v), NEW l \in Link
    PROVE  /\ net'[l] \in Seq(Packet)
           /\ \A i \in DOMAIN net'[l] :
                 \/ \E j \in DOMAIN net[l] : net'[l][i] = net[l][j]
                 \/ l = out /\ \E j \in DOMAIN v : net'[l][i] = v[j]
           /\ Seamless(net[l]) /\ Seamless(v) /\ (v # <<>> => ~Inner(v[1]))
                 => Seamless(net'[l])
           /\ l # in /\ net[l] # <<>> => net'[l] # <<>> /\ net'[l][1] = net[l][1]
           /\ net'[l] # <<>> => \/ l # in /\ net[l] # <<>> /\ net'[l][1] = net[l][1]
                                \/ l = in /\ 2 \in DOMAIN net[l] /\ net'[l][1] = net[l][2]
                                \/ l = out /\ v # <<>> /\ net'[l][1] = v[1]
           /\ l = in /\ 2 \in DOMAIN net[l] => net'[l] # <<>> /\ net'[l][1] = net[l][2]
           /\ l # in /\ l # out => net'[l] = net[l]
<1> DEFINE s == net[l]
           t == net'[l]
           taken == l = in
           u == IF l = in THEN Tail(net[l]) ELSE net[l]
           w == IF l = out THEN v ELSE <<>>
<1>1. s \in Seq(Packet) /\ v \in Seq(Packet) /\ (taken => s # <<>>)
  BY DEF Moved
<1>2. u \in Seq(Packet) /\ (taken => u = Tail(s)) /\ (~taken => u = s)
  BY <1>1
<1>3. w \in Seq(Packet) /\ (l = out => w = v) /\ (l # out => w = <<>>)
  BY <1>1
<1>4. t = u \o w
  BY DEF Moved
<1>5. taken \in BOOLEAN
  OBVIOUS
<1>6. Seamless(<<>>) /\ DOMAIN (<<>>) = {}
  BY DEF Seamless
<1>7. l # out => ~(w # <<>>)
  BY <1>3
<1>8. l # in /\ l # out => t = s
  BY <1>1, <1>2, <1>3, <1>4
<1> HIDE DEF s, t, u, w, taken
<1>9. /\ t \in Seq(Packet)
      /\ \A i \in DOMAIN t : \/ \E j \in DOMAIN s : t[i] = s[j]
                             \/ \E j \in DOMAIN w : t[i] = w[j]
      /\ Seamless(s) /\ Seamless(w) /\ (w # <<>> => ~Inner(w[1])) => Seamless(t)
      /\ ~taken /\ s # <<>> => t # <<>> /\ t[1] = s[1]
      /\ t # <<>> => \/ ~taken /\ s # <<>> /\ t[1] = s[1]
                     \/ taken /\ 2 \in DOMAIN s /\ t[1] = s[2]
                     \/ w # <<>> /\ t[1] = w[1]
      /\ taken /\ 2 \in DOMAIN s => t # <<>> /\ t[1] = s[2]
  <2>3. /\ t \in Seq(Packet) /\ Len(u) \in Nat /\ Len(w) \in Nat
        /\ DOMAIN t = 1..(Len(u) + Len(w)) /\ DOMAIN u = 1..Len(u)
        /\ DOMAIN w = 1..Len(w)
        /\ \A i \in 1..Len(u) : t[i] = u[i]
        /\ \A i \in 1..Len(w) : t[Len(u) + i] = w[i]
    BY <1>2, <1>3, <1>4, JoinFacts
  <2>4. \A i \in DOMAIN t : \/ i \in 1..Len(u) /\ t[i] = u[i]
                            \/ i - Len(u) \in 1..Len(w) /\ t[i] = w[i - Len(u)]
    BY <1>2, <1>3, <1>4, JoinFacts
  <2>5. taken => /\ Len(s) \in Nat \ {0} /\ DOMAIN s = 1..Len(s)
                 /\ Len(u) = Len(s) - 1
                 /\ \A i \in 1..(Len(s) - 1) : u[i] = s[i + 1]
    <3> SUFFICES ASSUME taken PROVE /\ Len(s) \in Nat \ {0} /\ DOMAIN s = 1..Len(s)
                                    /\ Len(Tail(s)) = Len(s) - 1
                                    /\ \A i \in 1..(Len(s) - 1) : Tail(s)[i] = s[i + 1]
      BY <1>2
    <3> QED
      BY <1>1
  <2>6. \A i \in 1..Len(u) : \E j \in DOMAIN s : u[i] = s[j]
    <3>1. CASE taken
      <4>1. \A i \in 1..Len(u) : i + 1 \in DOMAIN s /\ u[i] = s[i + 1]
        BY <2>3, <2>5, <3>1
      <4> QED
        BY <4>1
    <3>2. CASE ~taken
      BY <1>2, <2>3, <3>2
    <3> QED
      BY <3>1, <3>2
  <2>7. \A i \in DOMAIN t : \/ \E j \in DOMAIN s : t[i] = s[j]
                            \/ \E j \in DOMAIN w : t[i] = w[j]
    BY <2>3, <2>4, <2>6
  <2>8. ASSUME Seamless(s), Seamless(w), w # <<>> => ~Inner(w[1])
        PROVE  Seamless(t)
    <3>1. Seamless(u)
      BY <1>1, <1>2, <2>8, SeamlessTail
    <3> QED
      BY <1>2, <1>3, <1>4, <2>8, <3>1, SeamlessJoin
  <2>9. ASSUME ~taken, s # <<>> PROVE t # <<>> /\ t[1] = s[1]
    <3>1. u = s /\ Len(u) > 0
      BY <1>2, <2>9
    <3>5. Len(u) \in Nat /\ Len(w) \in Nat /\ DOMAIN t = 1..(Len(u) + Len(w))
      BY <2>3
    <3> DEFINE a == Len(u)
               b == Len(w)
    <3>6. a \in Nat /\ b \in Nat /\ a > 0 /\ DOMAIN t = 1..(a + b)
      BY <3>1, <3>5
    <3> HIDE DEF a, b
    <3>7. 1 \in 1..a /\ 1 \in 1..(a + b)
      BY <3>6
    <3>2. 1 \in 1..Len(u) /\ 1 \in DOMAIN t
      BY <3>6, <3>7, Zenon DEF a
    <3>3. t[1] = u[1]
      BY <2>3, <3>2, Zenon
    <3>4. t # <<>>
      BY <3>2
    <3> QED
      BY <3>1, <3>3, <3>4, Zenon
  <2>10. ASSUME taken, 2 \in DOMAIN s PROVE t # <<>> /\ t[1] = s[2]
    <3>1. 1 \in 1..Len(u) /\ u[1] = s[2] /\ Len(t) > 0
      BY <2>3, <2>5, <2>10
    <3> QED
      BY <2>3, <3>1
  <2>11. ASSUME t # <<>>, ~(~taken /\ s # <<>>), ~(taken /\ 2 \in DOMAIN s)
         PROVE  w # <<>> /\ t[1] = w[1]
    <3>1. Len(u) = 0
      <4>1. CASE taken
        BY <2>5, <2>11, <4>1
      <4>2. CASE ~taken
        BY <1>2, <2>11, <4>2
      <4> QED
        BY <4>1, <4>2
    <3>2. Len(w) > 0
      BY <2>3, <2>11, <3>1
    <3>3. 1 \in 1..Len(w) /\ 0 + 1 = 1
      BY <2>3, <3>2
    <3> QED
      BY <2>3, <3>1, <3>2, <3>3
  <2> QED
    BY <2>3, <2>7, <2>8, <2>9, <2>10, <2>11
<1>10. \A i \in DOMAIN t : \/ \E j \in DOMAIN s : t[i] = s[j]
                           \/ l = out /\ \E j \in DOMAIN v : t[i] = v[j]
  BY <1>3, <1>6, <1>9
<1>11. Seamless(s) /\ Seamless(v) /\ (v # <<>> => ~Inner(v[1])) => Seamless(t)
  BY <1>3, <1>6, <1>9
<1>12. t # <<>> => \/ ~taken /\ s # <<>> /\ t[1] = s[1]
                   \/ taken /\ 2 \in DOMAIN s /\ t[1] = s[2]
                   \/ l = out /\ v # <<>> /\ t[1] = v[1]
  BY <1>3, <1>7, <1>9
<1> QED
  BY <1>8, <1>9, <1>10, <1>11, <1>12 DEF s, t, taken

\* ... and to the number of copies of x on it.
LEMMA MovedCount ==
    ASSUME net \in [Link -> Seq(Packet)], NEW in, NEW out, NEW v,
           Moved(in, out, v), NEW l \in Link, NEW x
    PROVE  /\ Count(net[l], x) \in Nat /\ Count(net'[l], x) \in Nat
           /\ l # out \/ (\A i \in DOMAIN v : v[i] # x) =>
                 /\ Count(net'[l], x) <= Count(net[l], x)
                 /\ l = in /\ net[l][1] = x =>
                       Count(net'[l], x) <= Count(net[l], x) - 1
           /\ (\A i, j \in DOMAIN v : v[i] = v[j] => i = j) =>
                 Count(net'[l], x) <= Count(net[l], x) + 1
<1> DEFINE s == net[l]
           t == net'[l]
           taken == l = in
           u == IF l = in THEN Tail(net[l]) ELSE net[l]
           w == IF l = out THEN v ELSE <<>>
<1>1. s \in Seq(Packet) /\ v \in Seq(Packet) /\ (taken => s # <<>>)
  BY DEF Moved
<1>2. u \in Seq(Packet) /\ (taken => u = Tail(s)) /\ (~taken => u = s)
  BY <1>1
<1>3. w \in Seq(Packet) /\ (l = out => w = v) /\ (l # out => w = <<>>)
  BY <1>1
<1>4. t = u \o w
  BY DEF Moved
<1>5. taken \in BOOLEAN
  OBVIOUS
<1>6. DOMAIN (<<>>) = {}
  OBVIOUS
<1> HIDE DEF s, t, u, w, taken
<1>7. /\ Count(s, x) \in Nat /\ Count(t, x) \in Nat
      /\ (\A i \in DOMAIN w : w[i] # x) =>
            /\ Count(t, x) <= Count(s, x)
            /\ taken /\ s[1] = x => Count(t, x) <= Count(s, x) - 1
      /\ (\A i, j \in DOMAIN w : w[i] = w[j] => i = j) =>
            Count(t, x) <= Count(s, x) + 1
  BY <1>1, <1>2, <1>3, <1>4, <1>5, PassCount
<1>8. l # out \/ (\A i \in DOMAIN v : v[i] # x) => \A i \in DOMAIN w : w[i] # x
  BY <1>3, <1>6
<1>9. (\A i, j \in DOMAIN v : v[i] = v[j] => i = j)
         => \A i, j \in DOMAIN w : w[i] = w[j] => i = j
  BY <1>3, <1>6
<1> QED
  BY <1>7, <1>8, <1>9 DEF s, t, taken

-----------------------------------------------------------------------------
(* Steps.                                                                  *)

\* A consumer that is the first of its name stays the first.
Kept ==
    \A n \in Node, x \in Name :
        FirstOf(consumers, n, x) # {} =>
            FirstOf(consumers', n, x) = FirstOf(consumers, n, x)

\* Who is notified.
LEMMA FirstOfFacts ==
    ASSUME consumers \in [Node -> Seq(Consumer)], NEW n \in Node, NEW x \in Name
    PROVE  /\ FirstOf(consumers, n, x) \subseteq Consumer
           /\ \A c \in FirstOf(consumers, n, x) :
                 Wanted[c] = x /\ c \in Elems(consumers[n])
           /\ \A c, d \in FirstOf(consumers, n, x) : c = d
<1>1. consumers[n] \in Seq(Consumer)
  OBVIOUS
<1>2. ConsumersOf[x] = {c \in Consumer : Wanted[c] = x}
  BY DEF ConsumersOf
<1>3. /\ FirstOf(consumers, n, x) \subseteq Elems(consumers[n]) \cap ConsumersOf[x]
      /\ FirstOf(consumers, n, x) \subseteq Consumer
      /\ \A c, d \in FirstOf(consumers, n, x) : c = d
  BY <1>1, FirstFacts DEF FirstOf
<1> QED
  BY <1>2, <1>3

\* The consumers do not change.
LEMMA KeptSame ==
    ASSUME UNCHANGED consumers PROVE Kept
  BY DEF Kept

\* A consumer's name is one, and the host it is asked from.
LEMMA WantedName ==
    ASSUME NEW c \in Consumer
    PROVE  /\ Wanted[c] \in Name /\ ConsumerNode[c] \in Node
           /\ HostOf(Wanted[c]) \in Node \cup {NoNode}
<1>1. Wanted[c] \in Name /\ ConsumerNode[c] \in Node
  BY NodeAssumption DEF Name
<1> QED
  BY <1>1, HostType

\* A consumer starts.
LEMMA KeptStart ==
    ASSUME consumers \in [Node -> Seq(Consumer)], NEW c \in Consumer,
           consumers' = [consumers EXCEPT ![ConsumerNode[c]] = Append(@, c)]
    PROVE  /\ Kept
           /\ consumers' \in [Node -> Seq(Consumer)]
           /\ FirstOf(consumers', ConsumerNode[c], Wanted[c]) # {}
           /\ Elems(consumers'[ConsumerNode[c]])
                 = Elems(consumers[ConsumerNode[c]]) \cup {c}
           /\ \A n \in Node : n # ConsumerNode[c] => consumers'[n] = consumers[n]
<1> DEFINE k == ConsumerNode[c]
           s == consumers[k]
<1>1. k \in Node /\ Wanted[c] \in Name
  BY WantedName
<1>2. /\ consumers' \in [Node -> Seq(Consumer)] /\ s \in Seq(Consumer)
      /\ consumers'[k] = Append(s, c)
      /\ \A n \in Node : n # k => consumers'[n] = consumers[n]
  BY <1>1
<1>3. c \in ConsumersOf[Wanted[c]]
  BY <1>1 DEF ConsumersOf
<1> HIDE DEF k, s
<1>4. ASSUME NEW S
      PROVE  /\ First(s, S) # {} => First(Append(s, c), S) = First(s, S)
             /\ c \in S => First(Append(s, c), S) # {}
             /\ Elems(Append(s, c)) = Elems(s) \cup {c}
  BY <1>2, FirstAppend
<1>5. Kept
  <2> SUFFICES ASSUME NEW n \in Node, NEW x \in Name,
                      First(consumers[n], ConsumersOf[x]) # {}
               PROVE  First(consumers'[n], ConsumersOf[x])
                         = First(consumers[n], ConsumersOf[x])
    BY DEF Kept, FirstOf
  <2>1. CASE n = k
    BY <1>2, <1>4, <2>1, Zenon DEF s
  <2>2. CASE n # k
    BY <1>2, <2>2, Zenon
  <2> QED
    BY <2>1, <2>2
<1>6. /\ First(consumers'[k], ConsumersOf[Wanted[c]]) # {}
      /\ Elems(consumers'[k]) = Elems(s) \cup {c}
  BY <1>2, <1>3, <1>4, Zenon
<1> QED
  BY <1>2, <1>5, <1>6 DEF k, s, FirstOf

\* Packets stay on their routes, if those that are sent are on theirs.
LEMMA RouteStep ==
    ASSUME net \in [Link -> Seq(Packet)], RouteInv, Kept, NEW in, NEW out, NEW v,
           Moved(in, out, v),
           \A s, n \in Node : out = <<s, n>> =>
              \A j \in DOMAIN v : OnRoute(consumers', s, n, v[j])
    PROVE  RouteInv'
<1> SUFFICES ASSUME NEW s \in Node, NEW n \in Node, NEW i \in DOMAIN net'[<<s, n>>]
             PROVE  OnRoute(consumers', s, n, net'[<<s, n>>][i])
  BY DEF RouteInv
<1> DEFINE l == <<s, n>>
           m == net'[l][i]
<1>1. l \in Link
  BY DEF Link
<1>2. \A k \in DOMAIN net'[l] : \/ \E j \in DOMAIN net[l] : net'[l][k] = net[l][j]
                                \/ l = out /\ \E j \in DOMAIN v : net'[l][k] = v[j]
  <2> HIDE DEF l
  <2> QED
    BY <1>1, MovedFacts
<1>3. CASE \E j \in DOMAIN net[l] : m = net[l][j]
  <2>1. PICK j \in DOMAIN net[l] : m = net[l][j]
    BY <1>3
  <2>2. OnRoute(consumers, s, n, m)
    BY <2>1 DEF RouteInv
  <2>3. net[l] \in Seq(Packet)
    BY <1>1
  <2>4. m \in Packet
    <3> HIDE DEF l
    <3> QED
      BY <2>1, <2>3
  <2>5. m.name \in Name
    BY <2>4, PacketKinds
  <2> HIDE DEF m
  <2>6. OnRoute(consumers', s, n, m)
    BY <2>2, <2>5 DEF OnRoute, Kept
  <2> QED
    BY <2>6 DEF m
<1>4. CASE l = out /\ \E j \in DOMAIN v : m = v[j]
  BY <1>4
<1> QED
  BY <1>2, <1>3, <1>4

\* What was given stays.
LEMMA GivenKept ==
    ASSUME GivenInv, Kept, UNCHANGED received
    PROVE  GivenInv'
<1> SUFFICES ASSUME NEW c \in Consumer, NEW i \in DOMAIN received[c]
             PROVE  c \in FirstOf(consumers', ConsumerNode[c], Wanted[c])
  BY DEF GivenInv
<1>1. c \in FirstOf(consumers, ConsumerNode[c], Wanted[c])
  BY DEF GivenInv
<1>2. Wanted[c] \in Name /\ ConsumerNode[c] \in Node
  BY WantedName
<1> QED
  BY <1>1, <1>2 DEF Kept

\* The parts of FlowInv with the state as parameters.
LEMMA FlowParts ==
    ASSUME NEW s \in Node, NEW n \in Node, FlowInv, losses = 0
    PROVE  /\ Seamless(net[<<s, n>>])
           /\ net[<<s, n>>] # <<>> /\ Inner(net[<<s, n>>][1]) =>
                 \A c \in FirstOf(consumers, n, net[<<s, n>>][1].name) :
                    /\ received[c] # <<>>
                    /\ Continues(Last(received[c]), net[<<s, n>>][1].chunk)
  BY DEF FlowInv, HeadFlow

\* The packet at the head of a link is on its route.
LEMMA HeadOnRoute ==
    ASSUME net \in [Link -> Seq(Packet)], RouteInv, NEW s \in Node, NEW n \in Node,
           net[<<s, n>>] # <<>>
    PROVE  /\ net[<<s, n>>][1] \in Packet
           /\ OnRoute(consumers, s, n, net[<<s, n>>][1])
           /\ 1 \in DOMAIN net[<<s, n>>]
<1> DEFINE q == net[<<s, n>>]
<1>1. q \in Seq(Packet) /\ q # <<>>
  BY DEF Link
<1> HIDE DEF q
<1>2. 1 \in DOMAIN q /\ q[1] \in Packet
  BY <1>1
<1> QED
  BY <1>2 DEF q, RouteInv

\* A packet inside a file comes after another piece of the file.
LEMMA SecondInner ==
    ASSUME NEW q, Seamless(q), 2 \in DOMAIN q, Inner(q[2])
    PROVE  q[1].type = "DATA" /\ Continues(q[1].chunk, q[2].chunk)
<1>1. q[2 - 1].type = "DATA" /\ Continues(q[2 - 1].chunk, q[2].chunk)
  BY DEF Seamless, Inner
<1>2. 2 - 1 = 1
  OBVIOUS
<1> QED
  BY <1>1, <1>2

\* A step that gives nothing to a consumer keeps the files whole, if it takes
\* at most an interest.
LEMMA FlowKept ==
    ASSUME net \in [Link -> Seq(Packet)], received \in [Consumer -> Seq(Chunk)],
           RouteInv, GivenInv, Kept, FlowInv,
           UNCHANGED <<received, losses>>, NEW in, NEW out, NEW v, Moved(in, out, v),
           in \in Link => net[in][1].type = "INTEREST",
           Seamless(v), v # <<>> => ~Inner(v[1])
    PROVE  FlowInv'
<1> SUFFICES ASSUME losses = 0
             PROVE  /\ \A s, n \in Node : Seamless(net'[<<s, n>>]) /\ HeadFlow(s, n)'
                    /\ \A c \in Consumer : OpenFlow(c)'
  BY DEF FlowInv
<1>1. ASSUME NEW s \in Node, NEW n \in Node PROVE Seamless(net'[<<s, n>>])
  <2> DEFINE l == <<s, n>>
  <2>1. l \in Link /\ Seamless(net[l])
    BY FlowParts DEF Link
  <2> HIDE DEF l
  <2>2. Seamless(net'[l])
    BY <2>1, MovedFacts
  <2> QED
    BY <2>2 DEF l
<1>2. ASSUME NEW s \in Node, NEW n \in Node PROVE HeadFlow(s, n)'
  <2> DEFINE l == <<s, n>>
             m == net'[l][1]
  <2>1. SUFFICES ASSUME net'[l] # <<>>, Inner(m),
                        NEW c \in FirstOf(consumers', n, m.name)
                 PROVE  received[c] # <<>> /\ Continues(Last(received[c]), m.chunk)
    BY DEF HeadFlow, Last
  <2>2. l \in Link
    BY DEF Link
  <2>3. \/ l # in /\ net[l] # <<>> /\ m = net[l][1]
        \/ l = in /\ 2 \in DOMAIN net[l] /\ m = net[l][2]
        \/ l = out /\ v # <<>> /\ m = v[1]
    <3> HIDE DEF l
    <3> QED
      BY <2>1, <2>2, MovedFacts DEF m
  <2>4. CASE l # in /\ net[l] # <<>> /\ m = net[l][1]
    <3>1. m \in Packet /\ OnRoute(consumers, s, n, m)
      BY <2>4, HeadOnRoute
    <3>2. m.name \in Name /\ m.type = "DATA"
      BY <2>1, <3>1, PacketKinds DEF Inner
    <3>3. FirstOf(consumers, n, m.name) # {}
      BY <3>1, <3>2 DEF OnRoute
    <3> HIDE DEF m
    <3>4. FirstOf(consumers', n, m.name) = FirstOf(consumers, n, m.name)
      BY <3>2, <3>3 DEF Kept
    <3>5. c \in FirstOf(consumers, n, m.name)
      BY <2>1, <3>4
    <3> QED
      BY <2>1, <2>4, <3>5, FlowParts
  <2>5. CASE l = in /\ 2 \in DOMAIN net[l] /\ m = net[l][2]
    <3>1. Seamless(net[l]) /\ net[l][1].type = "INTEREST"
      BY <2>2, <2>5, FlowParts
    <3>2. Inner(net[l][2]) /\ 2 \in DOMAIN net[l]
      BY <2>1, <2>5
    <3>3. net[l][1].type = "DATA"
      BY <3>1, <3>2, SecondInner
    <3> QED
      BY <3>1, <3>3
  <2>6. CASE l = out /\ v # <<>> /\ m = v[1]
    BY <2>1, <2>6
  <2> QED
    BY <2>3, <2>4, <2>5, <2>6
<1>3. ASSUME NEW c \in Consumer PROVE OpenFlow(c)'
  <2> DEFINE l == <<HostOf(Wanted[c]), ConsumerNode[c]>>
  <2>1. SUFFICES ASSUME received[c] # <<>>, Last(received[c]).bytes = ChunkLen
                 PROVE  /\ net'[l] # <<>> /\ net'[l][1].type = "DATA"
                        /\ Continues(Last(received[c]), net'[l][1].chunk)
    BY DEF OpenFlow, Last
  <2>2. /\ net[l] # <<>> /\ net[l][1].type = "DATA"
        /\ Continues(Last(received[c]), net[l][1].chunk)
    BY <2>1 DEF FlowInv, OpenFlow
  <2>3. l \in Link
    <3> DEFINE q == received[c]
    <3>3. q \in Seq(Chunk) /\ q # <<>>
      BY <2>1
    <3> HIDE DEF q
    <3>4. 1 \in DOMAIN q
      BY <3>3
    <3>1. 1 \in DOMAIN received[c]
      BY <3>4 DEF q
    <3>2. HostOf(Wanted[c]) \in Node
      BY <3>1 DEF GivenInv
    <3> QED
      BY <3>2, WantedName DEF Link
  <2>4. l # in
    BY <2>2, <2>3
  <2>5. net'[l] # <<>> /\ net'[l][1] = net[l][1]
    <3> HIDE DEF l
    <3> QED
      BY <2>2, <2>3, <2>4, MovedFacts
  <2> QED
    BY <2>2, <2>5
<1> QED
  BY <1>1, <1>2, <1>3

-----------------------------------------------------------------------------
(* The budget.                                                             *)

\* The consumers of a node that asked are finitely many.
LEMMA AskingFinite ==
    ASSUME NEW s \in Seq(Consumer), NEW x
    PROVE  IsFiniteSet({c \in Elems(s) : Wanted[c] = x})
<1> DEFINE N == 1..Len(s)
<1>1. IsFiniteSet(N)
  BY FS_Interval
<1>2. s \in Surjection(N, Elems(s))
  <2>1. s \in [N -> Elems(s)]
    BY DEF Elems
  <2>2. \A t \in Elems(s) : \E i \in N : s[i] = t
    BY DEF Elems
  <2> QED
    BY <2>1, <2>2 DEF Surjection
<1> HIDE DEF N
<1>3. IsFiniteSet(Elems(s))
  BY <1>1, <1>2, FS_Surjection
<1>4. {c \in Elems(s) : Wanted[c] = x} \subseteq Elems(s)
  OBVIOUS
<1> QED
  BY <1>3, <1>4, FS_Subset

\* The invariant for one consumer and one piece, in numbers.
LEMMA BudgetParts ==
    ASSUME TypeOK, BudgetInv, NEW c \in Consumer, NEW d \in Chunk,
           HostOf(Wanted[c]) \in Node
    PROVE  LET n == ConsumerNode[c]
               x == Wanted[c]
               h == HostOf(x)
           IN /\ n \in Node /\ x \in Name /\ <<h, n>> \in Link /\ <<n, h>> \in Link
              /\ Count(received[c], d) \in Nat
              /\ Count(net[<<h, n>>], Data(x, d)) \in Nat
              /\ Count(net[<<n, h>>], Interest(x)) \in Nat
              /\ Cardinality(Asking(n, x)) \in Nat
              /\ Count(received[c], d) + Count(net[<<h, n>>], Data(x, d))
                    + Count(net[<<n, h>>], Interest(x)) <= Cardinality(Asking(n, x))
<1> DEFINE n == ConsumerNode[c]
           x == Wanted[c]
           h == HostOf(x)
<1>1. n \in Node /\ x \in Name /\ <<h, n>> \in Link /\ <<n, h>> \in Link
  BY WantedName DEF Link
<1>2. /\ received[c] \in Seq(Chunk) /\ net[<<h, n>>] \in Seq(Packet)
      /\ net[<<n, h>>] \in Seq(Packet) /\ consumers[n] \in Seq(Consumer)
  BY <1>1 DEF TypeOK
<1>3. /\ Count(received[c], d) \in Nat
      /\ Count(net[<<h, n>>], Data(x, d)) \in Nat
      /\ Count(net[<<n, h>>], Interest(x)) \in Nat
  BY <1>2, CountType
<1>4. Cardinality(Asking(n, x)) \in Nat
  BY <1>2, AskingFinite, FS_CardinalityType DEF Asking
<1>5. Budget(c, d) <= Cardinality(Asking(n, x))
  BY DEF BudgetInv
<1> QED
  BY <1>1, <1>3, <1>4, <1>5 DEF Budget

\* To show the invariant after a step, count for one consumer and one piece.
LEMMA BudgetGoal ==
    ASSUME \A c \in Consumer, d \in Chunk : HostOf(Wanted[c]) \in Node =>
              LET n == ConsumerNode[c]
                  x == Wanted[c]
                  h == HostOf(x)
              IN Count(received'[c], d) + Count(net'[<<h, n>>], Data(x, d))
                    + Count(net'[<<n, h>>], Interest(x)) <= Cardinality(Asking(n, x)')
    PROVE  BudgetInv'
  BY DEF BudgetInv, Budget, Count, At

\* A step that sends nothing and gives nothing.
LEMMA BudgetIdle ==
    ASSUME TypeOK, BudgetInv, NEW in, Moved(in, <<>>, <<>>),
           UNCHANGED <<received, consumers>>
    PROVE  BudgetInv'
<1> SUFFICES ASSUME NEW c \in Consumer, NEW d \in Chunk, HostOf(Wanted[c]) \in Node
             PROVE  LET n == ConsumerNode[c]
                        x == Wanted[c]
                        h == HostOf(x)
                    IN Count(received'[c], d) + Count(net'[<<h, n>>], Data(x, d))
                          + Count(net'[<<n, h>>], Interest(x))
                             <= Cardinality(Asking(n, x)')
  BY BudgetGoal
<1> DEFINE n == ConsumerNode[c]
           x == Wanted[c]
           h == HostOf(x)
           a == Count(net[<<h, n>>], Data(x, d))
           i == Count(net[<<n, h>>], Interest(x))
           r == Count(received[c], d)
           k == Cardinality(Asking(n, x))
<1>1. /\ n \in Node /\ x \in Name /\ <<h, n>> \in Link /\ <<n, h>> \in Link
      /\ a \in Nat /\ i \in Nat /\ r \in Nat /\ k \in Nat /\ r + a + i <= k
  BY BudgetParts
<1>2. net \in [Link -> Seq(Packet)] /\ DOMAIN (<<>>) = {}
  BY DEF TypeOK
<1>3. Count(net'[<<h, n>>], Data(x, d)) \in Nat /\ Count(net'[<<h, n>>], Data(x, d)) <= a
  BY <1>1, <1>2, MovedCount
<1>4. Count(net'[<<n, h>>], Interest(x)) \in Nat /\ Count(net'[<<n, h>>], Interest(x)) <= i
  BY <1>1, <1>2, MovedCount
<1>5. Count(received'[c], d) = r /\ Cardinality(Asking(n, x)') = k
  BY DEF Asking
<1> HIDE DEF n, x, h, a, i, r, k
<1> QED
  BY <1>1, <1>3, <1>4, <1>5 DEF n, x, h

-----------------------------------------------------------------------------
(* The actions.                                                            *)

\* At first there is nothing.
LEMMA InitCInv == Init => CInv
<1> SUFFICES ASSUME Init PROVE CInv
  OBVIOUS
<1>1. TypeOK
  <2> HIDE DEF Name, Packet, Chunk, Link
  <2>1. consumers \in [Node -> Seq(Consumer)] /\ producers \in [Node -> Seq(Producer)]
    BY DEF Init
  <2>2. pit \in [Node -> [Name -> Node \cup {NoNode}]]
    BY DEF Init
  <2>3. net \in [Link -> Seq(Packet)] /\ received \in [Consumer -> Seq(Chunk)]
    BY DEF Init
  <2>4. aborted \in BOOLEAN /\ losses \in Nat
    BY DEF Init
  <2> QED
    BY <2>1, <2>2, <2>3, <2>4 DEF TypeOK
<1>2. \A l \in Link : net[l] = <<>>
  BY DEF Init
<1>3. \A c \in Consumer : received[c] = <<>>
  BY DEF Init
<1>4. ConsumersHome
  BY DEF Init, ConsumersHome, Elems
<1>5. \A s, n \in Node : net[<<s, n>>] = <<>>
  BY <1>2 DEF Link
<1>6. RouteInv /\ GivenInv /\ ContentIntact
  BY <1>3, <1>5 DEF RouteInv, GivenInv, ContentIntact
<1>7. FlowInv
  BY <1>3, <1>5 DEF FlowInv, Seamless, HeadFlow, OpenFlow
<1>8. BudgetInv
  <2> SUFFICES ASSUME NEW c \in Consumer, NEW d \in Chunk, HostOf(Wanted[c]) \in Node
               PROVE  Budget(c, d) <= Cardinality(Asking(ConsumerNode[c], Wanted[c]))
    BY DEF BudgetInv
  <2>1. \A x : Count(<<>>, x) = 0
    <3>1. \A x : At(<<>>, x) = {}
      BY DEF At
    <3> QED
      BY <3>1, FS_EmptySet DEF Count
  <2>2. ConsumerNode[c] \in Node
    BY WantedName
  <2>3. Budget(c, d) = 0
    BY <1>3, <1>5, <2>1, <2>2 DEF Budget
  <2>4. Asking(ConsumerNode[c], Wanted[c]) = {}
    BY <2>2 DEF Init, Asking, Elems
  <2> QED
    BY <2>3, <2>4, FS_EmptySet
<1> QED
  BY <1>1, <1>4, <1>6, <1>7, <1>8 DEF CInv

\* No node is a link.
LEMMA NoLink == <<>> \notin Link
  BY DEF Link

\* The links do not change.
LEMMA MovedNone ==
    ASSUME net \in [Link -> Seq(Packet)], UNCHANGED net
    PROVE  Moved(<<>>, <<>>, <<>>)
<1> HIDE DEF Link, Packet
<1>1. \A l \in Link : net[l] \o <<>> = net[l] /\ l # <<>>
  BY NoLink
<1>2. net = [l \in Link |-> net[l]]
  OBVIOUS
<1>3. net' = [l \in Link |-> (IF l = <<>> THEN Tail(net[l]) ELSE net[l])
                               \o (IF l = <<>> THEN <<>> ELSE <<>>)]
  BY <1>1, <1>2
<1> QED
  BY <1>3, NoLink DEF Moved

\* What the steps that send nothing, take at most an interest and give nothing
\* leave as it was.
LEMMA StepNone ==
    ASSUME CInv, UNCHANGED <<consumers, net, received, losses>>
    PROVE  /\ ConsumersHome' /\ RouteInv' /\ GivenInv' /\ BudgetInv'
           /\ FlowInv' /\ ContentIntact'
<1>1. TypeOK /\ net \in [Link -> Seq(Packet)]
  BY DEF CInv, TypeOK
<1>2. ConsumersHome' /\ RouteInv' /\ GivenInv' /\ FlowInv' /\ ContentIntact'
  BY DEF CInv, ConsumersHome, RouteInv, GivenInv, FlowInv, HeadFlow, OpenFlow,
         ContentIntact
<1>3. BudgetInv'
  BY <1>1, MovedNone, BudgetIdle DEF CInv
<1> QED
  BY <1>2, <1>3

\* A producer starts.
LEMMA StartProducerCInv ==
    ASSUME CInv, NEW p \in Producer, StartProducer(p)
    PROVE  CInv'
<1>1. UNCHANGED <<consumers, net, received, losses>>
  BY DEF StartProducer
<1>2. TypeOK'
  <2> HIDE DEF Name, Packet, Chunk, Link
  <2>1. ProducerNode[p] \in Node
    BY NodeAssumption
  <2>2. producers' \in [Node -> Seq(Producer)]
    BY <2>1 DEF CInv, TypeOK, StartProducer
  <2> QED
    BY <2>2 DEF CInv, TypeOK, StartProducer
<1> QED
  BY <1>1, <1>2, StepNone DEF CInv

\* A packet is lost.
LEMMA LoseCInv ==
    ASSUME CInv, NEW l \in Link, Lose(l)
    PROVE  CInv'
<1> HIDE DEF Link, Packet, Name, Chunk
<1>1. /\ net \in [Link -> Seq(Packet)] /\ losses \in Nat /\ net[l] # <<>>
      /\ losses' = losses + 1 /\ net' = [net EXCEPT ![l] = Tail(@)]
      /\ UNCHANGED <<consumers, producers, pit, received, aborted>>
  BY DEF CInv, TypeOK, Lose
<1>2. losses' # 0
  BY <1>1
<1>3. Moved(l, <<>>, <<>>)
  <2>1. \A k \in Link : /\ k # <<>> /\ net[k] \o <<>> = net[k]
                        /\ Tail(net[l]) \o <<>> = Tail(net[l])
    BY <1>1, NoLink
  <2>2. \A k \in Link : net'[k] = (IF k = l THEN Tail(net[k]) ELSE net[k])
                                     \o (IF k = <<>> THEN <<>> ELSE <<>>)
    BY <1>1, <2>1
  <2>3. net' = [k \in Link |-> net'[k]]
    BY <1>1
  <2>4. net' = [k \in Link |-> (IF k = l THEN Tail(net[k]) ELSE net[k])
                                  \o (IF k = <<>> THEN <<>> ELSE <<>>)]
    BY <2>2, <2>3
  <2>5. <<>> \in Seq(Packet)
    OBVIOUS
  <2> QED
    BY <1>1, <2>4, <2>5, Zenon DEF Moved
<1>4. TypeOK'
  <2>1. \A k \in Link : net'[k] \in Seq(Packet)
    BY <1>1, <1>3, MovedFacts
  <2>2. net' \in [Link -> Seq(Packet)]
    BY <1>1, <2>1
  <2> QED
    BY <1>1, <2>2 DEF CInv, TypeOK
<1>5. ConsumersHome' /\ FlowInv' /\ ContentIntact'
  BY <1>1, <1>2 DEF CInv, ConsumersHome, FlowInv, ContentIntact
<1>6. Kept
  BY <1>1, KeptSame
<1>7. RouteInv'
  <2>1. \A s, n \in Node : <<>> = <<s, n>> =>
           \A j \in DOMAIN (<<>>) : OnRoute(consumers', s, n, (<<>>)[j])
    OBVIOUS
  <2> QED
    BY <1>1, <1>3, <1>6, <2>1, RouteStep DEF CInv
<1>8. GivenInv'
  BY <1>1, <1>6, GivenKept DEF CInv
<1>9. BudgetInv'
  BY <1>1, <1>3, BudgetIdle DEF CInv
<1> QED
  BY <1>4, <1>5, <1>7, <1>8, <1>9 DEF CInv

\* One packet is sent on link out.
LEMMA MovedAppend ==
    ASSUME net \in [Link -> Seq(Packet)], NEW out \in Link, NEW m \in Packet,
           net' = [net EXCEPT ![out] = Append(@, m)]
    PROVE  Moved(<<>>, out, <<m>>)
<1> HIDE DEF Link, Packet
<1>1. \A l \in Link : l # <<>> /\ net[l] \o <<>> = net[l]
  BY NoLink
<1>2. Append(net[out], m) = net[out] \o <<m>>
  <2> DEFINE q == net[out]
  <2>1. q \in Seq(Packet)
    OBVIOUS
  <2> HIDE DEF q
  <2>2. Append(q, m) = q \o <<m>>
    BY <2>1
  <2> QED
    BY <2>2 DEF q
<1>3. \A l \in Link : net'[l] = IF l = out THEN net[l] \o <<m>> ELSE net[l]
  BY <1>2
<1>4. \A l \in Link : net'[l] = (IF l = <<>> THEN Tail(net[l]) ELSE net[l])
                                   \o (IF l = out THEN <<m>> ELSE <<>>)
  BY <1>1, <1>3, Zenon
<1>5. net' = [l \in Link |-> net'[l]]
  OBVIOUS
<1>6. net' = [l \in Link |-> (IF l = <<>> THEN Tail(net[l]) ELSE net[l])
                                \o (IF l = out THEN <<m>> ELSE <<>>)]
  BY <1>4, <1>5, Zenon
<1>7. <<m>> \in Seq(Packet)
  OBVIOUS
<1> QED
  BY <1>6, <1>7, NoLink, Zenon DEF Moved

\* A consumer starts: its interest is sent to the host of the name, if there
\* is one and the program does not abort.
LEMMA GetContentMoves ==
    ASSUME TypeOK, NEW c \in Consumer, GetContent(c)
    PROVE  /\ c \notin Elems(consumers[ConsumerNode[c]])
           /\ consumers' = [consumers EXCEPT ![ConsumerNode[c]] = Append(@, c)]
           /\ UNCHANGED <<producers, pit, received, losses>>
           /\ aborted' \in BOOLEAN
           /\ \/ UNCHANGED net
              \/ /\ HostOf(Wanted[c]) \in Node
                 /\ Moved(<<>>, <<ConsumerNode[c], HostOf(Wanted[c])>>,
                          <<Interest(Wanted[c])>>)
<1> DEFINE n == ConsumerNode[c]
           x == Wanted[c]
           h == HostOf(x)
<1>1. /\ c \notin Elems(consumers[n]) /\ SendInterest(c)
      /\ consumers' = [consumers EXCEPT ![n] = Append(@, c)]
      /\ UNCHANGED <<producers, pit, received, losses>>
  BY DEF GetContent
<1>2. n \in Node /\ x \in Name /\ h \in Node \cup {NoNode}
  BY WantedName
<1>3. CASE TooLong(x)
  <2>1. aborted' = TRUE /\ UNCHANGED net
    BY <1>1, <1>3 DEF SendInterest
  <2> QED
    BY <1>1, <2>1
<1>4. CASE ~TooLong(x)
  <2>1. /\ UNCHANGED aborted
        /\ net' = IF h = NoNode THEN net
                  ELSE [net EXCEPT ![<<n, h>>] = Append(@, Interest(x))]
    BY <1>1, <1>4 DEF SendInterest, HostOf
  <2>2. aborted' \in BOOLEAN
    BY <2>1 DEF TypeOK
  <2>3. CASE h = NoNode
    BY <1>1, <2>1, <2>2, <2>3
  <2>4. CASE h # NoNode
    <3>1. h \in Node /\ <<n, h>> \in Link /\ Interest(x) \in Packet
      BY <1>2, <2>4, InterestFields DEF Link
    <3>2. net' = [net EXCEPT ![<<n, h>>] = Append(@, Interest(x))]
      BY <2>1, <2>4
    <3>3. net \in [Link -> Seq(Packet)]
      BY DEF TypeOK
    <3> DEFINE out == <<n, h>>
               m == Interest(x)
    <3>4. out \in Link /\ m \in Packet /\ net' = [net EXCEPT ![out] = Append(@, m)]
      BY <3>1, <3>2
    <3> HIDE DEF out, m
    <3>5. Moved(<<>>, out, <<m>>)
      BY <3>3, <3>4, MovedAppend
    <3> QED
      BY <1>1, <2>2, <3>1, <3>5 DEF out, m
  <2> QED
    BY <2>3, <2>4
<1> QED
  BY <1>3, <1>4

\* The consumers that asked, after consumer c started.
LEMMA AskingStart ==
    ASSUME consumers \in [Node -> Seq(Consumer)], NEW c \in Consumer,
           c \notin Elems(consumers[ConsumerNode[c]]),
           consumers' = [consumers EXCEPT ![ConsumerNode[c]] = Append(@, c)],
           NEW n \in Node, NEW x
    PROVE  /\ Cardinality(Asking(n, x)) \in Nat /\ Cardinality(Asking(n, x)') \in Nat
           /\ Cardinality(Asking(n, x)') >= Cardinality(Asking(n, x))
           /\ n = ConsumerNode[c] /\ x = Wanted[c] =>
                 Cardinality(Asking(n, x)') = Cardinality(Asking(n, x)) + 1
<1> DEFINE A == {e \in Elems(consumers[n]) : Wanted[e] = x}
           B == {e \in Elems(consumers'[n]) : Wanted[e] = x}
<1>1. /\ consumers' \in [Node -> Seq(Consumer)]
      /\ Elems(consumers'[ConsumerNode[c]])
            = Elems(consumers[ConsumerNode[c]]) \cup {c}
      /\ \A k \in Node : k # ConsumerNode[c] => consumers'[k] = consumers[k]
  BY KeptStart
<1>2. consumers[n] \in Seq(Consumer) /\ consumers'[n] \in Seq(Consumer)
  BY <1>1
<1>3. IsFiniteSet(A) /\ IsFiniteSet(B)
  BY <1>2, AskingFinite
<1>4. n = ConsumerNode[c] /\ x = Wanted[c] => B = A \cup {c} /\ c \notin A
  BY <1>1
<1>5. A \subseteq B
  BY <1>1
<1>6. Asking(n, x) = A /\ Asking(n, x)' = B
  BY DEF Asking
<1> HIDE DEF A, B
<1>7. /\ Cardinality(A) \in Nat /\ Cardinality(B) \in Nat
      /\ Cardinality(A) <= Cardinality(B)
  BY <1>3, <1>5, FS_CardinalityType, FS_Subset
<1>8. n = ConsumerNode[c] /\ x = Wanted[c] => Cardinality(B) = Cardinality(A) + 1
  BY <1>3, <1>4, FS_AddElement
<1> QED
  BY <1>6, <1>7, <1>8

\* One more consumer, and one more interest at most.
LEMMA BudgetStart ==
    ASSUME TypeOK, BudgetInv, NEW c \in Consumer,
           c \notin Elems(consumers[ConsumerNode[c]]),
           consumers' = [consumers EXCEPT ![ConsumerNode[c]] = Append(@, c)],
           UNCHANGED received,
           NEW out, NEW v, Moved(<<>>, out, v),
           v # <<>> => /\ out = <<ConsumerNode[c], HostOf(Wanted[c])>>
                       /\ v = <<Interest(Wanted[c])>>
    PROVE  BudgetInv'
<1> SUFFICES ASSUME NEW e \in Consumer, NEW d \in Chunk, HostOf(Wanted[e]) \in Node
             PROVE  LET n == ConsumerNode[e]
                        x == Wanted[e]
                        h == HostOf(x)
                    IN Count(received'[e], d) + Count(net'[<<h, n>>], Data(x, d))
                          + Count(net'[<<n, h>>], Interest(x))
                             <= Cardinality(Asking(n, x)')
  BY BudgetGoal
<1> DEFINE n == ConsumerNode[e]
           x == Wanted[e]
           h == HostOf(x)
           a == Count(net[<<h, n>>], Data(x, d))
           a2 == Count(net'[<<h, n>>], Data(x, d))
           i == Count(net[<<n, h>>], Interest(x))
           i2 == Count(net'[<<n, h>>], Interest(x))
           r == Count(received[e], d)
           k == Cardinality(Asking(n, x))
           k2 == Cardinality(Asking(n, x)')
<1>1. /\ n \in Node /\ x \in Name /\ <<h, n>> \in Link /\ <<n, h>> \in Link
      /\ a \in Nat /\ i \in Nat /\ r \in Nat /\ k \in Nat /\ r + a + i <= k
  BY BudgetParts
<1>2. net \in [Link -> Seq(Packet)] /\ consumers \in [Node -> Seq(Consumer)]
  BY DEF TypeOK
<1>3. /\ k2 \in Nat /\ k2 >= k
      /\ n = ConsumerNode[c] /\ x = Wanted[c] => k2 = k + 1
  BY <1>1, <1>2, AskingStart
<1>4. /\ \A j \in DOMAIN v : v[j] = Interest(Wanted[c])
      /\ \A j, l \in DOMAIN v : v[j] = v[l] => j = l
  <2>1. CASE v = <<>>
    BY <2>1
  <2>2. CASE v # <<>>
    <3>1. v = <<Interest(Wanted[c])>>
      BY <2>2
    <3>2. DOMAIN v = {1} /\ v[1] = Interest(Wanted[c])
      BY <3>1
    <3> QED
      BY <3>2
  <2> QED
    BY <2>1, <2>2
<1>5. \A j \in DOMAIN v : v[j] # Data(x, d)
  BY <1>4, DataFields, InterestFields
<1>6. a2 \in Nat /\ a2 <= a
  BY <1>1, <1>2, <1>5, MovedCount
<1>7. i2 \in Nat /\ i2 <= i + 1
  BY <1>1, <1>2, <1>4, MovedCount
<1>8. CASE n = ConsumerNode[c] /\ x = Wanted[c]
  <2>1. Count(received'[e], d) = r
    OBVIOUS
  <2> HIDE DEF n, x, h, a, a2, i, i2, r, k, k2
  <2>2. r + a2 + i2 <= k2
    BY <1>1, <1>3, <1>6, <1>7, <1>8
  <2> QED
    BY <2>1, <2>2 DEF n, x, h, a2, i2, k2
<1>9. CASE ~(n = ConsumerNode[c] /\ x = Wanted[c])
  <2>1. Count(received'[e], d) = r
    OBVIOUS
  <2>2. <<n, h>> # out \/ \A j \in DOMAIN v : v[j] # Interest(x)
    <3>1. CASE x = Wanted[c]
      <4>1. n # ConsumerNode[c]
        BY <1>9, <3>1
      <4>2. v # <<>> => <<n, h>> # out
        BY <4>1
      <4>3. v = <<>> => DOMAIN v = {}
        OBVIOUS
      <4> QED
        BY <4>2, <4>3
    <3>2. CASE x # Wanted[c]
      BY <1>4, <3>2, InterestFields
    <3> QED
      BY <3>1, <3>2
  <2>3. i2 <= i
    BY <1>1, <1>2, <2>2, MovedCount
  <2> HIDE DEF n, x, h, a, a2, i, i2, r, k, k2
  <2>4. r + a2 + i2 <= k2
    BY <1>1, <1>3, <1>6, <1>7, <2>3
  <2> QED
    BY <2>1, <2>4 DEF n, x, h, a2, i2, k2
<1> QED
  BY <1>8, <1>9

\* A consumer starts.
LEMMA GetContentCInv ==
    ASSUME CInv, NEW c \in Consumer, GetContent(c)
    PROVE  CInv'
<1> DEFINE n == ConsumerNode[c]
           x == Wanted[c]
           h == HostOf(x)
<1>1. /\ c \notin Elems(consumers[n])
      /\ consumers' = [consumers EXCEPT ![n] = Append(@, c)]
      /\ UNCHANGED <<producers, pit, received, losses>>
      /\ aborted' \in BOOLEAN
      /\ \/ UNCHANGED net
         \/ h \in Node /\ Moved(<<>>, <<n, h>>, <<Interest(x)>>)
  BY GetContentMoves DEF CInv
<1>2. /\ TypeOK /\ net \in [Link -> Seq(Packet)] /\ consumers \in [Node -> Seq(Consumer)]
      /\ received \in [Consumer -> Seq(Chunk)]
  BY DEF CInv, TypeOK
<1>3. n \in Node /\ x \in Name
  BY WantedName
<1>4. /\ Kept /\ consumers' \in [Node -> Seq(Consumer)]
      /\ FirstOf(consumers', n, x) # {}
      /\ Elems(consumers'[n]) = Elems(consumers[n]) \cup {c}
      /\ \A k \in Node : k # n => consumers'[k] = consumers[k]
  BY <1>1, <1>2, KeptStart
<1>5. \E out, v : /\ Moved(<<>>, out, v)
                  /\ v # <<>> => /\ h \in Node /\ out = <<n, h>>
                                 /\ v = <<Interest(x)>>
  <2>1. CASE UNCHANGED net
    BY <1>2, <2>1, MovedNone
  <2>2. CASE h \in Node /\ Moved(<<>>, <<n, h>>, <<Interest(x)>>)
    BY <2>2
  <2> QED
    BY <1>1, <2>1, <2>2
<1>6. PICK out, v : /\ Moved(<<>>, out, v)
                    /\ v # <<>> => /\ h \in Node /\ out = <<n, h>>
                                   /\ v = <<Interest(x)>>
  BY <1>5
<1>7. v = <<>> \/ (DOMAIN v = {1} /\ v[1] = Interest(x))
  BY <1>6
<1>8. TypeOK'
  <2>1. \A k \in Link : net'[k] \in Seq(Packet)
    BY <1>2, <1>6, MovedFacts
  <2>2. net' \in [Link -> Seq(Packet)]
    <3>1. net' = [k \in Link |-> net'[k]]
      BY <1>6 DEF Moved
    <3> HIDE DEF Link, Packet
    <3> QED
      BY <2>1, <3>1
  <2> QED
    BY <1>1, <1>4, <2>2 DEF CInv, TypeOK
<1>9. ConsumersHome'
  BY <1>3, <1>4 DEF CInv, ConsumersHome
<1>10. RouteInv'
  <2>1. ASSUME NEW s \in Node, NEW k \in Node, out = <<s, k>>, NEW j \in DOMAIN v
        PROVE  OnRoute(consumers', s, k, v[j])
    <3>1. v # <<>> /\ v[j] = Interest(x)
      BY <1>7
    <3>2. s = n /\ k = h
      BY <1>6, <2>1, <3>1
    <3>3. v[j].type = "INTEREST" /\ v[j].name = x
      BY <3>1, InterestFields
    <3> HIDE DEF n, x, h
    <3> QED
      BY <1>4, <3>2, <3>3 DEF OnRoute, h
  <2> QED
    BY <1>2, <1>4, <1>6, <2>1, RouteStep DEF CInv
<1>11. GivenInv'
  BY <1>1, <1>4, GivenKept DEF CInv
<1>12. BudgetInv'
  BY <1>1, <1>2, <1>6, BudgetStart DEF CInv
<1>13. FlowInv' /\ ContentIntact'
  <2>1. Seamless(v) /\ (v # <<>> => ~Inner(v[1]))
    BY <1>7, InterestFields DEF Seamless, Inner
  <2>2. FlowInv'
    BY <1>1, <1>2, <1>4, <1>6, <2>1, NoLink, FlowKept DEF CInv
  <2> QED
    BY <1>1, <2>2 DEF CInv, ContentIntact
<1> QED
  BY <1>8, <1>9, <1>10, <1>11, <1>12, <1>13 DEF CInv


\* An interest takes its place in the table, and the packets that answer it
\* go back to where it came from.
LEMMA InterestMoves ==
    ASSUME TypeOK, NEW s \in Node, NEW n \in Node, HandleInterestPacket(s, n)
    PROVE  LET q == net[<<s, n>>]
               y == q[1].name
           IN /\ q # <<>> /\ q[1].type = "INTEREST" /\ y \in Name
              /\ UNCHANGED <<consumers, producers, received, losses>>
              /\ \/ UNCHANGED <<pit, net>> /\ aborted' = TRUE
                 \/ /\ pit' \in [Node -> [Name -> Node \cup {NoNode}]]
                    /\ Moved(<<s, n>>, <<n, s>>, Answer(n, y))
                    /\ UNCHANGED aborted
<1> DEFINE in == <<s, n>>
           q == net[in]
           y == q[1].name
           v == Answer(n, y)
<1> HIDE DEF Link, Packet, Name
<1>1. in \in Link /\ net \in [Link -> Seq(Packet)]
  BY DEF TypeOK, Link
<1>2. q # <<>> /\ q \in Seq(Packet) /\ Head(q) = q[1]
  <2>1. q # <<>> /\ q \in Seq(Packet)
    BY <1>1 DEF HandleInterestPacket
  <2> HIDE DEF q
  <2> QED
    BY <2>1
<1>3. /\ q[1].type = "INTEREST"
      /\ UNCHANGED <<consumers, producers, received, losses>>
  BY <1>2 DEF HandleInterestPacket
<1>4. y \in Name
  <2>1. q[1] \in Packet
    <3> HIDE DEF q
    <3> QED
      BY <1>2
  <2> QED
    BY <2>1, PacketKinds
<1>5. CASE Unterminated(y)
  <2>1. aborted' = TRUE /\ UNCHANGED <<pit, net>>
    BY <1>2, <1>5 DEF HandleInterestPacket
  <2> QED
    BY <1>2, <1>3, <1>4, <2>1
<1>6. CASE ~Unterminated(y)
  <2>1. /\ pit' = Pending(n, y, s) /\ Forward(in, <<n, pit'[n][y]>>, v)
        /\ UNCHANGED aborted
    BY <1>2, <1>6, Zenon DEF HandleInterestPacket
  <2> HIDE DEF y
  <2>2. /\ pit' = [pit EXCEPT ![n][y] = s]
        /\ pit \in [Node -> [Name -> Node \cup {NoNode}]]
    BY <2>1 DEF Pending, TypeOK
  <2>3. pit' \in [Node -> [Name -> Node \cup {NoNode}]] /\ pit'[n][y] = s
    BY <1>4, <2>2
  <2>4. v \in Seq(Packet)
    <3>1. producers[n] \in Seq(Producer)
      BY DEF TypeOK
    <3> QED
      BY <1>4, <3>1, AnswerFacts
  <2>5. Forward(in, <<n, s>>, v)
    BY <2>1, <2>3
  <2> HIDE DEF v
  <2>6. Moved(in, <<n, s>>, v)
    BY <1>2, <2>4, <2>5, Zenon DEF Moved, Forward
  <2> QED
    BY <1>2, <1>3, <1>4, <2>1, <2>3, <2>6 DEF v, y
<1> QED
  BY <1>5, <1>6

\* The copy of the file that an interest is answered with is paid with the
\* interest.
LEMMA BudgetInterest ==
    ASSUME TypeOK, BudgetInv, NEW s \in Node, NEW n \in Node, NEW y \in Name,
           net[<<s, n>>][1] = Interest(y), n = HostOf(y),
           NEW v, Moved(<<s, n>>, <<n, s>>, v),
           \A j \in DOMAIN v : v[j].type = "DATA" /\ v[j].name = y,
           \A j, k \in DOMAIN v : v[j] = v[k] => j = k,
           UNCHANGED <<received, consumers>>
    PROVE  BudgetInv'
<1> SUFFICES ASSUME NEW e \in Consumer, NEW d \in Chunk, HostOf(Wanted[e]) \in Node
             PROVE  LET ne == ConsumerNode[e]
                        x == Wanted[e]
                        h == HostOf(x)
                    IN Count(received'[e], d) + Count(net'[<<h, ne>>], Data(x, d))
                          + Count(net'[<<ne, h>>], Interest(x))
                             <= Cardinality(Asking(ne, x)')
  BY BudgetGoal
<1> DEFINE ne == ConsumerNode[e]
           x == Wanted[e]
           h == HostOf(x)
           a == Count(net[<<h, ne>>], Data(x, d))
           a2 == Count(net'[<<h, ne>>], Data(x, d))
           i == Count(net[<<ne, h>>], Interest(x))
           i2 == Count(net'[<<ne, h>>], Interest(x))
           r == Count(received[e], d)
           k == Cardinality(Asking(ne, x))
<1>1. /\ ne \in Node /\ x \in Name /\ <<h, ne>> \in Link /\ <<ne, h>> \in Link
      /\ a \in Nat /\ i \in Nat /\ r \in Nat /\ k \in Nat /\ r + a + i <= k
  BY BudgetParts
<1>2. net \in [Link -> Seq(Packet)]
  BY DEF TypeOK
<1>3. Count(received'[e], d) = r /\ Cardinality(Asking(ne, x)') = k
  BY DEF Asking
<1>4. \A j \in DOMAIN v : v[j] # Interest(x)
  BY InterestFields
<1>5. i2 \in Nat /\ i2 <= i
  BY <1>1, <1>2, <1>4, MovedCount
<1>6. a2 \in Nat /\ a2 <= a + 1
  BY <1>1, <1>2, MovedCount
<1>7. CASE x = y /\ ne = s
  <2>1. <<ne, h>> = <<s, n>> /\ net[<<ne, h>>][1] = Interest(x)
    BY <1>7
  <2>2. i2 <= i - 1
    BY <1>1, <1>2, <1>4, <2>1, MovedCount
  <2> HIDE DEF ne, x, h, a, a2, i, i2, r, k
  <2>3. r + a2 + i2 <= k
    BY <1>1, <1>5, <1>6, <2>2
  <2> QED
    BY <1>3, <2>3 DEF ne, x, h, a2, i2, k
<1>8. CASE ~(x = y /\ ne = s)
  <2>1. <<h, ne>> # <<n, s>> \/ \A j \in DOMAIN v : v[j] # Data(x, d)
    <3>1. CASE x = y
      BY <1>8, <3>1
    <3>2. CASE x # y
      BY <3>2, DataFields
    <3> QED
      BY <3>1, <3>2
  <2>2. a2 <= a
    BY <1>1, <1>2, <2>1, MovedCount
  <2> HIDE DEF ne, x, h, a, a2, i, i2, r, k
  <2>3. r + a2 + i2 <= k
    BY <1>1, <1>5, <1>6, <2>2
  <2> QED
    BY <1>3, <2>3 DEF ne, x, h, a2, i2, k
<1> QED
  BY <1>7, <1>8

\* An interest arrives.
LEMMA HandleInterestCInv ==
    ASSUME CInv, NEW s \in Node, NEW n \in Node, HandleInterestPacket(s, n)
    PROVE  CInv'
<1> DEFINE in == <<s, n>>
           q == net[in]
           y == q[1].name
           v == Answer(n, y)
<1>1. /\ TypeOK /\ net \in [Link -> Seq(Packet)] /\ consumers \in [Node -> Seq(Consumer)]
      /\ received \in [Consumer -> Seq(Chunk)] /\ producers[n] \in Seq(Producer)
  BY DEF CInv, TypeOK
<1>2. /\ q # <<>> /\ q[1].type = "INTEREST" /\ y \in Name
      /\ UNCHANGED <<consumers, producers, received, losses>>
      /\ \/ UNCHANGED <<pit, net>> /\ aborted' = TRUE
         \/ /\ pit' \in [Node -> [Name -> Node \cup {NoNode}]]
            /\ Moved(in, <<n, s>>, v)
            /\ UNCHANGED aborted
  BY <1>1, InterestMoves
<1>3. CASE UNCHANGED <<pit, net>> /\ aborted' = TRUE
  <2>1. TypeOK'
    BY <1>1, <1>2, <1>3 DEF TypeOK
  <2> QED
    BY <1>2, <1>3, <2>1, StepNone DEF CInv
<1>4. CASE /\ pit' \in [Node -> [Name -> Node \cup {NoNode}]]
           /\ Moved(in, <<n, s>>, v)
           /\ UNCHANGED aborted
  <2>1. /\ \A i \in DOMAIN v : /\ v[i].type = "DATA" /\ v[i].name = y
                               /\ y = ContentName(v[i].chunk.by) /\ Whole(v[i].chunk)
        /\ \A i, j \in DOMAIN v : v[i] = v[j] => i = j
        /\ Seamless(v) /\ (v # <<>> => ~Inner(v[1]))
    <3>1. y \in Name /\ producers[n] \in Seq(Producer)
      BY <1>1, <1>2
    <3> HIDE DEF y
    <3>2. \A i \in DOMAIN v : /\ v[i].type = "DATA" /\ v[i].name = y
                              /\ y = ContentName(v[i].chunk.by) /\ Whole(v[i].chunk)
      BY <3>1, AnswerFacts
    <3>3. /\ \A i, j \in DOMAIN v : v[i] = v[j] => i = j
          /\ Seamless(v) /\ (v # <<>> => ~Inner(v[1]))
      BY <3>1, AnswerFacts
    <3> QED
      BY <3>2, <3>3
  <2>2. q[1] \in Packet /\ OnRoute(consumers, s, n, q[1])
    BY <1>1, <1>2, HeadOnRoute DEF CInv
  <2>3. n = HostOf(y) /\ FirstOf(consumers, s, y) # {} /\ q[1] = Interest(y)
    <3>1. n = HostOf(y) /\ FirstOf(consumers, s, y) # {}
      BY <1>2, <2>2 DEF OnRoute
    <3>2. q[1] = Interest(y)
      <4> HIDE DEF q
      <4> QED
        BY <1>2, <2>2, PacketKinds
    <3> QED
      BY <3>1, <3>2
  <2> HIDE DEF v
  <2>4. TypeOK'
    <3>1. \A k \in Link : net'[k] \in Seq(Packet)
      BY <1>1, <1>4, MovedFacts
    <3>2. net' \in [Link -> Seq(Packet)]
      <4>1. net' = [k \in Link |-> net'[k]]
        BY <1>4 DEF Moved
      <4> HIDE DEF Link, Packet
      <4> QED
        BY <3>1, <4>1
    <3> QED
      BY <1>1, <1>2, <1>4, <3>2 DEF TypeOK
  <2>5. ConsumersHome' /\ Kept /\ GivenInv' /\ ContentIntact'
    <3>1. Kept
      BY <1>2, KeptSame
    <3>2. GivenInv'
      BY <1>2, <3>1, GivenKept DEF CInv
    <3> QED
      BY <1>2, <3>1, <3>2 DEF CInv, ConsumersHome, ContentIntact
  <2>6. RouteInv'
    <3>1. ASSUME NEW t \in Node, NEW k \in Node, <<n, s>> = <<t, k>>, NEW j \in DOMAIN v
          PROVE  OnRoute(consumers', t, k, v[j])
      <4>1. t = n /\ k = s /\ consumers' = consumers
        BY <1>2, <3>1
      <4> HIDE DEF y
      <4> QED
        BY <2>1, <2>3, <4>1 DEF OnRoute
    <3> DEFINE out == <<n, s>>
    <3>2. \A t, k \in Node : out = <<t, k>> =>
             \A j \in DOMAIN v : OnRoute(consumers', t, k, v[j])
      BY <3>1
    <3>3. Moved(in, out, v)
      BY <1>4
    <3> HIDE DEF in, out
    <3> QED
      BY <1>1, <2>5, <3>2, <3>3, RouteStep DEF CInv
  <2>7. BudgetInv'
    <3> HIDE DEF y
    <3> QED
      BY <1>1, <1>2, <1>4, <2>1, <2>3, BudgetInterest DEF CInv
  <2>8. FlowInv'
    <3> DEFINE out == <<n, s>>
    <3>1. Moved(in, out, v) /\ net[in][1].type = "INTEREST"
      BY <1>2, <1>4
    <3> HIDE DEF in, out
    <3> QED
      BY <1>1, <1>2, <2>1, <2>5, <3>1, FlowKept DEF CInv
  <2> QED
    BY <2>4, <2>5, <2>6, <2>7, <2>8 DEF CInv
<1> QED
  BY <1>2, <1>3, <1>4


\* What a callback's record looks like after one more piece.
LEMMA OneMore ==
    ASSUME NEW R, NEW s \in Seq(R), NEW e \in R, NEW t, t = Append(s, e)
    PROVE  /\ t \in Seq(R) /\ t # <<>> /\ Last(t) = e /\ Len(s) \in Nat
           /\ \A i \in DOMAIN t : \/ i \in DOMAIN s /\ t[i] = s[i]
                                  \/ i = Len(s) + 1 /\ t[i] = e
           /\ \A i \in DOMAIN s : i \in Nat /\ t[i] = s[i] /\ i - 1 # Len(s) + 1
                                     /\ (i > 1 => i - 1 \in DOMAIN s)
           /\ Len(s) # 0 => t[Len(s)] = Last(s) /\ Len(s) \in DOMAIN s
           /\ Len(s) # 0 <=> s # <<>>
<1>1. /\ t \in Seq(R) /\ Len(t) = Len(s) + 1 /\ Len(s) \in Nat
      /\ DOMAIN t = 1..(Len(s) + 1) /\ DOMAIN s = 1..Len(s)
      /\ \A i \in 1..Len(s) : t[i] = s[i]
      /\ t[Len(s) + 1] = e
  OBVIOUS
<1>2. t # <<>> /\ Last(t) = e
  <2>1. Last(t) = e
    BY <1>1, Zenon DEF Last
  <2>2. Len(t) # 0
    BY <1>1
  <2> QED
    BY <2>1, <2>2
<1>3. \A i \in DOMAIN t : \/ i \in DOMAIN s /\ t[i] = s[i]
                          \/ i = Len(s) + 1 /\ t[i] = e
  BY <1>1
<1>4. \A i \in DOMAIN s : i \in Nat /\ t[i] = s[i] /\ i - 1 # Len(s) + 1
                             /\ (i > 1 => i - 1 \in DOMAIN s)
  BY <1>1
<1>5. Len(s) # 0 => t[Len(s)] = Last(s) /\ Len(s) \in DOMAIN s
  <2> SUFFICES ASSUME Len(s) # 0 PROVE t[Len(s)] = Last(s) /\ Len(s) \in DOMAIN s
    OBVIOUS
  <2>1. Len(s) \in 1..Len(s)
    BY <1>1
  <2> QED
    BY <1>1, <2>1, Zenon DEF Last
<1>6. Len(s) # 0 <=> s # <<>>
  OBVIOUS
<1> QED
  BY <1>1, <1>2, <1>3, <1>4, <1>5, <1>6

\* One more piece is one more copy at most.
LEMMA OneMoreCount ==
    ASSUME NEW R, NEW s \in Seq(R), NEW e \in R, NEW x
    PROVE  /\ Count(Append(s, e), x) <= Count(s, x) + 1
           /\ x # e => Count(Append(s, e), x) <= Count(s, x)
<1> DEFINE v == <<e>>
<1>1. v \in Seq(R) /\ Append(s, e) = s \o v /\ DOMAIN v = {1} /\ v[1] = e
  OBVIOUS
<1>2. /\ \A i, j \in DOMAIN v : v[i] = v[j] => i = j
      /\ x # e => \A i \in DOMAIN v : v[i] # x
  BY <1>1
<1> HIDE DEF v
<1>3. /\ (\A i \in DOMAIN v : v[i] # x) => Count(s \o v, x) = Count(s, x)
      /\ Count(s \o v, x) <= Count(s, x) + 1
  BY <1>1, <1>2, CountJoin
<1>4. Count(s, x) \in Nat
  BY CountType
<1> QED
  BY <1>1, <1>2, <1>3, <1>4

\* A piece is taken from the link and given to the first consumer of the name.
LEMMA DataMoves ==
    ASSUME CInv, NEW s \in Node, NEW n \in Node, HandleDataPacket(s, n)
    PROVE  LET m == net[<<s, n>>][1]
           IN /\ net[<<s, n>>] # <<>> /\ m \in Packet /\ m.type = "DATA"
              /\ m.name \in Name /\ m.chunk \in Chunk /\ m = Data(m.name, m.chunk)
              /\ s = HostOf(m.name) /\ m.name = ContentName(m.chunk.by)
              /\ Whole(m.chunk)
              /\ UNCHANGED <<consumers, producers, pit, aborted, losses>>
              /\ Moved(<<s, n>>, <<s, n>>, <<>>)
              /\ \E c \in Consumer :
                    /\ c \in FirstOf(consumers, n, m.name)
                    /\ Wanted[c] = m.name /\ ConsumerNode[c] = n
                    /\ received' = [received EXCEPT ![c] = Append(@, m.chunk)]
<1> DEFINE in == <<s, n>>
           q == net[in]
           m == q[1]
           F == FirstOf(consumers, n, m.name)
<1> HIDE DEF Link, Packet, Name, Chunk
<1>1. /\ in \in Link /\ net \in [Link -> Seq(Packet)]
      /\ consumers \in [Node -> Seq(Consumer)]
  BY DEF CInv, TypeOK, Link
<1>2. q # <<>> /\ q \in Seq(Packet) /\ Head(q) = m
  <2>1. q # <<>> /\ q \in Seq(Packet)
    BY <1>1 DEF HandleDataPacket
  <2> HIDE DEF q
  <2> QED
    BY <2>1
<1>3. /\ m.type = "DATA"
      /\ UNCHANGED <<consumers, producers, pit, aborted, losses>>
      /\ Forward(in, in, <<>>)
  <2>1. m.type = "DATA"
    BY <1>2 DEF HandleDataPacket
  <2>2. UNCHANGED <<consumers, producers, pit, aborted, losses>> /\ Forward(in, in, <<>>)
    BY DEF HandleDataPacket
  <2> QED
    BY <2>1, <2>2
<1>4. m \in Packet /\ OnRoute(consumers, s, n, m)
  BY <1>1, <1>2, HeadOnRoute DEF CInv
<1>5. m.name \in Name /\ m.chunk \in Chunk /\ m = Data(m.name, m.chunk)
  <2> HIDE DEF m
  <2> QED
    BY <1>3, <1>4, PacketKinds
<1>6. /\ s = HostOf(m.name) /\ F # {} /\ m.name = ContentName(m.chunk.by)
      /\ Whole(m.chunk)
  BY <1>3, <1>4 DEF OnRoute
<1>7. Moved(in, in, <<>>)
  <2>1. <<>> \in Seq(Packet)
    OBVIOUS
  <2> QED
    BY <1>2, <1>3, <2>1, Zenon DEF Moved, Forward
<1> DEFINE G == Notified(n, Head(q).name)
           c == CHOOSE b \in G : TRUE
<1>8. G = F /\ c \in F
  <2>1. G = F
    BY <1>2 DEF FirstOf, Notified
  <2> HIDE DEF F, G
  <2> QED
    BY <1>6, <2>1
<1>9. received' = [received EXCEPT ![c] = Append(@, m.chunk)]
  <2>1. G # {}
    BY <1>6, <1>8
  <2>2. received' = [received EXCEPT ![c] = Append(@, Head(q).chunk)]
    BY <2>1 DEF HandleDataPacket
  <2> HIDE DEF c
  <2> QED
    BY <1>2, <2>2
<1> HIDE DEF c
<1>10. c \in Consumer /\ Wanted[c] = m.name /\ c \in Elems(consumers[n])
  <2> HIDE DEF m
  <2> QED
    BY <1>1, <1>5, <1>8, FirstOfFacts
<1>11. ConsumerNode[c] = n
  BY <1>10 DEF CInv, ConsumersHome
<1>12. \E b \in Consumer :
          /\ b \in F /\ Wanted[b] = m.name /\ ConsumerNode[b] = n
          /\ received' = [received EXCEPT ![b] = Append(@, m.chunk)]
  BY <1>8, <1>9, <1>10, <1>11
<1> QED
  BY <1>2, <1>3, <1>4, <1>5, <1>6, <1>7, <1>12

\* A piece moves from the link to the consumer.
LEMMA BudgetData ==
    ASSUME TypeOK, BudgetInv, NEW s \in Node, NEW n \in Node, NEW c \in Consumer,
           ConsumerNode[c] = n, HostOf(Wanted[c]) = s, NEW g \in Chunk,
           net[<<s, n>>][1] = Data(Wanted[c], g), Moved(<<s, n>>, <<s, n>>, <<>>),
           received' = [received EXCEPT ![c] = Append(@, g)], UNCHANGED consumers
    PROVE  BudgetInv'
<1> SUFFICES ASSUME NEW e \in Consumer, NEW d \in Chunk, HostOf(Wanted[e]) \in Node
             PROVE  LET ne == ConsumerNode[e]
                        x == Wanted[e]
                        h == HostOf(x)
                    IN Count(received'[e], d) + Count(net'[<<h, ne>>], Data(x, d))
                          + Count(net'[<<ne, h>>], Interest(x))
                             <= Cardinality(Asking(ne, x)')
  BY BudgetGoal
<1> DEFINE ne == ConsumerNode[e]
           x == Wanted[e]
           h == HostOf(x)
           a == Count(net[<<h, ne>>], Data(x, d))
           a2 == Count(net'[<<h, ne>>], Data(x, d))
           i == Count(net[<<ne, h>>], Interest(x))
           i2 == Count(net'[<<ne, h>>], Interest(x))
           r == Count(received[e], d)
           r2 == Count(received'[e], d)
           k == Cardinality(Asking(ne, x))
<1>1. /\ ne \in Node /\ x \in Name /\ <<h, ne>> \in Link /\ <<ne, h>> \in Link
      /\ a \in Nat /\ i \in Nat /\ r \in Nat /\ k \in Nat /\ r + a + i <= k
  BY BudgetParts
<1>2. net \in [Link -> Seq(Packet)] /\ received \in [Consumer -> Seq(Chunk)]
  BY DEF TypeOK
<1>3. Cardinality(Asking(ne, x)') = k
  BY DEF Asking
<1>4. \A y : \A j \in DOMAIN (<<>>) : (<<>>)[j] # y
  OBVIOUS
<1>5. i2 \in Nat /\ i2 <= i
  BY <1>1, <1>2, <1>4, MovedCount
<1>6. a2 \in Nat /\ a2 <= a
  BY <1>1, <1>2, <1>4, MovedCount
<1>7. r2 \in Nat /\ r2 <= r + 1 /\ (~(e = c /\ d = g) => r2 <= r)
  <2>1. CASE e # c
    <3>1. received'[e] = received[e]
      BY <1>2, <2>1
    <3> QED
      BY <1>1, <2>1, <3>1
  <2>2. CASE e = c
    <3> DEFINE p == received[c]
               t == Append(p, g)
    <3>1. p \in Seq(Chunk) /\ received'[e] = t /\ t = Append(p, g)
      BY <1>2, <2>2
    <3> HIDE DEF p, t, Chunk
    <3>2. t \in Seq(Chunk)
      BY <3>1, OneMore
    <3>3. Count(t, d) <= Count(p, d) + 1 /\ (d # g => Count(t, d) <= Count(p, d))
      BY <3>1, OneMoreCount
    <3>4. Count(t, d) \in Nat
      BY <3>2, CountType
    <3> QED
      BY <2>2, <3>1, <3>3, <3>4 DEF p
  <2> QED
    BY <2>1, <2>2
<1>8. CASE e = c /\ d = g
  <2>1. <<h, ne>> = <<s, n>> /\ net[<<h, ne>>][1] = Data(x, d)
    BY <1>8
  <2>2. a2 <= a - 1
    BY <1>1, <1>2, <1>4, <2>1, MovedCount
  <2> HIDE DEF ne, x, h, a, a2, i, i2, r, r2, k
  <2>3. r2 + a2 + i2 <= k
    BY <1>1, <1>5, <1>6, <1>7, <2>2
  <2> QED
    BY <1>3, <2>3 DEF ne, x, h, a2, i2, k, r2
<1>9. CASE ~(e = c /\ d = g)
  <2> HIDE DEF ne, x, h, a, a2, i, i2, r, r2, k
  <2>1. r2 + a2 + i2 <= k
    BY <1>1, <1>5, <1>6, <1>7, <1>9
  <2> QED
    BY <1>3, <2>1 DEF ne, x, h, a2, i2, k, r2
<1> QED
  BY <1>8, <1>9


\* The piece that consumer c is given from the head m of the link <<s, n>>:
\* what the steps below have in common.
Given(s, n, c, m) ==
    /\ net[<<s, n>>] # <<>> /\ m = net[<<s, n>>][1]
    /\ m \in Packet /\ m.type = "DATA" /\ m.name \in Name /\ m.chunk \in Chunk
    /\ s = HostOf(m.name) /\ m.name = ContentName(m.chunk.by) /\ Whole(m.chunk)
    /\ c \in FirstOf(consumers, n, m.name) /\ Wanted[c] = m.name
    /\ ConsumerNode[c] = n
    /\ Moved(<<s, n>>, <<s, n>>, <<>>)
    /\ received' = [received EXCEPT ![c] = Append(@, m.chunk)]
    /\ UNCHANGED <<consumers, losses>>

\* The consumers' records after the piece was given.
LEMMA GivenRecord ==
    ASSUME received \in [Consumer -> Seq(Chunk)], NEW s \in Node, NEW n \in Node,
           NEW c \in Consumer, NEW m, Given(s, n, c, m)
    PROVE  /\ received' \in [Consumer -> Seq(Chunk)]
           /\ \A e \in Consumer : e # c => received'[e] = received[e]
           /\ received[c] \in Seq(Chunk) /\ m.chunk \in Chunk
           /\ received'[c] = Append(received[c], m.chunk)
<1> HIDE DEF Chunk
<1>1. m.chunk \in Chunk /\ received' = [received EXCEPT ![c] = Append(@, m.chunk)]
  BY DEF Given
<1> QED
  BY <1>1

\* Only the first consumer of a name is given the piece.
LEMMA GivenData ==
    ASSUME CInv, NEW s \in Node, NEW n \in Node, NEW c \in Consumer, NEW m,
           Given(s, n, c, m)
    PROVE  GivenInv'
<1>1. received \in [Consumer -> Seq(Chunk)] /\ UNCHANGED consumers
  BY DEF CInv, TypeOK, Given
<1>2. /\ \A e \in Consumer : e # c => received'[e] = received[e]
      /\ received[c] \in Seq(Chunk) /\ m.chunk \in Chunk
      /\ received'[c] = Append(received[c], m.chunk)
  BY <1>1, GivenRecord
<1> DEFINE p == received[c]
           t == received'[c]
<1>3. p \in Seq(Chunk) /\ t = Append(p, m.chunk) /\ m.chunk \in Chunk
  BY <1>2
<1> HIDE DEF p, t
<1>4. \A i \in DOMAIN t : \/ i \in DOMAIN p /\ t[i] = p[i]
                          \/ i = Len(p) + 1 /\ t[i] = m.chunk
  <2> HIDE DEF Chunk
  <2> QED
    BY <1>3, OneMore
<1> SUFFICES ASSUME NEW e \in Consumer, NEW i \in DOMAIN received'[e]
             PROVE  /\ e \in FirstOf(consumers', ConsumerNode[e], Wanted[e])
                    /\ HostOf(Wanted[e]) \in Node
                    /\ ContentName(received'[e][i].by) = Wanted[e]
                    /\ Whole(received'[e][i])
  BY DEF GivenInv
<1>5. CASE \E j \in DOMAIN received[e] : received'[e][i] = received[e][j]
  <2>1. PICK j \in DOMAIN received[e] : received'[e][i] = received[e][j]
    BY <1>5
  <2>2. /\ e \in FirstOf(consumers, ConsumerNode[e], Wanted[e])
        /\ HostOf(Wanted[e]) \in Node
        /\ ContentName(received[e][j].by) = Wanted[e]
        /\ Whole(received[e][j])
    BY DEF CInv, GivenInv
  <2> QED
    BY <1>1, <2>1, <2>2
<1>6. CASE e = c /\ received'[e][i] = m.chunk
  BY <1>1, <1>6 DEF Given
<1>7. CASE e # c
  BY <1>2, <1>5, <1>7
<1>8. CASE e = c
  BY <1>4, <1>5, <1>6, <1>8 DEF p, t
<1> QED
  BY <1>7, <1>8

\* The pieces of a file still follow each other from the consumer's last one.
LEMMA FlowData ==
    ASSUME CInv, NEW s \in Node, NEW n \in Node, NEW c \in Consumer, NEW m,
           Given(s, n, c, m)
    PROVE  FlowInv'
<1> SUFFICES ASSUME losses' = 0
             PROVE  /\ \A t, k \in Node : Seamless(net'[<<t, k>>]) /\ HeadFlow(t, k)'
                    /\ \A e \in Consumer : OpenFlow(e)'
  BY DEF FlowInv
<1> DEFINE in == <<s, n>>
           q == net[in]
<1>1. /\ losses = 0 /\ FlowInv /\ RouteInv /\ GivenInv /\ ConsumersHome
      /\ net \in [Link -> Seq(Packet)] /\ received \in [Consumer -> Seq(Chunk)]
      /\ consumers \in [Node -> Seq(Consumer)]
  BY DEF CInv, TypeOK, Given
<1>2. /\ in \in Link /\ q # <<>> /\ m = q[1] /\ m.type = "DATA" /\ m.name \in Name
      /\ s = HostOf(m.name) /\ m.name = ContentName(m.chunk.by)
      /\ c \in FirstOf(consumers, n, m.name) /\ Wanted[c] = m.name
      /\ ConsumerNode[c] = n /\ Moved(in, in, <<>>) /\ consumers' = consumers
  BY DEF Given, Link
<1>3. /\ \A e \in Consumer : e # c => received'[e] = received[e]
      /\ received'[c] # <<>> /\ Last(received'[c]) = m.chunk
  <2>1. /\ \A e \in Consumer : e # c => received'[e] = received[e]
        /\ received[c] \in Seq(Chunk) /\ m.chunk \in Chunk
        /\ received'[c] = Append(received[c], m.chunk)
    BY <1>1, GivenRecord
  <2> DEFINE p == received[c]
             t == received'[c]
             g == m.chunk
  <2>2. p \in Seq(Chunk) /\ t = Append(p, g) /\ g \in Chunk
    BY <2>1
  <2> HIDE DEF p, t, g, Chunk
  <2>3. t # <<>> /\ Last(t) = g
    <3>1. t # <<>>
      BY <2>2, OneMore
    <3>2. Len(t) = Len(p) + 1 /\ t[Len(p) + 1] = g
      BY <2>2
    <3>3. Last(t) = g
      BY <3>2, Zenon DEF Last
    <3> QED
      BY <3>1, <3>3
  <2> QED
    BY <2>1, <2>3 DEF t, g
<1>4. Seamless(<<>>)
  BY DEF Seamless
<1>5. ASSUME NEW t \in Node, NEW k \in Node
      PROVE  Seamless(net'[<<t, k>>]) /\ HeadFlow(t, k)'
  <2> DEFINE l == <<t, k>>
  <2>1. l \in Link
    BY DEF Link
  <2>2. Seamless(net[l])
    BY <1>1, FlowParts
  <2>3. Seamless(net'[l])
    BY <1>1, <1>2, <1>4, <2>1, <2>2, MovedFacts
  <2>4. HeadFlow(t, k)'
    <3> SUFFICES ASSUME net'[l] # <<>>, Inner(net'[l][1]),
                        NEW b \in FirstOf(consumers, k, net'[l][1].name)
                 PROVE  received'[b] # <<>> /\ Continues(Last(received'[b]), net'[l][1].chunk)
      BY <1>2 DEF HeadFlow
    <3>1. \/ l # in /\ net[l] # <<>> /\ net'[l][1] = net[l][1]
          \/ l = in /\ 2 \in DOMAIN net[l] /\ net'[l][1] = net[l][2]
      <4> DEFINE v == <<>>
      <4>1. Moved(in, in, v)
        BY <1>2
      <4> HIDE DEF v, l, in
      <4>2. \/ l # in /\ net[l] # <<>> /\ net'[l][1] = net[l][1]
            \/ l = in /\ 2 \in DOMAIN net[l] /\ net'[l][1] = net[l][2]
            \/ v # <<>>
        BY <1>1, <2>1, <4>1, MovedFacts
      <4> QED
        BY <4>2 DEF v
    <3>2. CASE l # in /\ net[l] # <<>> /\ net'[l][1] = net[l][1]
      <4> DEFINE o == net[l][1]
      <4>1. o \in Packet /\ OnRoute(consumers, t, k, o)
        BY <1>1, <3>2, HeadOnRoute
      <4>2. o.name \in Name
        BY <4>1, PacketKinds
      <4>3. b \in Consumer /\ Wanted[b] = o.name /\ b \in Elems(consumers[k])
        <5> HIDE DEF o
        <5>1. b \in FirstOf(consumers, k, o.name)
          BY <3>2 DEF o
        <5> QED
          BY <1>1, <4>2, <5>1, FirstOfFacts
      <4>4. b # c
        <5> SUFFICES ASSUME b = c PROVE FALSE
          OBVIOUS
        <5>1. o.name = m.name /\ ConsumerNode[c] = k
          BY <1>1, <1>2, <4>3 DEF ConsumersHome
        <5>2. o.type = "DATA"
          BY <3>2 DEF Inner
        <5>3. t = HostOf(o.name)
          BY <4>1, <5>2 DEF OnRoute
        <5> QED
          BY <1>2, <3>2, <5>1, <5>3
      <4>5. received[b] # <<>> /\ Continues(Last(received[b]), o.chunk)
        <5>1. Inner(net[l][1]) /\ b \in FirstOf(consumers, k, net[l][1].name)
          BY <3>2
        <5> QED
          BY <1>1, <3>2, <5>1, FlowParts
      <4> QED
        BY <1>3, <3>2, <4>3, <4>4, <4>5
    <3>3. CASE l = in /\ 2 \in DOMAIN net[l] /\ net'[l][1] = net[l][2]
      <4>1. t = s /\ k = n
        BY <3>3
      <4>2. Seamless(q) /\ 2 \in DOMAIN q /\ Inner(q[2])
        BY <2>2, <3>3
      <4>3. Continues(m.chunk, q[2].chunk)
        <5> HIDE DEF q
        <5> QED
          BY <1>2, <4>2, SecondInner
      <4>4. OnRoute(consumers, s, n, q[2])
        BY <1>1, <4>2 DEF RouteInv
      <4>5. q[2].name = m.name
        BY <1>2, <4>2, <4>3, <4>4 DEF OnRoute, Inner, Continues
      <4>6. b = c
        <5>1. b \in FirstOf(consumers, n, m.name)
          BY <3>3, <4>1, <4>5
        <5> DEFINE y == m.name
        <5>2. y \in Name /\ b \in FirstOf(consumers, n, y) /\ c \in FirstOf(consumers, n, y)
          BY <1>2, <5>1
        <5> HIDE DEF y
        <5> QED
          BY <1>1, <5>2, FirstOfFacts
      <4> QED
        BY <1>3, <3>3, <4>3, <4>6
    <3> QED
      BY <3>1, <3>2, <3>3
  <2> QED
    BY <2>3, <2>4
<1>6. ASSUME NEW e \in Consumer
      PROVE  OpenFlow(e)'
  <2> DEFINE l == <<HostOf(Wanted[e]), ConsumerNode[e]>>
  <2> SUFFICES ASSUME received'[e] # <<>>, Last(received'[e]).bytes = ChunkLen
               PROVE  /\ net'[l] # <<>> /\ net'[l][1].type = "DATA"
                      /\ Continues(Last(received'[e]), net'[l][1].chunk)
    BY DEF OpenFlow
  <2>1. CASE e = c
    <3>1. l = in
      BY <1>2, <2>1
    <3>2. m.chunk.bytes = ChunkLen
      BY <1>3, <2>1
    <3>3. Seamless(q) /\ 1 \in DOMAIN q
      BY <1>1, <1>2, FlowParts, HeadOnRoute
    <3>4. /\ 1 + 1 \in DOMAIN q /\ q[1 + 1].type = "DATA"
          /\ Continues(m.chunk, q[1 + 1].chunk)
      <4> HIDE DEF q
      <4> QED
        BY <1>2, <3>2, <3>3 DEF Seamless
    <3>5. 2 \in DOMAIN q /\ q[2].type = "DATA" /\ Continues(m.chunk, q[2].chunk)
      BY <3>4
    <3>6. net'[in] # <<>> /\ net'[in][1] = q[2]
      BY <1>1, <1>2, <3>5, MovedFacts
    <3> QED
      BY <1>3, <2>1, <3>1, <3>5, <3>6
  <2>2. CASE e # c
    <3>1. received'[e] = received[e]
      BY <1>3, <2>2
    <3>2. /\ net[l] # <<>> /\ net[l][1].type = "DATA"
          /\ Continues(Last(received[e]), net[l][1].chunk)
      BY <1>1, <3>1 DEF FlowInv, OpenFlow
    <3>3. /\ e \in FirstOf(consumers, ConsumerNode[e], Wanted[e])
          /\ HostOf(Wanted[e]) \in Node /\ ConsumerNode[e] \in Node
          /\ ContentName(Last(received[e]).by) = Wanted[e]
      <4>1. received[e] \in Seq(Chunk) /\ received[e] # <<>>
        BY <1>1, <3>1
      <4>2. Len(received[e]) \in DOMAIN received[e]
        <5> DEFINE z == received[e]
        <5> HIDE DEF z, Chunk
        <5>1. z \in Seq(Chunk) /\ z # <<>>
          BY <4>1 DEF z
        <5>2. Len(z) \in DOMAIN z
          BY <5>1
        <5> QED
          BY <5>2 DEF z
      <4> QED
        BY <1>1, <4>2, WantedName DEF GivenInv, Last
    <3>4. l \in Link
      BY <3>3 DEF Link
    <3>5. l # in
      <4> SUFFICES ASSUME l = in PROVE FALSE
        OBVIOUS
      <4>1. ConsumerNode[e] = n /\ net[l][1] = m
        BY <1>2
      <4>2. Wanted[e] = m.name
        BY <1>2, <3>2, <3>3, <4>1 DEF Continues
      <4>3. e \in FirstOf(consumers, n, m.name)
        BY <3>3, <4>1, <4>2
      <4> DEFINE y == m.name
      <4>4. y \in Name /\ e \in FirstOf(consumers, n, y) /\ c \in FirstOf(consumers, n, y)
        BY <1>2, <4>3
      <4> HIDE DEF y
      <4>5. e = c
        BY <1>1, <4>4, FirstOfFacts
      <4> QED
        BY <2>2, <4>5
    <3>6. net'[l] # <<>> /\ net'[l][1] = net[l][1]
      <4> HIDE DEF l, in
      <4> QED
        BY <1>1, <1>2, <3>2, <3>4, <3>5, MovedFacts
    <3> QED
      BY <3>1, <3>2, <3>6
  <2> QED
    BY <2>1, <2>2
<1> QED
  BY <1>5, <1>6


\* The piece lies where the consumer's last one ended.
LEMMA IntactData ==
    ASSUME CInv, NEW s \in Node, NEW n \in Node, NEW c \in Consumer, NEW m,
           Given(s, n, c, m)
    PROVE  ContentIntact'
<1> SUFFICES ASSUME losses' = 0, NEW e \in Consumer, NEW i \in DOMAIN received'[e]
             PROVE  \/ /\ received'[e][i].offset = 0
                       /\ i > 1 => Ends(received'[e][i - 1])
                    \/ /\ i > 1
                       /\ received'[e][i].offset
                             = received'[e][i - 1].offset + received'[e][i - 1].bytes
  BY DEF ContentIntact
<1>1. /\ losses = 0 /\ FlowInv /\ GivenInv /\ ContentIntact
      /\ received \in [Consumer -> Seq(Chunk)]
  BY DEF CInv, TypeOK, Given
<1>2. /\ net[<<s, n>>] # <<>> /\ m = net[<<s, n>>][1] /\ m.type = "DATA"
      /\ s = HostOf(m.name) /\ c \in FirstOf(consumers, n, m.name)
      /\ Wanted[c] = m.name /\ ConsumerNode[c] = n
  BY DEF Given
<1>3. /\ \A b \in Consumer : b # c => received'[b] = received[b]
      /\ received[c] \in Seq(Chunk) /\ m.chunk \in Chunk
      /\ received'[c] = Append(received[c], m.chunk)
  BY <1>1, GivenRecord
<1>4. CASE e # c
  <2>1. received'[e] = received[e]
    BY <1>3, <1>4
  <2> QED
    BY <1>1, <2>1 DEF ContentIntact
<1>5. CASE e = c
  <2> DEFINE p == received[c]
             t == received'[c]
             g == m.chunk
  <2>1. p \in Seq(Chunk) /\ t = Append(p, g) /\ g \in Chunk /\ i \in DOMAIN t
    BY <1>3, <1>5
  <2> HIDE DEF p, t, g
  <2>2. /\ \/ i \in DOMAIN p /\ t[i] = p[i]
           \/ i = Len(p) + 1 /\ t[i] = g
        /\ Len(p) \in Nat
    <3> HIDE DEF Chunk
    <3> QED
      BY <2>1, OneMore
  <2>3. \A j \in DOMAIN p : j \in Nat /\ t[j] = p[j] /\ (j > 1 => j - 1 \in DOMAIN p)
    <3> HIDE DEF Chunk
    <3> QED
      BY <2>1, OneMore
  <2>4. /\ Len(p) # 0 => t[Len(p)] = Last(p) /\ Len(p) \in DOMAIN p
        /\ Len(p) # 0 <=> p # <<>>
    <3> HIDE DEF Chunk
    <3> QED
      BY <2>1, OneMore
  <2>5. CASE i \in DOMAIN p /\ t[i] = p[i]
    <3>1. i > 1 => t[i - 1] = p[i - 1]
      BY <2>3, <2>5
    <3>2. \/ p[i].offset = 0 /\ (i > 1 => Ends(p[i - 1]))
          \/ i > 1 /\ p[i].offset = p[i - 1].offset + p[i - 1].bytes
      BY <1>1, <2>5 DEF ContentIntact, p
    <3>3. \/ t[i].offset = 0 /\ (i > 1 => Ends(t[i - 1]))
          \/ i > 1 /\ t[i].offset = t[i - 1].offset + t[i - 1].bytes
      BY <2>5, <3>1, <3>2
    <3> QED
      BY <1>5, <3>3 DEF t
  <2>6. CASE i = Len(p) + 1 /\ t[i] = g
    <3>1. i - 1 = Len(p) /\ (i > 1 <=> p # <<>>)
      BY <2>2, <2>4, <2>6
    <3>2. i > 1 => t[i - 1] = Last(p) /\ Last(p) \in Chunk
      <4>1. \A j \in DOMAIN p : p[j] \in Chunk
        <5> HIDE DEF Chunk
        <5> QED
          BY <2>1
      <4> QED
        BY <2>4, <3>1, <4>1 DEF Last
    <3>3. CASE g.offset # 0
      <4>1. Inner(net[<<s, n>>][1]) /\ c \in FirstOf(consumers, n, net[<<s, n>>][1].name)
        BY <1>2, <3>3 DEF Inner, g
      <4>2. p # <<>> /\ Continues(Last(p), g)
        BY <1>1, <1>2, <4>1, FlowParts DEF p, g
      <4>3. i > 1 /\ t[i].offset = t[i - 1].offset + t[i - 1].bytes
        BY <2>6, <3>1, <3>2, <4>2 DEF Continues
      <4> QED
        BY <1>5, <4>3 DEF t
    <3>4. CASE g.offset = 0
      <4>1. ASSUME i > 1 PROVE Ends(t[i - 1])
        <5> DEFINE z == Last(p)
        <5>1. p # <<>> /\ z \in Chunk /\ t[i - 1] = z /\ Len(p) \in DOMAIN p
          BY <2>4, <3>1, <3>2, <4>1
        <5>2. Whole(z)
          BY <1>1, <5>1 DEF GivenInv, Last, p
        <5>3. z.bytes # ChunkLen
          <6> SUFFICES ASSUME z.bytes = ChunkLen PROVE FALSE
            OBVIOUS
          <6>1. Continues(z, g)
            BY <1>1, <1>2, <5>1 DEF FlowInv, OpenFlow, p, g
          <6>2. g.offset = z.offset + ChunkLen
            BY <6>1 DEF Continues
          <6>3. z.offset \in Nat
            BY <5>1 DEF Chunk
          <6> QED
            BY <3>4, <6>2, <6>3, LengthAssumption
        <5>4. z.bytes \in 0..ChunkLen
          BY <5>1 DEF Chunk
        <5>5. z.bytes < ChunkLen
          BY <5>3, <5>4, LengthAssumption
        <5> QED
          BY <5>1, <5>2, <5>5 DEF Whole
      <4>2. t[i].offset = 0 /\ (i > 1 => Ends(t[i - 1]))
        BY <2>6, <3>4, <4>1
      <4> QED
        BY <1>5, <4>2 DEF t
    <3> QED
      BY <3>3, <3>4
  <2> QED
    BY <2>2, <2>5, <2>6
<1> QED
  BY <1>4, <1>5

\* A piece arrives.
LEMMA HandleDataCInv ==
    ASSUME CInv, NEW s \in Node, NEW n \in Node, HandleDataPacket(s, n)
    PROVE  CInv'
<1> DEFINE m == net[<<s, n>>][1]
<1>1. /\ net[<<s, n>>] # <<>> /\ m \in Packet /\ m.type = "DATA"
      /\ m.name \in Name /\ m.chunk \in Chunk /\ m = Data(m.name, m.chunk)
      /\ s = HostOf(m.name) /\ m.name = ContentName(m.chunk.by)
      /\ Whole(m.chunk)
      /\ UNCHANGED <<consumers, producers, pit, aborted, losses>>
      /\ Moved(<<s, n>>, <<s, n>>, <<>>)
      /\ \E c \in Consumer :
            /\ c \in FirstOf(consumers, n, m.name)
            /\ Wanted[c] = m.name /\ ConsumerNode[c] = n
            /\ received' = [received EXCEPT ![c] = Append(@, m.chunk)]
  BY DataMoves
<1>2. PICK c \in Consumer :
            /\ c \in FirstOf(consumers, n, m.name)
            /\ Wanted[c] = m.name /\ ConsumerNode[c] = n
            /\ received' = [received EXCEPT ![c] = Append(@, m.chunk)]
  BY <1>1
<1>3. Given(s, n, c, m)
  BY <1>1, <1>2, Zenon DEF Given
<1>4. /\ TypeOK /\ net \in [Link -> Seq(Packet)]
      /\ received \in [Consumer -> Seq(Chunk)]
  BY DEF CInv, TypeOK
<1>5. TypeOK'
  <2>1. \A k \in Link : net'[k] \in Seq(Packet)
    BY <1>1, <1>4, MovedFacts
  <2>2. net' \in [Link -> Seq(Packet)]
    <3>1. net' = [k \in Link |-> net'[k]]
      BY <1>1 DEF Moved
    <3> HIDE DEF Link, Packet
    <3> QED
      BY <2>1, <3>1
  <2>3. received' \in [Consumer -> Seq(Chunk)]
    BY <1>3, <1>4, GivenRecord
  <2> QED
    BY <1>1, <1>4, <2>2, <2>3 DEF TypeOK
<1>6. ConsumersHome' /\ Kept
  BY <1>1, KeptSame DEF CInv, ConsumersHome
<1>7. RouteInv'
  <2> DEFINE in == <<s, n>>
             v == <<>>
  <2>1. Moved(in, in, v) /\ DOMAIN v = {}
    BY <1>1
  <2> HIDE DEF in, v
  <2>2. \A t, k \in Node : in = <<t, k>> =>
           \A j \in DOMAIN v : OnRoute(consumers', t, k, v[j])
    BY <2>1
  <2> QED
    BY <1>4, <1>6, <2>1, <2>2, RouteStep DEF CInv
<1>8. BudgetInv'
  <2> DEFINE g == m.chunk
  <2>1. /\ ConsumerNode[c] = n /\ HostOf(Wanted[c]) = s /\ g \in Chunk
        /\ net[<<s, n>>][1] = Data(Wanted[c], g)
        /\ received' = [received EXCEPT ![c] = Append(@, g)] /\ UNCHANGED consumers
    BY <1>1, <1>2
  <2> HIDE DEF g, m
  <2> QED
    BY <1>1, <1>4, <2>1, BudgetData DEF CInv
<1> HIDE DEF m
<1>9. GivenInv'
  BY <1>3, GivenData
<1>10. FlowInv' /\ ContentIntact'
  BY <1>3, FlowData, IntactData
<1> QED
  BY <1>5, <1>6, <1>7, <1>8, <1>9, <1>10 DEF CInv

\* Every step keeps the invariant.
LEMMA NextCInv ==
    ASSUME CInv, [Next]_vars
    PROVE  CInv'
<1>1. CASE UNCHANGED vars
  <2>1. UNCHANGED <<consumers, net, received, losses>> /\ TypeOK'
    BY <1>1 DEF vars, CInv, TypeOK
  <2> QED
    BY <2>1, StepNone DEF CInv
<1>2. ASSUME NEW p \in Producer, StartProducer(p) PROVE CInv'
  BY <1>2, StartProducerCInv
<1>3. ASSUME NEW c \in Consumer, GetContent(c) PROVE CInv'
  BY <1>3, GetContentCInv
<1>4. ASSUME NEW s \in Node, NEW n \in Node, Receive(s, n) PROVE CInv'
  BY <1>4, HandleInterestCInv, HandleDataCInv DEF Receive
<1>5. ASSUME NEW l \in Link, Lose(l) PROVE CInv'
  BY <1>5, LoseCInv
<1> QED
  BY <1>1, <1>2, <1>3, <1>4, <1>5 DEF Next

\* The inductive invariant holds in every behaviour.
THEOREM CcnInductive == Spec => []CInv
<1>1. CInv /\ [Next]_vars => CInv'
  BY NextCInv
<1> QED
  BY <1>1, InitCInv, PTL DEF Spec

\* The variables keep their types: CCNL4Protocol never sends to an address
\* that no node has, and a piece never has more bytes than the buffer.
THEOREM TypeCorrectness == Spec => []TypeOK
<1>1. CInv => TypeOK
  BY DEF CInv
<1> QED
  BY <1>1, CcnInductive, PTL

\* Unless a packet is lost, the pieces that a consumer's callback is given
\* lie end to end in the file, for any sizes of files and buffer
\* (SendContentResponse, HandleDataPacket).
THEOREM FilesArriveWhole == Spec => []ContentIntact
<1>1. CInv => ContentIntact
  BY DEF CInv
<1> QED
  BY <1>1, CcnInductive, PTL


\* Places marked with one and the same owner are as many as the places.
LEMMA MarkedPlaces ==
    ASSUME NEW c, NEW S, IsFiniteSet(S), NEW A, A = {c} \X S
    PROVE  Cardinality(A) = Cardinality(S)
<1>1. IsFiniteSet({c}) /\ Cardinality({c}) = 1
  BY FS_Singleton
<1>2. Cardinality(A) = Cardinality({c}) * Cardinality(S)
  BY <1>1, FS_Product
<1>3. Cardinality(S) \in Nat
  BY FS_CardinalityType
<1> QED
  BY <1>1, <1>2, <1>3

\* A piece that a node was given or will be has one consumer there, and
\* comes from the one host of its name.
LEMMA OneAddressee ==
    ASSUME CInv, NEW n \in Node, NEW d \in ChunksTo(n)
    PROVE  LET x == ContentName(d.by)
           IN /\ d \in Chunk /\ x \in Name /\ HostOf(x) \in Node
              /\ \E c \in Consumer : /\ c \in FirstOf(consumers, n, x)
                                     /\ ConsumerNode[c] = n /\ Wanted[c] = x
<1> DEFINE x == ContentName(d.by)
<1>1. /\ net \in [Link -> Seq(Packet)] /\ consumers \in [Node -> Seq(Consumer)]
      /\ received \in [Consumer -> Seq(Chunk)]
  BY DEF CInv, TypeOK
<1>2. /\ d \in Chunk /\ x \in Name /\ HostOf(x) \in Node
      /\ FirstOf(consumers, n, x) # {}
  <2>1. CASE \E s \in Node : \E i \in DOMAIN net[<<s, n>>] :
                net[<<s, n>>][i].type = "DATA" /\ net[<<s, n>>][i].chunk = d
    <3>1. PICK s \in Node : \E i \in DOMAIN net[<<s, n>>] :
                net[<<s, n>>][i].type = "DATA" /\ net[<<s, n>>][i].chunk = d
      BY <2>1
    <3>2. PICK i \in DOMAIN net[<<s, n>>] :
                net[<<s, n>>][i].type = "DATA" /\ net[<<s, n>>][i].chunk = d
      BY <3>1
    <3> DEFINE q == net[<<s, n>>]
               m == q[i]
    <3>3. q \in Seq(Packet)
      <4>1. <<s, n>> \in Link
        BY DEF Link
      <4> QED
        BY <1>1, <4>1
    <3>4. m \in Packet
      <4>1. i \in DOMAIN q
        OBVIOUS
      <4> HIDE DEF q, Packet
      <4> QED
        BY <3>3, <4>1
    <3>5. OnRoute(consumers, s, n, m) /\ m.type = "DATA" /\ m.chunk = d
      BY <3>2 DEF CInv, RouteInv
    <3> HIDE DEF m
    <3>6. m.name \in Name /\ d \in Chunk
      BY <3>4, <3>5, PacketKinds
    <3>7. m.name = x /\ s = HostOf(x) /\ FirstOf(consumers, n, x) # {}
      BY <3>5 DEF OnRoute
    <3> QED
      BY <3>6, <3>7
  <2>2. CASE \E c \in Here(n) : \E i \in DOMAIN received[c] : received[c][i] = d
    <3>1. PICK c \in Here(n) : \E i \in DOMAIN received[c] : received[c][i] = d
      BY <2>2
    <3>2. PICK i \in DOMAIN received[c] : received[c][i] = d
      BY <3>1
    <3>3. c \in Consumer /\ ConsumerNode[c] = n
      BY DEF Here
    <3>4. /\ c \in FirstOf(consumers, n, Wanted[c]) /\ HostOf(Wanted[c]) \in Node
          /\ x = Wanted[c]
      BY <3>2, <3>3 DEF CInv, GivenInv
    <3>5. d \in Chunk
      <4> DEFINE p == received[c]
      <4>1. p \in Seq(Chunk) /\ i \in DOMAIN p /\ p[i] = d
        BY <1>1, <3>2, <3>3
      <4> HIDE DEF p, Chunk
      <4> QED
        BY <4>1
    <3>6. Wanted[c] \in Name
      BY <3>3, WantedName
    <3> HIDE DEF x
    <3> QED
      BY <3>4, <3>5, <3>6
  <2>3. \/ \E s \in Node : \E i \in DOMAIN net[<<s, n>>] :
              net[<<s, n>>][i].type = "DATA" /\ net[<<s, n>>][i].chunk = d
        \/ \E c \in Here(n) : \E i \in DOMAIN received[c] : received[c][i] = d
    <3> DEFINE D(s) == {z \in Elems(net[<<s, n>>]) : z.type = "DATA"}
               U == UNION {{z.chunk : z \in D(s)} : s \in Node}
               V == UNION {Elems(received[c]) : c \in Here(n)}
    <3>1. d \in U \/ d \in V
      <4>1. ChunksTo(n) = U \cup V
        BY DEF ChunksTo
      <4> HIDE DEF U, V
      <4> QED
        BY <4>1
    <3>2. CASE d \in UNION {{z.chunk : z \in D(s)} : s \in Node}
      <4>1. PICK s \in Node : \E z \in D(s) : d = z.chunk
        <5> HIDE DEF D
        <5> QED
          BY <3>2
      <4>2. PICK z \in Elems(net[<<s, n>>]) : z.type = "DATA" /\ d = z.chunk
        BY <4>1
      <4>3. PICK i \in DOMAIN net[<<s, n>>] : z = net[<<s, n>>][i]
        BY DEF Elems
      <4> QED
        BY <4>2, <4>3
    <3>3. CASE d \in UNION {Elems(received[c]) : c \in Here(n)}
      BY <3>3 DEF Elems
    <3> QED
      BY <3>1, <3>2, <3>3
  <2> QED
    BY <2>1, <2>2, <2>3
<1>3. PICK c : c \in FirstOf(consumers, n, x)
  BY <1>2
<1>4. c \in Consumer /\ Wanted[c] = x /\ c \in Elems(consumers[n])
  <2> HIDE DEF x
  <2> QED
    BY <1>1, <1>2, <1>3, FirstOfFacts
<1>5. ConsumerNode[c] = n
  BY <1>4 DEF CInv, ConsumersHome
<1> QED
  BY <1>2, <1>3, <1>4, <1>5

\* The copies of a piece are within what the first consumer's node asked for.
LEMMA CopiesBound ==
    ASSUME CInv, NEW n \in Node, NEW d \in ChunksTo(n)
    PROVE  Copies(n, d) <= Cardinality(Asking(n, ContentName(d.by)))
<1> DEFINE x == ContentName(d.by)
           h == HostOf(x)
           data == Data(x, d)
<1>1. /\ d \in Chunk /\ x \in Name /\ h \in Node
      /\ \E c \in Consumer : /\ c \in FirstOf(consumers, n, x)
                             /\ ConsumerNode[c] = n /\ Wanted[c] = x
  BY OneAddressee
<1>2. PICK c \in Consumer : /\ c \in FirstOf(consumers, n, x)
                            /\ ConsumerNode[c] = n /\ Wanted[c] = x
  BY <1>1
<1>3. /\ net \in [Link -> Seq(Packet)] /\ consumers \in [Node -> Seq(Consumer)]
      /\ received \in [Consumer -> Seq(Chunk)] /\ <<h, n>> \in Link /\ TypeOK
  BY <1>1 DEF CInv, TypeOK, Link
<1> DEFINE A == UNION {{e} \X At(received[e], d) : e \in Here(n)}
           B == UNION {{s} \X At(net[<<s, n>>], data) : s \in Node}
           P == At(received[c], d)
           Q == At(net[<<h, n>>], data)
<1>4. A = {c} \X P
  <2>1. c \in Here(n)
    BY <1>2 DEF Here
  <2>2. ASSUME NEW e \in Here(n), NEW i \in At(received[e], d) PROVE e = c
    <3>1. e \in Consumer /\ ConsumerNode[e] = n
      BY DEF Here
    <3>2. i \in DOMAIN received[e] /\ received[e][i] = d
      BY DEF At
    <3>3. e \in FirstOf(consumers, n, Wanted[e]) /\ x = Wanted[e]
      BY <3>1, <3>2 DEF CInv, GivenInv
    <3> HIDE DEF x
    <3> QED
      BY <1>1, <1>2, <1>3, <3>3, FirstOfFacts
  <2> QED
    BY <2>1, <2>2
<1>5. B = {h} \X Q
  <2>1. ASSUME NEW s \in Node, NEW i \in At(net[<<s, n>>], data) PROVE s = h
    <3>1. i \in DOMAIN net[<<s, n>>] /\ net[<<s, n>>][i] = data
      BY DEF At
    <3>2. OnRoute(consumers, s, n, data)
      BY <3>1 DEF CInv, RouteInv
    <3>3. data.type = "DATA" /\ data.name = x
      BY DataFields
    <3> HIDE DEF data, x
    <3> QED
      BY <3>2, <3>3 DEF OnRoute
  <2> DEFINE E(s) == At(net[<<s, n>>], data)
  <2>2. \A s \in Node : \A i \in E(s) : s = h
    BY <2>1
  <2> HIDE DEF h, E
  <2>3. UNION {{s} \X E(s) : s \in Node} = {h} \X E(h)
    BY <1>1, <2>2
  <2> QED
    BY <2>3 DEF E, h
<1>6. IsFiniteSet(P) /\ IsFiniteSet(Q)
  <2>1. received[c] \in Seq(Chunk) /\ net[<<h, n>>] \in Seq(Packet)
    BY <1>3
  <2> HIDE DEF Chunk, Packet, h, data
  <2> QED
    BY <2>1, CountType
<1>7. Copies(n, d) = Cardinality(A) + Cardinality(B)
  BY DEF Copies
<1>8. Cardinality(A) = Cardinality(P) /\ Cardinality(B) = Cardinality(Q)
  <2> HIDE DEF A, B, P, Q, h
  <2> QED
    BY <1>4, <1>5, <1>6, MarkedPlaces
<1>9. /\ Count(received[c], d) \in Nat /\ Count(net[<<h, n>>], data) \in Nat
      /\ Count(net[<<n, h>>], Interest(x)) \in Nat
      /\ Count(received[c], d) + Count(net[<<h, n>>], data)
            + Count(net[<<n, h>>], Interest(x)) <= Cardinality(Asking(n, x))
      /\ Cardinality(Asking(n, x)) \in Nat
  <2>1. HostOf(Wanted[c]) \in Node /\ BudgetInv
    BY <1>1, <1>2 DEF CInv
  <2> HIDE DEF x
  <2> QED
    BY <1>1, <1>2, <1>3, <2>1, BudgetParts
<1>10. Count(received[c], d) = Cardinality(P) /\ Count(net[<<h, n>>], data) = Cardinality(Q)
  BY DEF Count
<1> DEFINE w == Count(net[<<n, h>>], Interest(x))
           k == Cardinality(Asking(n, x))
<1> HIDE DEF A, B, P, Q, w, k
<1>11. Cardinality(P) + Cardinality(Q) <= k
  BY <1>9, <1>10 DEF w, k
<1> QED
  BY <1>7, <1>8, <1>11 DEF k

\* A consumer is given only the content it asked for, and a node gets a piece
\* at most once for each of its consumers that asked, for any number of nodes
\* whose interests cross in the pending interest table
\* (HandleInterestPacket, HandleDataPacket).
THEOREM NothingUnsolicited == Spec => []NoUnsolicitedData
<1>1. CInv => NoUnsolicitedData
  <2> SUFFICES ASSUME CInv PROVE NoUnsolicitedData
    OBVIOUS
  <2>1. \A c \in Consumer : \A i \in DOMAIN received[c] :
           ContentName(received[c][i].by) = Wanted[c]
    BY DEF CInv, GivenInv
  <2>2. \A n \in Node : \A d \in ChunksTo(n) :
           Copies(n, d) <= Cardinality(Asking(n, ContentName(d.by)))
    BY CopiesBound
  <2> QED
    BY <2>1, <2>2 DEF NoUnsolicitedData
<1> QED
  BY <1>1, CcnInductive, PTL
=============================================================================
