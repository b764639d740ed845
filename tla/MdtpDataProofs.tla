--------------------------- MODULE MdtpDataProofs ---------------------------
(***************************************************************************)
(* What holds of MdtpData for every set of paths, every number of packets, *)
(* every size of headers and payload and every way TCP cuts the streams:   *)
(* the types, the order of each path, the accounting of bytes and the      *)
(* fairness of the round robin.                                            *)
(***************************************************************************)
EXTENDS MdtpData, FiniteSetTheorems, TLAPS

-----------------------------------------------------------------------------
(* Arithmetic and induction.                                               *)

\* Induction over the naturals, in the form of a set that 0 is in and that
\* is closed under the successor: a number n outside would make the part
\* of the set below n a finite set with an injection into a smaller one.
LEMMA NatInd ==
    ASSUME NEW S \in SUBSET Nat, 0 \in S, \A k \in S : k + 1 \in S, NEW n \in Nat
    PROVE  n \in S
<1> SUFFICES ASSUME n \notin S PROVE FALSE
  OBVIOUS
<1> DEFINE F == {x \in S : x <= n}
           g == [x \in F |-> x + 1]
<1>1. F \in SUBSET Nat /\ \A x \in F : x <= n
  OBVIOUS
<1>2. IsFiniteSet(F)
  BY <1>1, FS_BoundedSetOfNaturals
<1>3. \A x \in F : x + 1 \in F \ {0}
  OBVIOUS
<1>4. 0 \in F
  OBVIOUS
<1>5. g \in Injection(F, F \ {0})
  <2>1. g \in [F -> F \ {0}]
    BY <1>3
  <2>2. \A x, y \in F : g[x] = g[y] => x = y
    BY <1>1
  <2> QED
    BY <2>1, <2>2 DEF Injection, IsInjective
<1>6. IsFiniteSet(F \ {0}) /\ Cardinality(F \ {0}) = Cardinality(F) - 1
  BY <1>2, <1>4, FS_RemoveElement
<1>7. Cardinality(F) <= Cardinality(F \ {0})
  BY <1>5, <1>6, FS_Injection
<1>8. Cardinality(F) \in Nat
  BY <1>2, FS_CardinalityType
<1> HIDE DEF F
<1> QED
  BY <1>6, <1>7, <1>8

\* Division with remainder.
LEMMA Division ==
    ASSUME NEW a \in Nat, NEW n \in Nat \ {0}
    PROVE  /\ a % n \in 0..(n - 1) /\ a \div n \in Nat
           /\ a = n * (a \div n) + (a % n)
  OBVIOUS

\* The remainder of a sum with a multiple.
LEMMA Remainder ==
    ASSUME NEW n \in Nat \ {0}, NEW k \in Nat, NEW j \in 0..(n - 1)
    PROVE  (n * k + j) % n = j
  OBVIOUS

\* One lap on, a remainder is the same.
LEMMA NextLap ==
    ASSUME NEW a \in Nat, NEW n \in Nat \ {0}
    PROVE  (a + n) % n = a % n
<1> DEFINE q == a \div n
           r == a % n
<1>1. q \in Nat /\ r \in 0..(n - 1) /\ a = n * q + r
  BY Division
<1> HIDE DEF q, r
<1>2. a + n = n * (q + 1) + r
  BY <1>1
<1>3. (n * (q + 1) + r) % n = r
  BY <1>1, Remainder
<1> QED
  BY <1>2, <1>3 DEF r

\* A lap meets every remainder.
LEMMA LapMeetsAll ==
    ASSUME NEW a \in Nat, NEW n \in Nat \ {0}, NEW r \in 0..(n - 1)
    PROVE  \E m \in a..(a + n - 1) : m % n = r
<1> DEFINE q == a \div n
           s == a % n
<1>1. q \in Nat /\ s \in 0..(n - 1) /\ a = n * q + s
  BY Division
<1> HIDE DEF q, s
<1>2. (n * q + r) % n = r /\ (n * (q + 1) + r) % n = r
  BY <1>1, Remainder
<1>3. n * q \in Nat /\ n * (q + 1) = n * q + n
  BY <1>1
<1>4. CASE r >= s
  <2>1. n * q + r \in a..(a + n - 1)
    BY <1>1, <1>3, <1>4
  <2> QED
    BY <2>1, <1>2
<1>5. CASE r < s
  <2>1. n * (q + 1) + r \in a..(a + n - 1)
    BY <1>1, <1>3, <1>5
  <2> QED
    BY <2>1, <1>2
<1> QED
  BY <1>1, <1>4, <1>5

-----------------------------------------------------------------------------
(* The inductive invariant.                                                *)

\* Byte x is in one of the chunks.
Within(chunks, x) == \E i \in DOMAIN chunks : x \in Elems(chunks[i])

\* The chunks keep the order of the bytes, each in itself and between them.
Ordered(chunks) ==
    /\ \A i \in DOMAIN chunks : Increasing(chunks[i])
    /\ \A i, j \in DOMAIN chunks : i < j =>
         \A x \in Elems(chunks[i]), y \in Elems(chunks[j]) : x < y

\* The chunks of path p that the application has, with empty ones for the
\* chunks of other paths.
ChunksOf(p) ==
    [i \in DOMAIN delivered |->
       IF delivered[i].path \in {p} THEN delivered[i].chunk ELSE <<>>]

\* Where byte x of path p can be.
IsRead(p, x) == Within(ChunksOf(p), x)
IsBuffered(p, x) == Within(rxPath[p], x)
InStream(p, x) == ~IsReply(x) /\ x \in Elems(flight[p])
IsOn(p, x) == IsRead(p, x) \/ IsBuffered(p, x) \/ InStream(p, x)

\* The packets up to Given have left the send buffer.
Given == sent - Len(txBuffer)

\* The send buffer holds the last packets, in the order of the sends.
TxInv ==
    /\ Len(txBuffer) <= sent
    /\ \A i \in DOMAIN txBuffer : txBuffer[i] = Given + i

\* A path is not listed twice, so there are no more than an index tells apart.
ListInv ==
    /\ paths # <<>> /\ Len(paths) <= IndexMax + 1
    /\ \A i, j \in DOMAIN paths : paths[i] = paths[j] => i = j

\* The server's answer is the head of a stream whose reader waits for it, and
\* of no other; a path that has not joined has no stream.
AnswerInv(p) ==
    /\ \A i \in DOMAIN flight[p] :
          IsReply(flight[p][i]) => i <= ReplyLen /\ rcvState[p] = "WAITING"
    /\ p \in Elems(paths) /\ rcvState[p] = "WAITING" =>
          /\ Len(flight[p]) >= ReplyLen
          /\ \A i \in 1..ReplyLen : IsReply(flight[p][i])
    /\ p \notin Elems(paths) => flight[p] = <<>> /\ rcvState[p] = Peer
    /\ SenderIsClient => rcvState[p] # "WAITING"

\* What is older on a path is further on: read before buffered before in the
\* stream.
OrderInv(p) ==
    /\ Ordered(ChunksOf(p)) /\ Ordered(rxPath[p]) /\ Increasing(flight[p])
    /\ \A x, y : IsRead(p, x) /\ IsBuffered(p, y) => x < y
    /\ \A x, y : IsRead(p, x) /\ InStream(p, y) => x < y
    /\ \A x, y : IsBuffered(p, x) /\ InStream(p, y) => x < y

\* Exactly the bytes that were given away are on a path or dropped.
PlaceInv ==
    /\ \A p \in Path : \A x : IsOn(p, x) => x \in Bytes(Given) /\ x \notin lost
    /\ \A p, q \in Path : \A x : IsOn(p, x) /\ IsOn(q, x) => p = q
    /\ lost \subseteq Bytes(Given)
    /\ \A x \in Bytes(Given) : x \in lost \/ \E p \in Path : IsOn(p, x)

\* The first index of those that count on from each other in step with the
\* paths: the negative ones and the others are a row each.
RowStart(i) == IF i < 0 THEN -(IndexMax + 1) ELSE 0

\* A connected path has had its turn wherever m_lastPathIndex passed it in its
\* row, and entered the row with less than a lap behind it.
TurnInv ==
    \A p \in Elems(paths) : sndState[p] = "CONNECTED" =>
        /\ idle[p] <= lastPathIndex - RowStart(lastPathIndex) + Len(paths) - 1
        /\ \A j \in RowStart(lastPathIndex)..(lastPathIndex - 1) :
              PathAt(j) = p => idle[p] <= lastPathIndex - 1 - j

DataInv ==
    /\ TypeOK /\ TxInv /\ ListInv
    /\ \A p \in Path : AnswerInv(p) /\ OrderInv(p)
    /\ PlaceInv

-----------------------------------------------------------------------------
(* Bytes.                                                                  *)

\* A message has bytes.
LEMMA MsgLenType == MsgLen \in Nat \ {0}
  BY SeqAssumption DEF MsgLen

\* More packets have more bytes.
LEMMA BytesGrow ==
    ASSUME NEW m \in Nat, NEW n \in Nat, m <= n
    PROVE  /\ m * MsgLen \in Nat /\ n * MsgLen \in Nat /\ m * MsgLen <= n * MsgLen
           /\ Bytes(m) \subseteq Bytes(n)
<1> DEFINE a == m * MsgLen
           d == (n - m) * MsgLen
<1>1. a \in Nat /\ d \in Nat /\ n * MsgLen = a + d
  BY MsgLenType
<1> HIDE DEF a, d
<1>2. 1..a \subseteq 1..(a + d)
  BY <1>1
<1> QED
  BY <1>1, <1>2 DEF Bytes, a

\* The bytes of the answer are not those of messages.
LEMMA ByteKinds ==
    ASSUME NEW n \in Nat
    PROVE  /\ \A x \in ReplyBytes : x \in Int /\ IsReply(x)
           /\ \A x \in Bytes(n) : x \in Int /\ ~IsReply(x)
<1>1. n * MsgLen \in Int /\ ReplyLen \in Nat
  BY MsgLenType, SeqAssumption
<1> QED
  BY <1>1 DEF ReplyBytes, Bytes, IsReply

\* The answer as a stream.
LEMMA AnswerFacts ==
    /\ Stream \in Seq(ReplyBytes) /\ \A i \in DOMAIN Stream : IsReply(Stream[i])
    /\ \A i \in DOMAIN Stream : i \in 1..ReplyLen
    /\ \A i, j \in DOMAIN Stream : i < j => Stream[i] < Stream[j]
    /\ SenderIsClient => Stream = <<>>
    /\ ~SenderIsClient => Len(Stream) = ReplyLen
<1>1. ReplyLen \in Nat \ {0}
  BY SeqAssumption
<1>2. CASE SenderIsClient
  BY <1>2 DEF Stream
<1>3. CASE ~SenderIsClient
  <2> DEFINE s == [i \in 1..ReplyLen |-> i - ReplyLen]
  <2>1. Stream = s
    BY <1>3 DEF Stream
  <2>2. \A i \in 1..ReplyLen : s[i] = i - ReplyLen /\ s[i] \in ReplyBytes /\ s[i] <= 0
    BY <1>1 DEF ReplyBytes
  <2>3. s \in Seq(ReplyBytes) /\ Len(s) = ReplyLen /\ DOMAIN s = 1..ReplyLen
    <3>1. s = [i \in 1..ReplyLen |-> s[i]]
      OBVIOUS
    <3>2. DOMAIN s = 1..ReplyLen
      OBVIOUS
    <3> HIDE DEF s
    <3> QED
      BY <1>1, <2>2, <3>1, <3>2
  <2> HIDE DEF s
  <2>4. \A i, j \in 1..ReplyLen : i < j => s[i] < s[j]
    BY <1>1, <2>2
  <2> QED
    BY <1>3, <2>1, <2>2, <2>3, <2>4 DEF IsReply
<1> QED
  BY <1>2, <1>3

\* A function on 1..k is a sequence.
LEMMA FunctionIsSeq ==
    ASSUME NEW S, NEW k \in Nat, NEW e, e = [i \in 1..k |-> e[i]], \A i \in 1..k : e[i] \in S
    PROVE  e \in Seq(S) /\ Len(e) = k
  OBVIOUS

\* The wire carries the messages of packets in a row one after the other.
LEMMA WireFacts ==
    ASSUME NEW s \in Seq(Int), NEW g \in Nat, \A i \in 1..Len(s) : s[i] = g + i
    PROVE  /\ Wire(s) \in Seq(Int) /\ Increasing(Wire(s))
           /\ Elems(Wire(s)) = (g * MsgLen + 1)..((g + Len(s)) * MsgLen)
<1> DEFINE M == MsgLen
           L == Len(s)
           o == g * M
           e == L * M
           w == Wire(s)
<1>1. M \in Nat \ {0} /\ L \in Nat /\ o \in Nat /\ e \in Nat /\ (g + L) * M = o + e
  BY MsgLenType
<1>2. w = [k \in 1..e |-> (s[((k - 1) \div M) + 1] - 1) * M + ((k - 1) % M) + 1]
  BY DEF Wire, Bytes
<1> HIDE DEF w
<1>3. ASSUME NEW k \in 1..e PROVE w[k] = o + k
  <2> DEFINE q == (k - 1) \div M
             r == (k - 1) % M
  <2>1. k - 1 \in Nat
    BY <1>1
  <2>2. q \in Nat /\ r \in 0..(M - 1) /\ k - 1 = M * q + r
    <3> HIDE DEF M
    <3> QED
      BY <1>1, <2>1, Division
  <2>3. w[k] = (s[q + 1] - 1) * M + r + 1
    BY <1>2
  <2> HIDE DEF q, r, M
  <2>4. q < L
    <3> SUFFICES ASSUME q >= L PROVE FALSE
      BY <1>1, <2>2
    <3> DEFINE x == M * (q - L)
               y == M * q
    <3>1. y = e + x /\ x \in Nat
      BY <1>1, <2>2
    <3>2. k - 1 = y + r
      BY <2>2
    <3> HIDE DEF x, y, e
    <3> QED
      BY <1>1, <2>2, <3>1, <3>2
  <2>5. q + 1 \in 1..L
    BY <1>1, <2>2, <2>4
  <2>6. s[q + 1] - 1 = g + q
    BY <2>2, <2>5
  <2>7. (g + q) * M = o + M * q
    BY <1>1, <2>2
  <2> QED
    BY <1>1, <2>2, <2>3, <2>6, <2>7
<1> HIDE DEF M, L, o, e
<1>4. w \in Seq(Int) /\ DOMAIN w = 1..e
  <2>1. w = [k \in 1..e |-> w[k]] /\ DOMAIN w = 1..e
    BY <1>2
  <2>2. \A k \in 1..e : w[k] \in Int
    BY <1>1, <1>3
  <2>3. e \in Nat
    BY <1>1
  <2> QED
    BY <2>1, <2>2, <2>3, FunctionIsSeq
<1>5. Increasing(w)
  BY <1>1, <1>3, <1>4 DEF Increasing
<1>6. Elems(w) = (o + 1)..(o + e)
  <2>1. \A x \in (o + 1)..(o + e) : x - o \in 1..e /\ o + (x - o) = x
    BY <1>1
  <2>2. \A k \in 1..e : o + k \in (o + 1)..(o + e)
    BY <1>1
  <2>3. \A x \in (o + 1)..(o + e) : w[x - o] = x
    BY <1>3, <2>1
  <2>4. \A x \in (o + 1)..(o + e) : x \in Elems(w)
    BY <1>4, <2>1, <2>3 DEF Elems
  <2>5. \A x \in Elems(w) : x \in (o + 1)..(o + e)
    BY <1>3, <1>4, <2>2 DEF Elems
  <2> QED
    BY <2>4, <2>5
<1> QED
  BY <1>1, <1>4, <1>5, <1>6 DEF w, o, L, M

-----------------------------------------------------------------------------
(* Sequences and chunks.                                                   *)

\* The members of a concatenation.
LEMMA ElemsConcat ==
    ASSUME NEW S, NEW s \in Seq(S), NEW t \in Seq(S)
    PROVE  Elems(s \o t) = Elems(s) \cup Elems(t)
<1>1. \A x : x \in Elems(s) => x \in Elems(s \o t)
  <2> SUFFICES ASSUME NEW i \in DOMAIN s PROVE s[i] \in Elems(s \o t)
    BY DEF Elems
  <2>1. i \in DOMAIN (s \o t) /\ (s \o t)[i] = s[i]
    OBVIOUS
  <2> QED
    BY <2>1 DEF Elems
<1>2. \A x : x \in Elems(t) => x \in Elems(s \o t)
  <2> SUFFICES ASSUME NEW i \in DOMAIN t PROVE t[i] \in Elems(s \o t)
    BY DEF Elems
  <2>1. Len(s) + i \in DOMAIN (s \o t) /\ (s \o t)[Len(s) + i] = t[i]
    OBVIOUS
  <2> QED
    BY <2>1 DEF Elems
<1>3. \A x : x \in Elems(s \o t) => x \in Elems(s) \cup Elems(t)
  <2> SUFFICES ASSUME NEW i \in DOMAIN (s \o t)
               PROVE  (s \o t)[i] \in Elems(s) \cup Elems(t)
    BY DEF Elems
  <2>1. CASE i <= Len(s)
    <3>1. i \in DOMAIN s /\ (s \o t)[i] = s[i]
      BY <2>1
    <3> QED
      BY <3>1 DEF Elems
  <2>2. CASE i > Len(s)
    <3>1. i - Len(s) \in DOMAIN t /\ (s \o t)[i] = t[i - Len(s)]
      BY <2>2
    <3> QED
      BY <3>1 DEF Elems
  <2> QED
    BY <2>1, <2>2
<1> QED
  BY <1>1, <1>2, <1>3

\* Two increasing sequences, the first below the second, make one.
LEMMA IncreasingConcat ==
    ASSUME NEW s \in Seq(Int), NEW t \in Seq(Int), Increasing(s), Increasing(t),
           \A x \in Elems(s), y \in Elems(t) : x < y
    PROVE  Increasing(s \o t)
<1> SUFFICES ASSUME NEW i \in DOMAIN (s \o t), NEW j \in DOMAIN (s \o t), i < j
             PROVE  (s \o t)[i] < (s \o t)[j]
  BY DEF Increasing
<1>1. CASE j <= Len(s)
  <2>1. /\ i \in DOMAIN s /\ j \in DOMAIN s
        /\ (s \o t)[i] = s[i] /\ (s \o t)[j] = s[j]
    BY <1>1
  <2> QED
    BY <2>1 DEF Increasing
<1>2. CASE i <= Len(s) /\ j > Len(s)
  <2>1. /\ i \in DOMAIN s /\ j - Len(s) \in DOMAIN t
        /\ (s \o t)[i] = s[i] /\ (s \o t)[j] = t[j - Len(s)]
    BY <1>2
  <2> QED
    BY <2>1 DEF Elems
<1>3. CASE i > Len(s)
  <2>1. /\ i - Len(s) \in DOMAIN t /\ j - Len(s) \in DOMAIN t
        /\ i - Len(s) < j - Len(s)
        /\ (s \o t)[i] = t[i - Len(s)] /\ (s \o t)[j] = t[j - Len(s)]
    BY <1>3
  <2> QED
    BY <2>1 DEF Increasing
<1> QED
  BY <1>1, <1>2, <1>3

\* A part of an increasing sequence is increasing and holds no more.
LEMMA PartFacts ==
    ASSUME NEW S, NEW s \in Seq(S), NEW m \in 1..(Len(s) + 1), NEW n \in 0..Len(s)
    PROVE  /\ SubSeq(s, m, n) \in Seq(S)
           /\ \A i \in DOMAIN SubSeq(s, m, n) :
                 /\ i \in Nat /\ i + m - 1 \in m..n
                 /\ SubSeq(s, m, n)[i] = s[i + m - 1]
           /\ Elems(SubSeq(s, m, n)) = {s[i] : i \in m..n}
           /\ Increasing(s) => Increasing(SubSeq(s, m, n))
<1>1. SubSeq(s, m, n) \in Seq(S)
  OBVIOUS
<1>2. \A i \in DOMAIN SubSeq(s, m, n) :
         /\ i \in Nat /\ i + m - 1 \in m..n
         /\ SubSeq(s, m, n)[i] = s[i + m - 1]
  OBVIOUS
<1>3. \A i \in m..n : /\ i - m + 1 \in DOMAIN SubSeq(s, m, n)
                      /\ SubSeq(s, m, n)[i - m + 1] = s[i]
  OBVIOUS
<1>4. Elems(SubSeq(s, m, n)) = {s[i] : i \in m..n}
  <2>1. \A x : x \in Elems(SubSeq(s, m, n)) => x \in {s[i] : i \in m..n}
    BY <1>2 DEF Elems
  <2>2. \A x : x \in {s[i] : i \in m..n} => x \in Elems(SubSeq(s, m, n))
    BY <1>3 DEF Elems
  <2> QED
    BY <2>1, <2>2
<1>5. Increasing(s) => Increasing(SubSeq(s, m, n))
  BY <1>2 DEF Increasing
<1> QED
  BY <1>1, <1>2, <1>4, <1>5

\* What is within a concatenation of chunks.
LEMMA WithinConcat ==
    ASSUME NEW c \in Seq(Seq(Int)), NEW d \in Seq(Seq(Int)), NEW x
    PROVE  Within(c \o d, x) <=> Within(c, x) \/ Within(d, x)
<1>1. Within(c, x) => Within(c \o d, x)
  <2> SUFFICES ASSUME NEW i \in DOMAIN c, x \in Elems(c[i]) PROVE Within(c \o d, x)
    BY DEF Within
  <2>1. i \in DOMAIN (c \o d) /\ (c \o d)[i] = c[i]
    OBVIOUS
  <2> QED
    BY <2>1 DEF Within
<1>2. Within(d, x) => Within(c \o d, x)
  <2> SUFFICES ASSUME NEW i \in DOMAIN d, x \in Elems(d[i]) PROVE Within(c \o d, x)
    BY DEF Within
  <2>1. Len(c) + i \in DOMAIN (c \o d) /\ (c \o d)[Len(c) + i] = d[i]
    OBVIOUS
  <2> QED
    BY <2>1 DEF Within
<1>3. Within(c \o d, x) => Within(c, x) \/ Within(d, x)
  <2> SUFFICES ASSUME NEW i \in DOMAIN (c \o d), x \in Elems((c \o d)[i])
               PROVE  Within(c, x) \/ Within(d, x)
    BY DEF Within
  <2>1. CASE i <= Len(c)
    <3>1. i \in DOMAIN c /\ (c \o d)[i] = c[i]
      BY <2>1
    <3> QED
      BY <3>1 DEF Within
  <2>2. CASE i > Len(c)
    <3>1. i - Len(c) \in DOMAIN d /\ (c \o d)[i] = d[i - Len(c)]
      BY <2>2
    <3> QED
      BY <3>1 DEF Within
  <2> QED
    BY <2>1, <2>2
<1> QED
  BY <1>1, <1>2, <1>3

\* Ordered chunks, the first below the second, make ordered chunks.
LEMMA OrderedConcat ==
    ASSUME NEW c \in Seq(Seq(Int)), NEW d \in Seq(Seq(Int)), Ordered(c), Ordered(d),
           \A x, y : Within(c, x) /\ Within(d, y) => x < y
    PROVE  Ordered(c \o d)
<1>1. \A i \in DOMAIN (c \o d) : Increasing((c \o d)[i])
  <2> SUFFICES ASSUME NEW i \in DOMAIN (c \o d) PROVE Increasing((c \o d)[i])
    OBVIOUS
  <2>1. CASE i <= Len(c)
    <3>1. i \in DOMAIN c /\ (c \o d)[i] = c[i]
      BY <2>1
    <3> QED
      BY <3>1 DEF Ordered
  <2>2. CASE i > Len(c)
    <3>1. i - Len(c) \in DOMAIN d /\ (c \o d)[i] = d[i - Len(c)]
      BY <2>2
    <3> QED
      BY <3>1 DEF Ordered
  <2> QED
    BY <2>1, <2>2
<1>2. ASSUME NEW i \in DOMAIN (c \o d), NEW j \in DOMAIN (c \o d), i < j,
             NEW x \in Elems((c \o d)[i]), NEW y \in Elems((c \o d)[j])
      PROVE  x < y
  <2>1. CASE j <= Len(c)
    <3>1. /\ i \in DOMAIN c /\ j \in DOMAIN c
          /\ (c \o d)[i] = c[i] /\ (c \o d)[j] = c[j]
      BY <1>2, <2>1
    <3> QED
      BY <1>2, <3>1 DEF Ordered
  <2>2. CASE i <= Len(c) /\ j > Len(c)
    <3>1. /\ i \in DOMAIN c /\ j - Len(c) \in DOMAIN d
          /\ (c \o d)[i] = c[i] /\ (c \o d)[j] = d[j - Len(c)]
      BY <1>2, <2>2
    <3> QED
      BY <3>1 DEF Within
  <2>3. CASE i > Len(c)
    <3>1. /\ i - Len(c) \in DOMAIN d /\ j - Len(c) \in DOMAIN d
          /\ i - Len(c) < j - Len(c)
          /\ (c \o d)[i] = d[i - Len(c)] /\ (c \o d)[j] = d[j - Len(c)]
      BY <1>2, <2>3
    <3> QED
      BY <3>1 DEF Ordered
  <2> QED
    BY <2>1, <2>2, <2>3
<1> QED
  BY <1>1, <1>2 DEF Ordered

\* A cut through ordered chunks: the parts are ordered, the first is below the
\* second, and together they hold what the whole holds.
LEMMA OrderedCut ==
    ASSUME NEW c \in Seq(Seq(Int)), Ordered(c), NEW k \in 0..Len(c)
    PROVE  /\ SubSeq(c, 1, k) \in Seq(Seq(Int))
           /\ SubSeq(c, k + 1, Len(c)) \in Seq(Seq(Int))
           /\ Ordered(SubSeq(c, 1, k)) /\ Ordered(SubSeq(c, k + 1, Len(c)))
           /\ \A x, y : Within(SubSeq(c, 1, k), x) /\ Within(SubSeq(c, k + 1, Len(c)), y)
                          => x < y
           /\ \A x : Within(c, x) <=> \/ Within(SubSeq(c, 1, k), x)
                                      \/ Within(SubSeq(c, k + 1, Len(c)), x)
<1> DEFINE a == SubSeq(c, 1, k)
           b == SubSeq(c, k + 1, Len(c))
<1>1. /\ a \in Seq(Seq(Int)) /\ b \in Seq(Seq(Int))
      /\ DOMAIN a = 1..k /\ \A i \in 1..k : i \in DOMAIN c /\ a[i] = c[i]
      /\ \A i \in DOMAIN b : k + i \in DOMAIN c /\ b[i] = c[k + i]
      /\ DOMAIN b \subseteq Nat \ {0}
      /\ \A i \in DOMAIN c : i > k => i - k \in DOMAIN b /\ b[i - k] = c[i]
  OBVIOUS
<1>2. DOMAIN c \subseteq Nat \ {0} /\ k \in Nat
  OBVIOUS
<1> HIDE DEF a, b
<1>3. Ordered(a)
  BY <1>1, <1>2 DEF Ordered
<1>4. Ordered(b)
  <2>1. \A i \in DOMAIN b : Increasing(b[i])
    BY <1>1 DEF Ordered
  <2>2. \A i, j \in DOMAIN b : i < j => k + i < k + j
    BY <1>1, <1>2
  <2>3. \A i, j \in DOMAIN b : i < j =>
           \A x \in Elems(b[i]), y \in Elems(b[j]) : x < y
    BY <1>1, <2>2 DEF Ordered
  <2> QED
    BY <2>1, <2>3 DEF Ordered
<1>5. \A x, y : Within(a, x) /\ Within(b, y) => x < y
  <2> SUFFICES ASSUME NEW x, NEW y, NEW i \in DOMAIN a, x \in Elems(a[i]),
                      NEW j \in DOMAIN b, y \in Elems(b[j])
               PROVE  x < y
    BY DEF Within
  <2>1. i < k + j
    BY <1>1, <1>2
  <2>2. a[i] = c[i] /\ i \in DOMAIN c /\ b[j] = c[k + j] /\ k + j \in DOMAIN c
    BY <1>1
  <2> QED
    BY <2>1, <2>2 DEF Ordered
<1>6. \A x : Within(c, x) <=> Within(a, x) \/ Within(b, x)
  <2>1. ASSUME NEW x, NEW i \in DOMAIN c, x \in Elems(c[i])
        PROVE  Within(a, x) \/ Within(b, x)
    <3>1. CASE i <= k
      <4>1. i \in DOMAIN a /\ a[i] = c[i]
        BY <1>1, <1>2, <3>1
      <4> QED
        BY <2>1, <4>1 DEF Within
    <3>2. CASE i > k
      <4>1. i - k \in DOMAIN b /\ b[i - k] = c[i]
        BY <1>1, <3>2
      <4> QED
        BY <2>1, <4>1 DEF Within
    <3> QED
      BY <1>2, <3>1, <3>2
  <2>2. \A x : Within(a, x) => Within(c, x)
    BY <1>1 DEF Within
  <2>3. \A x : Within(b, x) => Within(c, x)
    BY <1>1 DEF Within
  <2> QED
    BY <2>1, <2>2, <2>3 DEF Within
<1> QED
  BY <1>1, <1>3, <1>4, <1>5, <1>6 DEF a, b

\* The recursion of Flatten has a solution.
LEMMA FlattenExists ==
    ASSUME NEW chunks, NEW n \in Nat
    PROVE  \E g : g = [i \in 0..n |-> IF i = 0 THEN <<>> ELSE g[i - 1] \o chunks[i]]
<1> DEFINE Solves(g, k) == /\ DOMAIN g = 0..k /\ g[0] = <<>>
                           /\ \A i \in 1..k : g[i] = g[i - 1] \o chunks[i]
           S == {k \in Nat : \E g : g = [i \in 0..k |-> g[i]] /\ Solves(g, k)}
<1>1. 0 \in S
  <2> DEFINE g == [i \in 0..0 |-> <<>>]
  <2>1. g = [i \in 0..0 |-> g[i]] /\ Solves(g, 0)
    OBVIOUS
  <2> QED
    BY <2>1
<1>2. ASSUME NEW k \in S PROVE k + 1 \in S
  <2>1. k \in Nat
    OBVIOUS
  <2>2. PICK g : g = [i \in 0..k |-> g[i]] /\ Solves(g, k)
    OBVIOUS
  <2> DEFINE h == [i \in 0..(k + 1) |-> IF i <= k THEN g[i] ELSE g[k] \o chunks[k + 1]]
  <2>3. Solves(h, k + 1)
    <3>1. DOMAIN h = 0..(k + 1) /\ h[0] = <<>>
      BY <2>1, <2>2
    <3>2. ASSUME NEW i \in 1..(k + 1) PROVE h[i] = h[i - 1] \o chunks[i]
      <4>1. CASE i <= k
        BY <2>1, <2>2, <4>1
      <4>2. CASE i = k + 1
        <5>1. h[k] = g[k]
          BY <2>1
        <5>3. k + 1 \in 0..(k + 1) /\ ~(k + 1 <= k)
          BY <2>1
        <5>4. h[k + 1] = g[k] \o chunks[k + 1]
          BY <5>3, Zenon
        <5>2. i - 1 = k
          BY <2>1, <4>2
        <5> HIDE DEF h
        <5> QED
          BY <4>2, <5>1, <5>2, <5>4
      <4>3. i <= k \/ i = k + 1
        BY <2>1
      <4> QED
        BY <4>1, <4>2, <4>3
    <3> QED
      BY <3>1, <3>2
  <2>4. h = [i \in 0..(k + 1) |-> h[i]]
    OBVIOUS
  <2> QED
    BY <2>1, <2>3, <2>4
<1>3. n \in S
  <2>1. S \in SUBSET Nat /\ \A k \in S : k + 1 \in S
    BY <1>2
  <2> HIDE DEF S
  <2> QED
    BY <1>1, <2>1, NatInd
<1>4. PICK g : g = [i \in 0..n |-> g[i]] /\ Solves(g, n)
  BY <1>3
<1>5. g = [i \in 0..n |-> IF i = 0 THEN <<>> ELSE g[i - 1] \o chunks[i]]
  <2>1. \A i \in 0..n : g[i] = IF i = 0 THEN <<>> ELSE g[i - 1] \o chunks[i]
    <3>1. g[0] = <<>> /\ \A i \in 1..n : g[i] = g[i - 1] \o chunks[i]
      BY <1>4
    <3>2. \A i \in 0..n : i = 0 \/ i \in 1..n
      OBVIOUS
    <3> QED
      BY <3>1, <3>2, Zenon
  <2> HIDE DEF Solves
  <2> QED
    BY <1>4, <2>1
<1> QED
  BY <1>5

\* Flatten adds chunk after chunk.
LEMMA FlattenSteps ==
    ASSUME NEW chunks, Len(chunks) \in Nat
    PROVE  \E g : /\ Flatten(chunks) = g[Len(chunks)] /\ g[0] = <<>>
                  /\ \A i \in 1..Len(chunks) : g[i] = g[i - 1] \o chunks[i]
<1> DEFINE n == Len(chunks)
           f == CHOOSE f : f = [i \in 0..n |-> IF i = 0 THEN <<>> ELSE f[i - 1] \o chunks[i]]
<1>1. Flatten(chunks) = f[n]
  BY DEF Flatten
<1>2. f = [i \in 0..n |-> IF i = 0 THEN <<>> ELSE f[i - 1] \o chunks[i]]
  BY FlattenExists
<1> HIDE DEF f
<1>3. f[0] = <<>> /\ \A i \in 1..n : f[i] = f[i - 1] \o chunks[i]
  BY <1>2
<1> QED
  BY <1>1, <1>3

\* Flatten returns the packets of the chunks, in the order of the chunks.
LEMMA FlattenFacts ==
    ASSUME NEW chunks \in Seq(Seq(Int))
    PROVE  /\ Flatten(chunks) \in Seq(Int)
           /\ \A x : x \in Elems(Flatten(chunks)) <=> Within(chunks, x)
           /\ Ordered(chunks) => Increasing(Flatten(chunks))
<1> DEFINE n == Len(chunks)
<1>1. n \in Nat /\ DOMAIN chunks = 1..n /\ \A i \in 1..n : chunks[i] \in Seq(Int)
  OBVIOUS
<1>2. PICK g : /\ Flatten(chunks) = g[n] /\ g[0] = <<>>
               /\ \A i \in 1..n : g[i] = g[i - 1] \o chunks[i]
  BY <1>1, FlattenSteps
<1> HIDE DEF n
<1> DEFINE Upto(k, x) == \E i \in 1..k : x \in Elems(chunks[i])
           Good(k) == /\ g[k] \in Seq(Int)
                      /\ \A x : x \in Elems(g[k]) <=> Upto(k, x)
                      /\ Ordered(chunks) => Increasing(g[k])
           S == {k \in Nat : k <= n => Good(k)}
<1>3. Good(0)
  <2>1. g[0] \in Seq(Int) /\ Elems(g[0]) = {} /\ Increasing(g[0])
    BY <1>2 DEF Elems, Increasing
  <2>2. \A x : ~Upto(0, x)
    OBVIOUS
  <2> HIDE DEF Upto
  <2> QED
    BY <2>1, <2>2
<1>4. ASSUME NEW k \in Nat, k + 1 <= n, Good(k) PROVE Good(k + 1)
  <2> DEFINE c == chunks[k + 1]
  <2>1. k + 1 \in 1..n /\ (k + 1) - 1 = k
    BY <1>1, <1>4
  <2>2. g[k + 1] = g[k] \o c /\ c \in Seq(Int)
    BY <1>1, <1>2, <2>1
  <2>3. /\ g[k] \in Seq(Int) /\ \A x : x \in Elems(g[k]) <=> Upto(k, x)
        /\ Ordered(chunks) => Increasing(g[k])
    BY <1>4
  <2>4. \A x : Upto(k + 1, x) <=> Upto(k, x) \/ x \in Elems(c)
    <3>1. \A i : i \in 1..(k + 1) <=> i \in 1..k \/ i = k + 1
      OBVIOUS
    <3> QED
      BY <3>1
  <2>5. ASSUME Ordered(chunks) PROVE Increasing(c) /\ \A x, y : Upto(k, x) /\ y \in Elems(c) => x < y
    <3>1. \A i \in 1..k : i \in DOMAIN chunks /\ i < k + 1
      BY <1>1, <1>4
    <3> QED
      BY <1>1, <2>1, <2>5, <3>1 DEF Ordered
  <2> HIDE DEF Upto, c
  <2>6. g[k] \o c \in Seq(Int) /\ Elems(g[k] \o c) = Elems(g[k]) \cup Elems(c)
    BY <2>2, <2>3, ElemsConcat
  <2>7. \A x : x \in Elems(g[k + 1]) <=> Upto(k + 1, x)
    BY <2>2, <2>3, <2>4, <2>6
  <2>8. Ordered(chunks) => Increasing(g[k] \o c)
    <3> SUFFICES ASSUME Ordered(chunks) PROVE Increasing(g[k] \o c)
      OBVIOUS
    <3>1. \A x \in Elems(g[k]), y \in Elems(c) : x < y
      BY <2>3, <2>5
    <3> QED
      BY <2>2, <2>3, <2>5, <3>1, IncreasingConcat
  <2> QED
    BY <2>2, <2>6, <2>7, <2>8
<1>5. n \in S
  <2>1. 0 \in S
    BY <1>3
  <2>2. ASSUME NEW k \in S PROVE k + 1 \in S
    <3>1. k \in Nat /\ (k <= n => Good(k)) /\ (k + 1 <= n => k <= n)
      BY <1>1
    <3> HIDE DEF Good
    <3> QED
      BY <1>4, <3>1
  <2>3. S \in SUBSET Nat /\ \A k \in S : k + 1 \in S
    BY <2>2
  <2> HIDE DEF S
  <2> QED
    BY <1>1, <2>1, <2>3, NatInd
<1>6. Good(n)
  BY <1>1, <1>5
<1>7. \A x : Upto(n, x) <=> Within(chunks, x)
  BY <1>1 DEF Within
<1> HIDE DEF Upto
<1> QED
  BY <1>2, <1>6, <1>7

\* The recursion of SeqAfter has a solution.
LEMMA SeqAfterExists ==
    ASSUME NEW p, NEW n \in Nat
    PROVE  \E g : g = [i \in 0..n |->
                         IF i = 0 THEN recvSeq ELSE (g[i - 1] + Size(rxPath[p][i])) % SeqMod]
<1> DEFINE Solves(g, k) == /\ DOMAIN g = 0..k /\ g[0] = recvSeq
                           /\ \A i \in 1..k :
                                g[i] = (g[i - 1] + Size(rxPath[p][i])) % SeqMod
           S == {k \in Nat : \E g : g = [i \in 0..k |-> g[i]] /\ Solves(g, k)}
<1>1. 0 \in S
  <2> DEFINE g == [i \in 0..0 |-> recvSeq]
  <2>1. g = [i \in 0..0 |-> g[i]] /\ Solves(g, 0)
    OBVIOUS
  <2> QED
    BY <2>1
<1>2. ASSUME NEW k \in S PROVE k + 1 \in S
  <2>1. k \in Nat
    OBVIOUS
  <2>2. PICK g : g = [i \in 0..k |-> g[i]] /\ Solves(g, k)
    OBVIOUS
  <2> DEFINE v == (g[k] + Size(rxPath[p][k + 1])) % SeqMod
             h == [i \in 0..(k + 1) |-> IF i <= k THEN g[i] ELSE v]
  <2>3. /\ DOMAIN h = 0..(k + 1) /\ h[0] = recvSeq /\ h[k] = g[k]
        /\ \A i \in 1..k : h[i] = g[i] /\ h[i - 1] = g[i - 1]
    BY <2>1, <2>2
  <2>4. h[k + 1] = v
    <3>1. k + 1 \in 0..(k + 1) /\ ~(k + 1 <= k)
      BY <2>1
    <3> QED
      BY <3>1, Zenon
  <2>5. h = [i \in 0..(k + 1) |-> h[i]]
    OBVIOUS
  <2> HIDE DEF h
  <2>6. ASSUME NEW i \in 1..(k + 1)
        PROVE  h[i] = (h[i - 1] + Size(rxPath[p][i])) % SeqMod
    <3>1. CASE i \in 1..k
      BY <2>2, <2>3, <3>1
    <3>2. CASE i = k + 1
      <4>1. i - 1 = k
        BY <2>1, <3>2
      <4> QED
        BY <2>3, <2>4, <3>2, <4>1
    <3>3. i \in 1..k \/ i = k + 1
      BY <2>1
    <3> QED
      BY <3>1, <3>2, <3>3
  <2>7. Solves(h, k + 1)
    BY <2>3, <2>6
  <2>8. k + 1 \in Nat
    BY <2>1
  <2> HIDE DEF Solves
  <2> QED
    BY <2>5, <2>7, <2>8, Zenon
<1>3. n \in S
  <2>1. S \in SUBSET Nat /\ \A k \in S : k + 1 \in S
    BY <1>2
  <2> HIDE DEF S
  <2> QED
    BY <1>1, <2>1, NatInd
<1>4. PICK g : g = [i \in 0..n |-> g[i]] /\ Solves(g, n)
  BY <1>3
<1>5. g[0] = recvSeq /\ \A i \in 1..n : g[i] = (g[i - 1] + Size(rxPath[p][i])) % SeqMod
  BY <1>4
<1>6. \A i \in 0..n : i = 0 \/ i \in 1..n
  OBVIOUS
<1>7. \A i \in 0..n : g[i] =
         IF i = 0 THEN recvSeq ELSE (g[i - 1] + Size(rxPath[p][i])) % SeqMod
  BY <1>5, <1>6, Zenon
<1> HIDE DEF Solves
<1>8. g = [i \in 0..n |-> IF i = 0 THEN recvSeq ELSE (g[i - 1] + Size(rxPath[p][i])) % SeqMod]
  BY <1>4, <1>7
<1> QED
  BY <1>8

\* m_recvSeqNum stays a sequence number.
LEMMA SeqAfterType ==
    ASSUME TypeOK, NEW p \in Path, NEW k \in 0..Len(rxPath[p])
    PROVE  SeqAfter(p, k) \in 0..(SeqMod - 1)
<1> DEFINE n == Len(rxPath[p])
           f == CHOOSE f : f = [i \in 0..n |->
                  IF i = 0 THEN recvSeq ELSE (f[i - 1] + Size(rxPath[p][i])) % SeqMod]
<1>1. /\ n \in Nat /\ recvSeq \in 0..(SeqMod - 1)
      /\ \A i \in 1..n : Len(rxPath[p][i]) \in Nat
  <2>1. rxPath[p] \in Seq(Seq(Bytes(sent))) /\ recvSeq \in 0..(SeqMod - 1)
    BY DEF TypeOK
  <2>2. \A i \in 1..n : rxPath[p][i] \in Seq(Bytes(sent))
    BY <2>1
  <2> QED
    BY <2>1, <2>2
<1>2. SeqAfter(p, k) = f[k]
  BY DEF SeqAfter
<1>3. f = [i \in 0..n |->
             IF i = 0 THEN recvSeq ELSE (f[i - 1] + Size(rxPath[p][i])) % SeqMod]
  <2>1. \E g : g = [i \in 0..n |->
                 IF i = 0 THEN recvSeq ELSE (g[i - 1] + Size(rxPath[p][i])) % SeqMod]
    <3> HIDE DEF n
    <3> QED
      BY <1>1, SeqAfterExists, Zenon
  <2> HIDE DEF n
  <2> QED
    BY <2>1, Zenon
<1> HIDE DEF f, n
<1>4. \A i \in 1..n : Size(rxPath[p][i]) \in Int
  BY <1>1, SeqAssumption DEF Size
<1>5. f[0] = recvSeq
  BY <1>1, <1>3
<1>6. ASSUME NEW i \in 1..n PROVE f[i] = (f[i - 1] + Size(rxPath[p][i])) % SeqMod
  <2>1. i \in 0..n /\ i # 0
    BY <1>1
  <2> QED
    BY <1>3, <2>1, Zenon
<1> DEFINE S == {i \in Nat : i <= n => f[i] \in 0..(SeqMod - 1)}
<1>7. 0 \in S
  BY <1>1, <1>5
<1>8. ASSUME NEW i \in S PROVE i + 1 \in S
  <2>1. SUFFICES ASSUME i + 1 <= n PROVE f[i + 1] \in 0..(SeqMod - 1)
    OBVIOUS
  <2>2. i + 1 \in 1..n /\ f[i] \in 0..(SeqMod - 1) /\ (i + 1) - 1 = i
    BY <1>1, <2>1
  <2>3. f[i + 1] = (f[i] + Size(rxPath[p][i + 1])) % SeqMod
    BY <1>6, <2>2
  <2>4. f[i] + Size(rxPath[p][i + 1]) \in Int
    BY <1>4, <2>2, SeqAssumption
  <2> QED
    BY <2>3, <2>4, SeqAssumption
<1>9. k \in S
  <2>1. S \in SUBSET Nat /\ \A i \in S : i + 1 \in S
    BY <1>8
  <2>2. k \in Nat
    BY <1>1 DEF n
  <2> HIDE DEF S
  <2> QED
    BY <1>7, <2>1, <2>2, NatInd
<1> QED
  BY <1>1, <1>2, <1>9 DEF n

\* Sequences over a larger set.
LEMMA SeqMono ==
    ASSUME NEW S, NEW T, S \subseteq T
    PROVE  Seq(S) \subseteq Seq(T)
  OBVIOUS

\* The types of a path's buffers, with plain numbers for bytes.
LEMMA PathTypes ==
    ASSUME TypeOK, NEW p \in Path
    PROVE  /\ sent \in Nat /\ ChunksOf(p) \in Seq(Seq(Int)) /\ rxPath[p] \in Seq(Seq(Int))
           /\ flight[p] \in Seq(Int) /\ txBuffer \in Seq(Int)
<1>1. sent \in Nat /\ Seq(Bytes(sent)) \subseteq Seq(Int)
  <2>1. sent \in Nat
    BY BoundAssumption DEF TypeOK
  <2>2. Bytes(sent) \subseteq Int
    BY <2>1, ByteKinds
  <2> QED
    BY <2>1, <2>2, SeqMono
<1>2. rxPath[p] \in Seq(Seq(Int))
  <2>1. rxPath[p] \in Seq(Seq(Bytes(sent)))
    BY DEF TypeOK
  <2> QED
    BY <1>1, <2>1
<1>3. flight[p] \in Seq(Int) /\ txBuffer \in Seq(Int)
  <2> DEFINE M == ReplyBytes \cup Bytes(sent)
  <2>1. flight[p] \in Seq(M)
    BY DEF TypeOK
  <2>2. \A x \in M : x \in Int
    BY <1>1, ByteKinds
  <2>3. txBuffer \in Seq(1..sent)
    BY DEF TypeOK
  <2> HIDE DEF M
  <2>4. flight[p] \in Seq(Int)
    BY <2>1, <2>2
  <2> QED
    BY <1>1, <2>3, <2>4
<1>4. ChunksOf(p) \in Seq(Seq(Int))
  <2> DEFINE R == [path : Path, chunk : Seq(Bytes(sent))]
  <2>1. delivered \in Seq(R)
    BY DEF TypeOK
  <2>2. \A i \in 1..Len(delivered) : delivered[i].chunk \in Seq(Bytes(sent))
    <3>1. \A r \in R : r.chunk \in Seq(Bytes(sent))
      OBVIOUS
    <3> HIDE DEF R
    <3>2. \A i \in 1..Len(delivered) : delivered[i] \in R
      BY <2>1
    <3> QED
      BY <3>1, <3>2
  <2> HIDE DEF R
  <2>3. DOMAIN delivered = 1..Len(delivered) /\ Len(delivered) \in Nat
    BY <2>1
  <2>4. <<>> \in Seq(Int)
    OBVIOUS
  <2> DEFINE c == ChunksOf(p)
  <2>5. /\ c = [i \in 1..Len(delivered) |-> c[i]]
        /\ \A i \in 1..Len(delivered) : c[i] \in Seq(Int)
    BY <1>1, <2>2, <2>3, <2>4 DEF ChunksOf
  <2> HIDE DEF c
  <2>6. c \in Seq(Seq(Int))
    BY <2>3, <2>5
  <2> QED
    BY <2>6 DEF c
<1> QED
  BY <1>1, <1>2, <1>3, <1>4

\* Data leaves out the server's answer and keeps the order.
LEMMA StreamFacts ==
    ASSUME NEW s \in Seq(Int)
    PROVE  /\ Data(s) \in Seq(Int)
           /\ \A x : x \in Elems(Data(s)) <=> ~IsReply(x) /\ x \in Elems(s)
           /\ Increasing(s) => Increasing(Data(s))
<1> DEFINE c == [i \in DOMAIN s |-> IF IsReply(s[i]) THEN <<>> ELSE <<s[i]>>]
<1>1. DOMAIN s = 1..Len(s) /\ Len(s) \in Nat /\ \A i \in 1..Len(s) : s[i] \in Int
  OBVIOUS
<1>2. Data(s) = Flatten(c)
  BY DEF Data
<1>3. \A i \in 1..Len(s) : c[i] \in Seq(Int)
  BY <1>1
<1>4. c \in Seq(Seq(Int))
  <2>1. c = [i \in 1..Len(s) |-> c[i]]
    BY <1>1
  <2> HIDE DEF c
  <2> QED
    BY <1>1, <1>3, <2>1
<1>5. \A i \in DOMAIN s : Elems(c[i]) = IF IsReply(s[i]) THEN {} ELSE {s[i]}
  <2> SUFFICES ASSUME NEW i \in DOMAIN s
               PROVE  Elems(c[i]) = IF IsReply(s[i]) THEN {} ELSE {s[i]}
    OBVIOUS
  <2>1. CASE IsReply(s[i])
    <3>1. c[i] = <<>>
      BY <2>1
    <3>2. Elems(<<>>) = {}
      BY DEF Elems
    <3> QED
      BY <2>1, <3>1, <3>2
  <2>2. CASE ~IsReply(s[i])
    <3>1. c[i] = <<s[i]>>
      BY <2>2
    <3>2. Elems(<<s[i]>>) = {s[i]}
      BY DEF Elems
    <3> HIDE DEF c
    <3> QED
      BY <2>2, <3>1, <3>2
  <2> QED
    BY <2>1, <2>2
<1>6. \A i \in DOMAIN s : Increasing(c[i])
  BY DEF Increasing
<1>7. DOMAIN c = DOMAIN s
  OBVIOUS
<1> HIDE DEF c
<1>8. \A x : Within(c, x) <=> ~IsReply(x) /\ x \in Elems(s)
  BY <1>5, <1>7 DEF Within, Elems
<1>9. Increasing(s) => Ordered(c)
  BY <1>5, <1>6, <1>7 DEF Increasing, Ordered
<1> QED
  BY <1>2, <1>4, <1>8, <1>9, FlattenFacts

\* What is in a stream is a number.
LEMMA OnPathInt ==
    ASSUME TypeOK, NEW p \in Path, NEW x, InStream(p, x)
    PROVE  x \in Int
<1>1. flight[p] \in Seq(Int)
  BY PathTypes
<1> QED
  BY <1>1 DEF InStream, Elems

\* What OnPath holds, and in which order.
LEMMA OnPathFacts ==
    ASSUME TypeOK, NEW p \in Path
    PROVE  /\ \A x : x \in Elems(OnPath(p)) <=> IsOn(p, x)
           /\ OrderInv(p) => Increasing(OnPath(p))
<1> DEFINE d == DeliveredOn({p})
           r == Flatten(rxPath[p])
           f == Data(flight[p])
<1>1. d = Flatten(ChunksOf(p))
  BY DEF DeliveredOn, ChunksOf
<1>2. ChunksOf(p) \in Seq(Seq(Int)) /\ rxPath[p] \in Seq(Seq(Int)) /\ flight[p] \in Seq(Int)
  BY PathTypes
<1>3. /\ d \in Seq(Int) /\ \A x : x \in Elems(d) <=> IsRead(p, x)
      /\ Ordered(ChunksOf(p)) => Increasing(d)
  BY <1>1, <1>2, FlattenFacts DEF IsRead
<1>4. /\ r \in Seq(Int) /\ \A x : x \in Elems(r) <=> IsBuffered(p, x)
      /\ Ordered(rxPath[p]) => Increasing(r)
  BY <1>2, FlattenFacts DEF IsBuffered
<1>5. /\ f \in Seq(Int) /\ \A x : x \in Elems(f) <=> InStream(p, x)
      /\ Increasing(flight[p]) => Increasing(f)
  BY <1>2, StreamFacts DEF InStream
<1> DEFINE e == d \o r
<1>6. OnPath(p) = e \o f
  BY DEF OnPath
<1> HIDE DEF d, r, f
<1>7. e \in Seq(Int) /\ Elems(e) = Elems(d) \cup Elems(r)
  BY <1>3, <1>4, ElemsConcat
<1>11. OrderInv(p) => Increasing(e)
  <2>1. OrderInv(p) => /\ Increasing(d) /\ Increasing(r)
                       /\ \A x \in Elems(d), y \in Elems(r) : x < y
    BY <1>3, <1>4 DEF OrderInv
  <2> QED
    BY <1>3, <1>4, <2>1, IncreasingConcat
<1> HIDE DEF e
<1>8. Elems(e \o f) = Elems(e) \cup Elems(f)
  BY <1>5, <1>7, ElemsConcat
<1>9. \A x : x \in Elems(OnPath(p)) <=> IsOn(p, x)
  BY <1>3, <1>4, <1>5, <1>6, <1>7, <1>8 DEF IsOn
<1>10. OrderInv(p) => Increasing(OnPath(p))
  <2> SUFFICES ASSUME OrderInv(p) PROVE Increasing(OnPath(p))
    OBVIOUS
  <2>1. /\ Increasing(f)
        /\ \A x \in Elems(d), y \in Elems(f) : x < y
        /\ \A x \in Elems(r), y \in Elems(f) : x < y
    BY <1>3, <1>4, <1>5 DEF OrderInv
  <2>2. \A x \in Elems(e), y \in Elems(f) : x < y
    BY <1>7, <2>1
  <2> QED
    BY <1>5, <1>6, <1>7, <1>11, <2>1, <2>2, IncreasingConcat
<1> QED
  BY <1>9, <1>10

\* Where the invariant places the bytes, they are accounted for.
LEMMA PlacesCount ==
    ASSUME DataInv
    PROVE  BytesAccountedFor
<1> SUFFICES ASSUME NEW i \in Bytes(sent)
             PROVE  LET on == [p \in Path |-> Elems(OnPath(p))]
                        places == {p \in Path : i \in on[p]}
                        waiting == Elems(Wire(txBuffer))
                    IN
                    /\ Cardinality(places) <= 1
                    /\ i \in waiting => places = {} /\ i \notin lost
                    /\ i \in lost => places = {}
                    /\ i \in waiting \/ i \in lost \/ places # {}
  BY DEF BytesAccountedFor
<1> DEFINE on == [p \in Path |-> Elems(OnPath(p))]
           places == {p \in Path : i \in on[p]}
           waiting == i \in Elems(Wire(txBuffer))
<1>1. TypeOK /\ TxInv /\ PlaceInv
  BY DEF DataInv
<1>2. \A p \in Path : p \in places <=> IsOn(p, i)
  BY <1>1, OnPathFacts
<1> DEFINE g == Given * MsgLen
           e == sent * MsgLen
<1>3. waiting <=> i \in (g + 1)..e
  <2>1. /\ txBuffer \in Seq(1..sent) /\ sent \in Nat /\ Len(txBuffer) <= sent
        /\ Given = sent - Len(txBuffer) /\ Len(txBuffer) \in Nat
        /\ \A j \in 1..Len(txBuffer) : txBuffer[j] = Given + j
    BY <1>1, BoundAssumption DEF TypeOK, TxInv, Given
  <2>2. 1..sent \subseteq Int /\ Given \in Nat /\ Given + Len(txBuffer) = sent
    BY <2>1
  <2>3. txBuffer \in Seq(Int)
    BY <2>1, <2>2, SeqMono
  <2> HIDE DEF Given
  <2> QED
    BY <2>1, <2>2, <2>3, WireFacts
<1>4. g \in Nat /\ e \in Nat /\ g <= e
  <2>1. Given \in Nat /\ sent \in Nat /\ Given <= sent
    BY <1>1, BoundAssumption DEF TypeOK, TxInv, Given
  <2> HIDE DEF Given
  <2> QED
    BY <2>1, BytesGrow
<1>10. Bytes(Given) = 1..g /\ Bytes(sent) = 1..e
  BY DEF Bytes
<1> HIDE DEF g, e
<1>5. /\ i \in Bytes(Given) \/ i \in (g + 1)..e
      /\ ~(i \in Bytes(Given) /\ i \in (g + 1)..e)
  BY <1>4, <1>10
<1>6. /\ \A p \in Path : IsOn(p, i) => i \in Bytes(Given) /\ i \notin lost
      /\ \A p, q \in Path : IsOn(p, i) /\ IsOn(q, i) => p = q
      /\ i \in lost => i \in Bytes(Given)
      /\ i \in Bytes(Given) => i \in lost \/ \E p \in Path : IsOn(p, i)
  BY <1>1 DEF PlaceInv
<1>7. places \subseteq Path
  OBVIOUS
<1> HIDE DEF places, waiting
<1>8. Cardinality(places) <= 1
  <2>1. CASE places = {}
    BY <2>1, FS_EmptySet
  <2>2. CASE places # {}
    <3>1. PICK p \in Path : places = {p}
      BY <1>2, <1>6, <1>7, <2>2
    <3>2. Cardinality({p}) = 1
      BY FS_Singleton, Zenon
    <3> QED
      BY <3>1, <3>2
  <2> QED
    BY <2>1, <2>2
<1>9. /\ waiting => places = {} /\ i \notin lost
      /\ i \in lost => places = {}
      /\ waiting \/ i \in lost \/ places # {}
  BY <1>2, <1>3, <1>5, <1>6, <1>7
<1> QED
  BY <1>8, <1>9 DEF places, waiting

-----------------------------------------------------------------------------
(* Types.                                                                  *)

\* The initial state has its types.
LEMMA InitTypes == Init => TypeOK
<1> SUFFICES ASSUME Init PROVE TypeOK
  OBVIOUS
<1>1. /\ sent \in 0..MaxSends /\ sendCalls \in Nat /\ lastPathIndex \in Int32
      /\ recvSeq \in 0..(SeqMod - 1) /\ halted \in {"no", "loop", "assert"}
      /\ broken \subseteq Path /\ lost \subseteq Bytes(sent)
  BY BoundAssumption, SeqAssumption, IndexAssumption DEF Init, Int32
<1>2. /\ txBuffer \in Seq(1..sent) /\ paths \in Seq(Path) /\ notices \in Seq(Path)
      /\ delivered \in Seq([path : Path, chunk : Seq(Bytes(sent))])
  <2> DEFINE R == [path : Path, chunk : Seq(Bytes(sent))]
  <2>1. delivered \in Seq(R)
    <3> HIDE DEF R
    <3> QED
      BY DEF Init
  <2>2. txBuffer \in Seq(1..sent) /\ notices \in Seq(Path)
    BY DEF Init
  <2>3. paths \in Seq(Path)
    BY PathAssumption DEF Init
  <2> QED
    BY <2>1, <2>2, <2>3
<1>3. /\ sndState \in [Path -> {"INIT", "CONNECTED", "ERROR"}]
      /\ rcvState \in [Path -> {"WAITING", "CONNECTED", "ERROR"}]
      /\ idle \in [Path -> Nat] /\ rxNumber \in [Path -> Seq(0..(SeqMod - 1))]
  BY DEF Init, Peer
<1>4. flight \in [Path -> Seq(ReplyBytes \cup Bytes(sent))]
  <2> DEFINE M == ReplyBytes \cup Bytes(sent)
  <2>1. ReplyBytes \subseteq M
    OBVIOUS
  <2> HIDE DEF M
  <2>2. Stream \in Seq(M) /\ <<>> \in Seq(M)
    BY <2>1, AnswerFacts, SeqMono
  <2>3. flight \in [Path -> Seq(M)]
    BY <2>2 DEF Init
  <2> QED
    BY <2>3 DEF M
<1>5. rxPath \in [Path -> Seq(Seq(Bytes(sent)))]
  <2> DEFINE C == Seq(Bytes(sent))
  <2> HIDE DEF C
  <2>1. rxPath \in [Path -> Seq(C)]
    BY DEF Init
  <2> QED
    BY <2>1 DEF C
<1> QED
  BY <1>1, <1>2, <1>3, <1>4, <1>5 DEF TypeOK

\* A new packet only widens the types.
LEMMA SendTypes ==
    ASSUME TypeOK, Send
    PROVE  TypeOK'
<1> DEFINE n == sent + 1
           R(k) == [path : Path, chunk : Seq(Bytes(k))]
<1>1. /\ sent' = n /\ n \in 0..MaxSends /\ sent \in Nat /\ n \in 1..n /\ n \in Nat
      /\ 1..sent \subseteq 1..n /\ sent <= n
  BY BoundAssumption DEF Send, TypeOK
<1> HIDE DEF n
<1>11. Bytes(sent) \subseteq Bytes(n) /\ Seq(1..sent) \subseteq Seq(1..n)
  BY <1>1, BytesGrow, SeqMono
<1>12. ReplyBytes \cup Bytes(sent) \subseteq ReplyBytes \cup Bytes(n)
  BY <1>11
<1>2. /\ Seq(Bytes(sent)) \subseteq Seq(Bytes(n))
      /\ Seq(ReplyBytes \cup Bytes(sent)) \subseteq Seq(ReplyBytes \cup Bytes(n))
  BY <1>11, <1>12, SeqMono
<1>3. Seq(Seq(Bytes(sent))) \subseteq Seq(Seq(Bytes(n)))
  BY <1>2, SeqMono
<1>4. Seq(R(sent)) \subseteq Seq(R(n))
  <2>1. R(sent) \subseteq R(n)
    BY <1>2
  <2> HIDE DEF R
  <2> QED
    BY <2>1, SeqMono
<1>5. txBuffer' \in Seq(1..n)
  <2>1. txBuffer \in Seq(1..n) /\ txBuffer' = Append(txBuffer, n)
    BY <1>11 DEF Send, TypeOK, n
  <2> QED
    BY <1>1, <2>1
<1>6. flight' \in [Path -> Seq(ReplyBytes \cup Bytes(n))]
  <2>1. flight' = flight /\ flight \in [Path -> Seq(ReplyBytes \cup Bytes(sent))]
    BY DEF Send, TypeOK
  <2> QED
    BY <1>2, <2>1
<1>7. rxPath' \in [Path -> Seq(Seq(Bytes(n)))]
  <2>1. rxPath' = rxPath /\ rxPath \in [Path -> Seq(Seq(Bytes(sent)))]
    BY DEF Send, TypeOK, recvVars
  <2> QED
    BY <1>3, <2>1
<1>8. delivered' \in Seq(R(n))
  <2>1. delivered' = delivered /\ delivered \in Seq(R(sent))
    BY DEF Send, TypeOK, recvVars
  <2> QED
    BY <1>4, <2>1
<1>9. lost' \subseteq Bytes(n)
  BY <1>11 DEF Send, TypeOK
<1>10. /\ sendCalls' \in Nat /\ paths' \in Seq(Path) /\ lastPathIndex' \in Int32
       /\ rxNumber' \in [Path -> Seq(0..(SeqMod - 1))]
       /\ sndState' \in [Path -> {"INIT", "CONNECTED", "ERROR"}]
       /\ rcvState' \in [Path -> {"WAITING", "CONNECTED", "ERROR"}]
       /\ broken' \subseteq Path /\ notices' \in Seq(Path)
       /\ recvSeq' \in 0..(SeqMod - 1) /\ idle' \in [Path -> Nat]
       /\ halted' \in {"no", "loop", "assert"}
  BY DEF Send, TypeOK, pathVars, recvVars
<1> QED
  BY <1>1, <1>5, <1>6, <1>7, <1>8, <1>9, <1>10 DEF TypeOK

\* A path that joins is a path.
LEMMA JoinTypes ==
    ASSUME TypeOK, NEW p \in Path, AddOtherConnectPath(p)
    PROVE  TypeOK'
<1> DEFINE M == ReplyBytes \cup Bytes(sent)
<1>1. flight' \in [Path -> Seq(M)]
  <2>1. flight \in [Path -> Seq(M)] /\ flight' = [flight EXCEPT ![p] = Stream]
    BY DEF TypeOK, AddOtherConnectPath
  <2>2. ReplyBytes \subseteq M
    OBVIOUS
  <2> HIDE DEF M
  <2>3. Stream \in Seq(M)
    BY <2>2, AnswerFacts, SeqMono
  <2> QED
    BY <2>1, <2>3
<1>2. paths' \in Seq(Path)
  BY DEF AddOtherConnectPath, TypeOK
<1>3. sndState' \in [Path -> {"INIT", "CONNECTED", "ERROR"}]
  BY DEF AddOtherConnectPath, TypeOK
<1>4. idle' \in [Path -> Nat]
  BY DEF AddOtherConnectPath
<1>5. UNCHANGED <<sent, txBuffer, sendCalls, lastPathIndex, rcvState, broken,
                  rxPath, rxNumber, notices, recvSeq, delivered, lost, halted>>
  BY DEF AddOtherConnectPath, recvVars
<1> QED
  BY <1>1, <1>2, <1>3, <1>4, <1>5 DEF TypeOK

\* The index stays an int32_t, and its conversion is a natural number.
LEMMA IndexTypes ==
    ASSUME NEW i \in Int32
    PROVE  i \in Int /\ Unsigned(i) \in Nat
<1>1. IndexMax \in Nat /\ SizeMod \in Nat /\ SizeMod > IndexMax
  BY IndexAssumption
<1> QED
  BY <1>1 DEF Int32, Unsigned

\* The path of an index is a path of the connection.
LEMMA PathAtType ==
    ASSUME TypeOK, paths # <<>>, NEW i \in Int32
    PROVE  PathAt(i) \in Elems(paths) /\ PathAt(i) \in Path
<1>1. paths \in Seq(Path) /\ Len(paths) \in Nat \ {0}
  BY DEF TypeOK
<1>2. (Unsigned(i) % Len(paths)) + 1 \in 1..Len(paths)
  BY <1>1, IndexTypes
<1> QED
  BY <1>1, <1>2 DEF PathAt, Elems

\* A list without repetitions is no longer than Path is large.
LEMMA ListFits ==
    ASSUME NEW s \in Seq(Path), \A i, j \in DOMAIN s : s[i] = s[j] => i = j
    PROVE  Len(s) <= IndexMax + 1
<1>1. Len(s) \in Nat /\ DOMAIN s = 1..Len(s) /\ s \in [1..Len(s) -> Path]
  OBVIOUS
<1>2. s \in Injection(1..Len(s), Path)
  BY <1>1 DEF Injection, IsInjective
<1>3. IsFiniteSet(Path) /\ Cardinality(Path) <= IndexMax + 1 /\ IndexMax \in Nat
  BY PathAssumption, IndexAssumption
<1>4. Cardinality(1..Len(s)) <= Cardinality(Path)
  BY <1>2, <1>3, FS_Injection
<1>5. Cardinality(1..Len(s)) = Len(s)
  <2> DEFINE n == Len(s)
  <2> HIDE DEF n
  <2>1. n \in Nat
    BY <1>1 DEF n
  <2>2. Cardinality(1..n) = IF 1 > n THEN 0 ELSE n - 1 + 1
    BY <2>1, FS_Interval
  <2> QED
    BY <2>1, <2>2 DEF n
<1>6. Cardinality(Path) \in Nat
  BY <1>3, FS_CardinalityType
<1> QED
  BY <1>1, <1>3, <1>4, <1>5, <1>6

\* An index d ahead, for no more than two laps, is an int32_t.
LEMMA AheadType ==
    ASSUME TypeOK, ListInv, NEW d \in 0..(2 * Len(paths))
    PROVE  Ahead(d) \in Int32
<1>1. /\ IndexMax \in Nat /\ lastPathIndex \in (-(IndexMax + 1))..IndexMax
      /\ Len(paths) \in Nat /\ Len(paths) <= IndexMax + 1
  BY IndexAssumption DEF TypeOK, ListInv, Int32
<1> QED
  BY <1>1 DEF Ahead, Int32

\* SendData leaves the bytes alone, or gives a batch to the first connected
\* path: n packets of it to the stream, the others are dropped.
LEMMA Batches ==
    ASSUME TypeOK, paths # <<>>, SendData
    PROVE  /\ UNCHANGED <<sent, pathVars, recvVars>> /\ sendCalls' \in Nat
           /\ halted' \in {"no", "loop", "assert"}
           /\ \/ UNCHANGED <<txBuffer, lastPathIndex, idle, flight, lost>>
              \/ \E d \in Usable, batch \in 1..Len(txBuffer), n \in 0..Len(txBuffer) :
                   /\ n <= batch /\ ChoosePathRoundRobin(d)
                   /\ SendBatch(PathAt(Ahead(d)), batch, n)
                   /\ idle' = [q \in Path |->
                                 IF q = PathAt(Ahead(d)) THEN 0 ELSE idle[q] + 1]
<1>1. UNCHANGED <<sent, pathVars, recvVars>> /\ sendCalls' \in Nat
  BY DEF SendData, TypeOK
<1>2. CASE txBuffer = <<>> \/ Usable = {}
  <2>1. UNCHANGED <<txBuffer, lastPathIndex, idle, flight, lost>>
    BY <1>2 DEF SendData
  <2>2. halted' \in {"no", "loop", "assert"}
    BY <1>2 DEF SendData, TypeOK
  <2> QED
    BY <1>1, <2>1, <2>2
<1>3. CASE txBuffer # <<>> /\ Usable # {}
  <2> DEFINE batch == Lesser(MaxSentOnce, Len(txBuffer))
  <2>1. PICK d \in Usable :
           /\ ChoosePathRoundRobin(d)
           /\ \E n \in Accepted(PathAt(Ahead(d)), batch) :
                 SendBatch(PathAt(Ahead(d)), batch, n)
           /\ idle' = [q \in Path |->
                         IF q = PathAt(Ahead(d)) THEN 0 ELSE idle[q] + 1]
           /\ UNCHANGED halted
    BY <1>3 DEF SendData
  <2>2. Len(txBuffer) \in Nat \ {0}
    BY <1>3 DEF TypeOK
  <2>3. batch \in 1..Len(txBuffer)
    BY <2>2, BoundAssumption DEF Lesser
  <2> HIDE DEF batch
  <2>5. PICK n \in Accepted(PathAt(Ahead(d)), batch) :
           SendBatch(PathAt(Ahead(d)), batch, n)
    BY <2>1
  <2>6. n \in 0..Len(txBuffer) /\ n <= batch
    BY <2>2, <2>3 DEF Accepted
  <2>7. halted' \in {"no", "loop", "assert"}
    BY <2>1 DEF TypeOK
  <2> QED
    BY <1>1, <2>1, <2>3, <2>5, <2>6, <2>7
<1> QED
  BY <1>2, <1>3

\* The path of a batch is a path of the connection.
LEMMA ChosenType ==
    ASSUME TypeOK, ListInv, NEW d \in Usable
    PROVE  /\ d \in 0..(2 * Len(paths) - 1) /\ Ahead(d) \in Int32 /\ Ahead(d + 1) \in Int32
           /\ PathAt(Ahead(d)) \in Elems(paths) /\ PathAt(Ahead(d)) \in Path
<1>1. Len(paths) \in Nat /\ d \in 0..(2 * Len(paths) - 1)
  BY DEF Usable, TypeOK
<1>2. d \in 0..(2 * Len(paths)) /\ d + 1 \in 0..(2 * Len(paths))
  BY <1>1
<1>3. Ahead(d) \in Int32 /\ Ahead(d + 1) \in Int32
  BY <1>2, AheadType
<1> QED
  BY <1>1, <1>3, PathAtType DEF ListInv

\* A part of the send buffer is a row of packets.
LEMMA PartOfTx ==
    ASSUME TypeOK, TxInv, NEW m \in 0..Len(txBuffer), NEW n \in m..Len(txBuffer)
    PROVE  LET a == SubSeq(txBuffer, m + 1, n)
           IN  /\ a \in Seq(1..sent) /\ a \in Seq(Int) /\ Len(a) = n - m
               /\ \A i \in 1..Len(a) : a[i] = Given + m + i
               /\ Given \in Nat /\ Given + n <= sent /\ sent \in Nat
<1> DEFINE a == SubSeq(txBuffer, m + 1, n)
           L == Len(txBuffer)
<1>1. /\ txBuffer \in Seq(1..sent) /\ sent \in Nat /\ L \in Nat /\ L <= sent
      /\ \A i \in 1..L : txBuffer[i] = Given + i
  BY BoundAssumption DEF TypeOK, TxInv
<1>2. Given = sent - L
  BY DEF Given
<1>3. Given \in Nat /\ Given + n <= sent /\ 1..sent \subseteq Int
  BY <1>1, <1>2
<1>4. a \in Seq(1..sent) /\ Len(a) = n - m
  BY <1>1
<1>5. a \in Seq(Int)
  BY <1>3, <1>4, SeqMono
<1>6. ASSUME NEW i \in 1..Len(a) PROVE a[i] = Given + m + i
  <2>1. a[i] = txBuffer[m + i] /\ m + i \in 1..L
    BY <1>1, <1>4
  <2> QED
    BY <1>1, <1>3, <2>1
<1> QED
  BY <1>1, <1>3, <1>4, <1>5, <1>6

\* The bytes of a part of the send buffer.
LEMMA PartOfWire ==
    ASSUME TypeOK, TxInv, NEW m \in 0..Len(txBuffer), NEW n \in m..Len(txBuffer)
    PROVE  LET w == Wire(SubSeq(txBuffer, m + 1, n))
           IN  /\ w \in Seq(Int) /\ Increasing(w)
               /\ Elems(w) = ((Given + m) * MsgLen + 1)..((Given + n) * MsgLen)
<1> DEFINE a == SubSeq(txBuffer, m + 1, n)
           g == Given + m
<1>1. /\ a \in Seq(Int) /\ Len(a) = n - m /\ \A i \in 1..Len(a) : a[i] = Given + m + i
      /\ Given \in Nat
  BY PartOfTx
<1>2. m \in Nat /\ n \in Nat
  BY DEF TypeOK
<1>3. /\ g \in Nat /\ \A i \in 1..Len(a) : a[i] = g + i
  <2>1. g \in Nat
    BY <1>1, <1>2
  <2> HIDE DEF a
  <2> QED
    BY <1>1, <1>2, <2>1
<1>4. g + Len(a) = Given + n
  BY <1>1, <1>2
<1> HIDE DEF g, a
<1>5. /\ Wire(a) \in Seq(Int) /\ Increasing(Wire(a))
      /\ Elems(Wire(a)) = (g * MsgLen + 1)..((g + Len(a)) * MsgLen)
  BY <1>1, <1>3, WireFacts
<1> QED
  BY <1>4, <1>5 DEF g, a

\* The packets of a batch.
LEMMA BatchFacts ==
    ASSUME TypeOK, TxInv, NEW batch \in 1..Len(txBuffer), NEW n \in 0..Len(txBuffer),
           n <= batch
    PROVE  /\ Wire(SubSeq(txBuffer, 1, n)) \in Seq(Int)
           /\ Increasing(Wire(SubSeq(txBuffer, 1, n)))
           /\ Elems(Wire(SubSeq(txBuffer, 1, n)))
                = (Given * MsgLen + 1)..((Given + n) * MsgLen)
           /\ Elems(Wire(SubSeq(txBuffer, n + 1, batch)))
                = ((Given + n) * MsgLen + 1)..((Given + batch) * MsgLen)
           /\ txBuffer' = SubSeq(txBuffer, batch + 1, Len(txBuffer)) /\ sent' = sent
                => TxInv' /\ Given' = Given + batch
<1> DEFINE L == Len(txBuffer)
<1>1. L \in Nat /\ txBuffer \in Seq(1..sent)
  BY DEF TypeOK
<1>2. /\ 0 \in 0..L /\ n \in 0..L /\ batch \in n..L /\ L \in batch..L /\ batch \in 0..L
      /\ n \in Nat /\ batch \in Nat
  BY <1>1
<1>3. /\ Given \in Nat /\ sent \in Nat /\ L <= sent /\ Given + batch + (L - batch) = sent
      /\ Given = sent - L
  <2>1. sent \in Nat /\ L <= sent /\ Given = sent - L
    BY BoundAssumption DEF TypeOK, TxInv, Given
  <2> QED
    BY <1>1, <1>2, <2>1
<1>4. /\ Wire(SubSeq(txBuffer, 0 + 1, n)) \in Seq(Int)
      /\ Increasing(Wire(SubSeq(txBuffer, 0 + 1, n)))
      /\ Elems(Wire(SubSeq(txBuffer, 0 + 1, n)))
           = ((Given + 0) * MsgLen + 1)..((Given + n) * MsgLen)
  BY <1>2, PartOfWire
<1>5. 0 + 1 = 1 /\ Given + 0 = Given
  BY <1>3
<1>6. Elems(Wire(SubSeq(txBuffer, n + 1, batch)))
         = ((Given + n) * MsgLen + 1)..((Given + batch) * MsgLen)
  BY <1>2, PartOfWire
<1>7. ASSUME txBuffer' = SubSeq(txBuffer, batch + 1, L), sent' = sent
      PROVE  TxInv' /\ Given' = Given + batch
  <2> DEFINE a == SubSeq(txBuffer, batch + 1, L)
  <2>1. /\ a \in Seq(1..sent) /\ Len(a) = L - batch
        /\ \A i \in 1..Len(a) : a[i] = Given + batch + i
    BY <1>2, PartOfTx
  <2>2. DOMAIN a = 1..Len(a)
    BY <2>1
  <2> HIDE DEF a
  <2>3. txBuffer' = a
    BY <1>7 DEF a
  <2>4. Given' = Given + batch
    <3>1. Given' = sent - Len(a)
      BY <1>7, <2>3 DEF Given
    <3> HIDE DEF L
    <3> QED
      BY <1>1, <1>2, <1>3, <2>1, <3>1
  <2>5. \A i \in DOMAIN txBuffer' : txBuffer'[i] = Given' + i
    BY <2>1, <2>2, <2>3, <2>4
  <2>6. Len(txBuffer') <= sent'
    BY <1>1, <1>2, <1>3, <1>7, <2>1, <2>3
  <2> QED
    BY <2>4, <2>5, <2>6 DEF TxInv
<1> QED
  BY <1>4, <1>5, <1>6, <1>7

\* A batch keeps the types.
LEMMA BatchTypes ==
    ASSUME TypeOK, TxInv, ListInv, SendData
    PROVE  TypeOK'
<1>1. /\ UNCHANGED <<sent, paths, sndState, rcvState, broken, rxPath, rxNumber, notices,
                     recvSeq, delivered>>
      /\ sendCalls' \in Nat /\ halted' \in {"no", "loop", "assert"}
  BY Batches DEF pathVars, recvVars, ListInv
<1>2. CASE UNCHANGED <<txBuffer, lastPathIndex, idle, flight, lost>>
  BY <1>1, <1>2 DEF TypeOK
<1>3. ASSUME NEW d \in Usable, NEW batch \in 1..Len(txBuffer),
             NEW n \in 0..Len(txBuffer), n <= batch, ChoosePathRoundRobin(d),
             SendBatch(PathAt(Ahead(d)), batch, n),
             idle' = [q \in Path |-> IF q = PathAt(Ahead(d)) THEN 0 ELSE idle[q] + 1]
      PROVE  TypeOK'
  <2> DEFINE M == ReplyBytes \cup Bytes(sent)
             p == PathAt(Ahead(d))
             a == Wire(SubSeq(txBuffer, 1, n))
             g0 == Given * MsgLen
             g1 == (Given + n) * MsgLen
             g2 == (Given + batch) * MsgLen
             e == sent * MsgLen
  <2>1. /\ txBuffer \in Seq(1..sent) /\ flight \in [Path -> Seq(M)] /\ p \in Path
        /\ idle \in [Path -> Nat] /\ lost \subseteq Bytes(sent)
    BY ChosenType DEF TypeOK
  <2>2. /\ flight' = [flight EXCEPT ![p] = @ \o a]
        /\ lost' = lost \cup Elems(Wire(SubSeq(txBuffer, n + 1, batch)))
        /\ txBuffer' = SubSeq(txBuffer, batch + 1, Len(txBuffer))
    BY <1>3 DEF SendBatch
  <2>3. Bytes(sent) \subseteq M /\ Bytes(sent) = 1..e
    BY DEF Bytes
  <2>4. /\ a \in Seq(Int) /\ Elems(a) = (g0 + 1)..g1
        /\ Elems(Wire(SubSeq(txBuffer, n + 1, batch))) = (g1 + 1)..g2
    BY <1>3, BatchFacts
  <2>5. /\ g0 \in Nat /\ g1 \in Nat /\ g2 \in Nat /\ e \in Nat
        /\ g0 <= g1 /\ g1 <= g2 /\ g2 <= e
    <3>1. /\ sent \in Nat /\ Len(txBuffer) <= sent /\ Given = sent - Len(txBuffer)
          /\ Len(txBuffer) \in Nat
      BY BoundAssumption DEF TypeOK, TxInv, Given
    <3>2. /\ Given \in Nat /\ Given + n \in Nat /\ Given + batch \in Nat /\ sent \in Nat
          /\ Given <= Given + n /\ Given + n <= Given + batch /\ Given + batch <= sent
      BY <1>3, <3>1
    <3>3. g0 \in Nat /\ g1 \in Nat /\ g0 <= g1
      BY <3>2, BytesGrow
    <3>4. g2 \in Nat /\ g1 <= g2
      BY <3>2, BytesGrow
    <3>5. e \in Nat /\ g2 <= e
      BY <3>2, BytesGrow
    <3> QED
      BY <3>3, <3>4, <3>5
  <2> HIDE DEF g0, g1, g2, e
  <2>6. /\ Elems(a) \subseteq Bytes(sent)
        /\ Elems(Wire(SubSeq(txBuffer, n + 1, batch))) \subseteq Bytes(sent)
    BY <2>3, <2>4, <2>5
  <2> HIDE DEF M, p, a
  <2>7. a \in Seq(M)
    <3>1. \A i \in 1..Len(a) : a[i] \in Elems(a)
      BY <2>4 DEF Elems
    <3>2. \A i \in 1..Len(a) : a[i] \in M
      BY <2>3, <2>6, <3>1
    <3>3. Len(a) \in Nat /\ a = [i \in 1..Len(a) |-> a[i]]
      BY <2>4
    <3> QED
      BY <3>2, <3>3
  <2>8. flight' \in [Path -> Seq(M)]
    <3>1. flight[p] \o a \in Seq(M)
      BY <2>1, <2>7
    <3> QED
      BY <2>1, <2>2, <3>1
  <2>9. txBuffer' \in Seq(1..sent)
    <3>1. Len(txBuffer) \in Nat
      BY <2>1
    <3>2. batch + 1 \in 1..(Len(txBuffer) + 1) /\ Len(txBuffer) \in 0..Len(txBuffer)
      BY <3>1
    <3> QED
      BY <2>1, <2>2, <3>2, PartFacts
  <2>10. lost' \subseteq Bytes(sent)
    BY <2>1, <2>2, <2>6
  <2>11. idle' \in [Path -> Nat]
    BY <1>3, <2>1
  <2>12. lastPathIndex' \in Int32
    BY <1>3, ChosenType DEF ChoosePathRoundRobin
  <2> QED
    BY <1>1, <2>8, <2>9, <2>10, <2>11, <2>12 DEF TypeOK, M
<1> QED
  BY <1>2, <1>3, Batches DEF ListInv

\* A read takes messages only, but for the answer that the reader waits for.
LEMMA ReadFacts ==
    ASSUME TypeOK, NEW p \in Path, AnswerInv(p), NEW n, Reads(p, n)
    PROVE  /\ n \in 1..Len(flight[p]) /\ Len(flight[p]) \in Nat
           /\ Elems(SubSeq(flight[p], ReplyLen + 1, n)) \subseteq Bytes(sent)
           /\ rcvState[p] # "WAITING" => SubSeq(flight[p], 1, n) \in Seq(Bytes(sent))
<1> DEFINE M == ReplyBytes \cup Bytes(sent)
           s == flight[p]
<1>1. s \in Seq(M) /\ n \in 1..Len(s)
  BY DEF TypeOK, Reads
<1>2. \A i \in DOMAIN s : /\ i > ReplyLen => ~IsReply(s[i])
                          /\ rcvState[p] # "WAITING" => ~IsReply(s[i])
  <2>1. ReplyLen \in Nat /\ DOMAIN s \subseteq Nat
    BY <1>1, SeqAssumption
  <2> QED
    BY <2>1 DEF AnswerInv
<1>3. \A x \in M : ~IsReply(x) => x \in Bytes(sent)
  <2>1. sent \in Nat
    BY BoundAssumption DEF TypeOK
  <2> QED
    BY <2>1, ByteKinds
<1> DEFINE m == ReplyLen + 1
<1>4. /\ Len(s) \in Nat /\ DOMAIN s = 1..Len(s) /\ \A i \in 1..Len(s) : s[i] \in M
      /\ n \in 0..Len(s) /\ 1 \in 1..(Len(s) + 1) /\ m \in Nat \ {0} /\ m > ReplyLen
      /\ ReplyLen \in Nat
  <2> HIDE DEF M, s
  <2> QED
    BY <1>1, SeqAssumption
<1> HIDE DEF M, s, m
<1>5. Elems(SubSeq(s, m, n)) \subseteq Bytes(sent)
  <2>1. CASE m <= Len(s) + 1
    <3>1. m \in 1..(Len(s) + 1)
      BY <1>4, <2>1
    <3>2. Elems(SubSeq(s, m, n)) = {s[i] : i \in m..n}
      BY <1>1, <1>4, <3>1, PartFacts
    <3>3. \A i \in m..n : i \in 1..Len(s) /\ i > ReplyLen
      BY <1>4
    <3> QED
      BY <1>2, <1>3, <1>4, <3>2, <3>3
  <2>2. CASE m > Len(s) + 1
    <3>1. m > n
      BY <1>4, <2>2
    <3>2. SubSeq(s, m, n) = <<>>
      BY <1>1, <1>4, <3>1
    <3> QED
      BY <3>2 DEF Elems
  <2> QED
    BY <1>4, <2>1, <2>2
<1>6. ASSUME rcvState[p] # "WAITING" PROVE SubSeq(s, 1, n) \in Seq(Bytes(sent))
  <2>1. \A i \in 1..Len(s) : s[i] \in Bytes(sent)
    BY <1>2, <1>3, <1>4, <1>6
  <2>2. s \in Seq(Bytes(sent))
    <3>1. s = [i \in 1..Len(s) |-> s[i]]
      BY <1>1, <1>4
    <3> DEFINE D == Bytes(sent)
    <3>2. \A i \in 1..Len(s) : s[i] \in D
      BY <2>1
    <3> HIDE DEF D
    <3>3. s \in Seq(D)
      BY <1>4, <3>1, <3>2
    <3> QED
      BY <3>3 DEF D
  <2> QED
    BY <1>4, <2>2, PartFacts
<1> QED
  BY <1>1, <1>4, <1>5, <1>6 DEF s, m

\* What is left in the stream after a read keeps its type.
LEMMA UnreadTypes ==
    ASSUME TypeOK, NEW p \in Path, NEW n \in 1..Len(flight[p]), flight' = Unread(p, n)
    PROVE  /\ flight' \in [Path -> Seq(ReplyBytes \cup Bytes(sent))]
           /\ flight'[p] = SubSeq(flight[p], n + 1, Len(flight[p]))
           /\ \A q \in Path : q # p => flight'[q] = flight[q]
<1> DEFINE M == ReplyBytes \cup Bytes(sent)
<1>1. flight \in [Path -> Seq(M)]
  BY DEF TypeOK
<1> HIDE DEF M
<1>2. flight' = [flight EXCEPT ![p] = SubSeq(flight[p], n + 1, Len(flight[p]))]
  BY DEF Unread
<1>3. /\ n + 1 \in 1..(Len(flight[p]) + 1) /\ Len(flight[p]) \in 0..Len(flight[p])
      /\ flight[p] \in Seq(M)
  BY <1>1
<1>4. SubSeq(flight[p], n + 1, Len(flight[p])) \in Seq(M)
  BY <1>3, PartFacts
<1>5. flight' \in [Path -> Seq(M)]
  BY <1>1, <1>2, <1>4
<1>6. /\ flight'[p] = SubSeq(flight[p], n + 1, Len(flight[p]))
      /\ \A q \in Path : q # p => flight'[q] = flight[q]
  BY <1>1, <1>2
<1> QED
  BY <1>5, <1>6 DEF M

\* The answer keeps the types.
LEMMA AnswerTypes ==
    ASSUME TypeOK, NEW p \in Path, AnswerInv(p), NEW n, ProcessAnswer(p, n)
    PROVE  TypeOK'
<1>1. /\ Reads(p, n) /\ flight' = Unread(p, n)
      /\ lost' = lost \cup Elems(SubSeq(flight[p], ReplyLen + 1, n))
      /\ rcvState' = [rcvState EXCEPT ![p] = "CONNECTED"]
      /\ UNCHANGED <<sent, txBuffer, sendCalls, lastPathIndex, idle, paths, sndState,
                     broken, rxPath, rxNumber, notices, recvSeq, delivered, halted>>
  BY DEF ProcessAnswer, sendVars, recvVars
<1>2. n \in 1..Len(flight[p]) /\ Elems(SubSeq(flight[p], ReplyLen + 1, n)) \subseteq Bytes(sent)
  BY <1>1, ReadFacts
<1>3. flight' \in [Path -> Seq(ReplyBytes \cup Bytes(sent))]
  BY <1>1, <1>2, UnreadTypes
<1>4. lost' \subseteq Bytes(sent)
  BY <1>1, <1>2 DEF TypeOK
<1>5. rcvState' \in [Path -> {"WAITING", "CONNECTED", "ERROR"}]
  BY <1>1 DEF TypeOK
<1> QED
  BY <1>1, <1>3, <1>4, <1>5 DEF TypeOK

\* What a header reads as is a sequence number.
LEMMA NumberType ==
    ASSUME TypeOK, NEW chunk \in Seq(Bytes(sent)), Len(chunk) > 0
    PROVE  Numbers(chunk) \subseteq 0..(SeqMod - 1)
<1>1. sent \in Nat /\ MaxSends \in Nat /\ sent <= MaxSends
  BY BoundAssumption DEF TypeOK
<1>2. Bytes(sent) \subseteq Bytes(MaxSends)
  BY <1>1, BytesGrow
<1> DEFINE b == chunk[1]
<1>3. b \in Bytes(sent)
  OBVIOUS
<1> HIDE DEF b
<1>4. b \in Int /\ b > 0
  BY <1>1, <1>3, ByteKinds DEF IsReply
<1>5. StrayNumbers[b] \subseteq 0..(SeqMod - 1)
  <2>1. b \in 1..(MaxSends * (HeaderLen + PayloadLen))
    BY <1>2, <1>3 DEF Bytes, MsgLen
  <2> QED
    BY <2>1, SeqAssumption
<1> DEFINE i == ((b - 1) \div MsgLen) + 1
<1>6. i \in Int
  <2>1. b - 1 \in Nat
    BY <1>4
  <2>2. (b - 1) \div MsgLen \in Nat
    BY <2>1, MsgLenType, Division
  <2> QED
    BY <2>2
<1> HIDE DEF i
<1>7. SeqOf(i) \in 0..(SeqMod - 1)
  <2>1. ConnID + (i - 1) * PayloadLen \in Int
    BY <1>6, SeqAssumption
  <2> QED
    BY <2>1, SeqAssumption DEF SeqOf
<1>8. Numbers(chunk) \subseteq {SeqOf(i)} \cup StrayNumbers[b]
  BY DEF Numbers, i, b
<1> QED
  BY <1>5, <1>7, <1>8

\* A read of data keeps the types.
LEMMA DataTypes ==
    ASSUME TypeOK, NEW p \in Path, AnswerInv(p), NEW n, ProcessConnected(p, n)
    PROVE  TypeOK'
<1> DEFINE chunk == SubSeq(flight[p], 1, n)
           C == Seq(Bytes(sent))
<1>1. /\ Reads(p, n) /\ flight' = Unread(p, n) /\ rcvState[p] # "WAITING"
      /\ rxPath' = [rxPath EXCEPT ![p] = Append(@, chunk)]
      /\ \E number \in Numbers(chunk) :
            rxNumber' = [rxNumber EXCEPT ![p] = Append(@, number)]
      /\ notices' = Append(notices, p)
      /\ UNCHANGED <<sent, txBuffer, sendCalls, lastPathIndex, idle, paths, sndState,
                     rcvState, broken, recvSeq, delivered, lost, halted>>
  BY DEF ProcessConnected, sendVars, pathVars
<1>2. n \in 1..Len(flight[p]) /\ chunk \in C
  BY <1>1, ReadFacts
<1>3. flight' \in [Path -> Seq(ReplyBytes \cup Bytes(sent))]
  BY <1>1, <1>2, UnreadTypes
<1>4. rxPath \in [Path -> Seq(C)]
  BY DEF TypeOK
<1>8. Len(chunk) > 0
  BY <1>2 DEF TypeOK
<1> HIDE DEF C, chunk
<1>5. rxPath' \in [Path -> Seq(C)]
  <2>1. Append(rxPath[p], chunk) \in Seq(C)
    BY <1>2, <1>4
  <2> QED
    BY <1>1, <1>4, <2>1
<1>6. notices' \in Seq(Path)
  BY <1>1 DEF TypeOK
<1>7. rxNumber' \in [Path -> Seq(0..(SeqMod - 1))]
  <2>1. Len(chunk) > 0
    BY <1>8
  <2>2. Numbers(chunk) \subseteq 0..(SeqMod - 1)
    BY <1>2, <2>1, NumberType DEF C
  <2>3. rxNumber \in [Path -> Seq(0..(SeqMod - 1))]
    BY DEF TypeOK
  <2>4. PICK number \in Numbers(chunk) :
           rxNumber' = [rxNumber EXCEPT ![p] = Append(@, number)]
    BY <1>1
  <2>5. Append(rxNumber[p], number) \in Seq(0..(SeqMod - 1))
    <3>1. number \in 0..(SeqMod - 1) /\ rxNumber[p] \in Seq(0..(SeqMod - 1))
      BY <2>2, <2>3
    <3> QED
      BY <3>1
  <2> QED
    BY <2>3, <2>4, <2>5
<1> QED
  BY <1>1, <1>3, <1>5, <1>6, <1>7 DEF TypeOK, C

\* What PathRecvedData does: it takes the first k chunks of a path, or ends the
\* program.
LEMMA Takes ==
    ASSUME TypeOK, PathRecvedData
    PROVE  /\ UNCHANGED <<sendVars, pathVars, flight, lost>>
           /\ notices' \in Seq(Path) /\ halted' \in {"no", "loop", "assert"}
           /\ \/ UNCHANGED <<rxPath, rxNumber, recvSeq, delivered>>
              \/ \E p \in Path : \E k \in 0..Len(rxPath[p]) :
                   /\ rxPath' = [rxPath EXCEPT ![p] = SubSeq(@, k + 1, Len(rxPath[p]))]
                   /\ rxNumber' = [rxNumber EXCEPT ![p] = SubSeq(@, k + 1, Len(@))]
                   /\ recvSeq' = SeqAfter(p, k)
                   /\ delivered' = delivered \o Taken(p, k)
<1> DEFINE p == Head(notices)
           size == Len(rxPath[p])
<1>1. notices \in Seq(Path) /\ notices # <<>> /\ notices' = Tail(notices)
  BY DEF PathRecvedData, TypeOK
<1>2. p \in Path /\ notices' \in Seq(Path)
  BY <1>1
<1>3. UNCHANGED <<sendVars, pathVars, flight, lost>>
  BY DEF PathRecvedData
<1>4. PICK k \in 0..size :
         IF k = size /\ TakesNext(p, size)
         THEN /\ halted' = "assert"
              /\ UNCHANGED <<rxPath, rxNumber, recvSeq, delivered>>
         ELSE /\ rxPath' = [rxPath EXCEPT ![p] = SubSeq(@, k + 1, size)]
              /\ rxNumber' = [rxNumber EXCEPT ![p] = SubSeq(@, k + 1, Len(@))]
              /\ recvSeq' = SeqAfter(p, k)
              /\ delivered' = delivered \o Taken(p, k)
              /\ UNCHANGED halted
  BY DEF PathRecvedData
<1>5. CASE k = size /\ TakesNext(p, size)
  <2>1. halted' = "assert" /\ UNCHANGED <<rxPath, rxNumber, recvSeq, delivered>>
    BY <1>4, <1>5
  <2> QED
    BY <1>2, <1>3, <2>1
<1>6. CASE ~(k = size /\ TakesNext(p, size))
  <2>1. /\ rxPath' = [rxPath EXCEPT ![p] = SubSeq(@, k + 1, size)]
        /\ rxNumber' = [rxNumber EXCEPT ![p] = SubSeq(@, k + 1, Len(@))]
        /\ recvSeq' = SeqAfter(p, k)
        /\ delivered' = delivered \o Taken(p, k)
        /\ UNCHANGED halted
    BY <1>4, <1>6
  <2>2. halted' \in {"no", "loop", "assert"}
    BY <2>1 DEF TypeOK
  <2> HIDE DEF p
  <2> QED
    BY <1>2, <1>3, <2>1, <2>2
<1> QED
  BY <1>5, <1>6

\* What the application gets keeps the types.
LEMMA TakeTypes ==
    ASSUME TypeOK, PathRecvedData
    PROVE  TypeOK'
<1>1. /\ UNCHANGED <<sent, txBuffer, sendCalls, lastPathIndex, idle, paths, sndState,
                     rcvState, broken, flight, lost>>
      /\ notices' \in Seq(Path) /\ halted' \in {"no", "loop", "assert"}
  BY Takes DEF sendVars, pathVars
<1>2. CASE UNCHANGED <<rxPath, rxNumber, recvSeq, delivered>>
  BY <1>1, <1>2 DEF TypeOK
<1>3. ASSUME NEW p \in Path, NEW k \in 0..Len(rxPath[p]),
             rxPath' = [rxPath EXCEPT ![p] = SubSeq(@, k + 1, Len(rxPath[p]))],
             rxNumber' = [rxNumber EXCEPT ![p] = SubSeq(@, k + 1, Len(@))],
             recvSeq' = SeqAfter(p, k), delivered' = delivered \o Taken(p, k)
      PROVE  TypeOK'
  <2> DEFINE C == Seq(Bytes(sent))
             R == [path : Path, chunk : C]
  <2>1. rxPath \in [Path -> Seq(C)] /\ delivered \in Seq(R)
    BY DEF TypeOK
  <2> HIDE DEF C
  <2>2. rxPath' \in [Path -> Seq(C)]
    <3>1. SubSeq(rxPath[p], k + 1, Len(rxPath[p])) \in Seq(C)
      BY <2>1
    <3> QED
      BY <1>3, <2>1, <3>1
  <2>3. delivered' \in Seq(R)
    <3>1. \A i \in 1..k : i \in 1..Len(rxPath[p]) /\ rxPath[p][i] \in C
      BY <2>1
    <3>2. \A i \in 1..k : [path |-> p, chunk |-> rxPath[p][i]] \in R
      BY <3>1
    <3> HIDE DEF R
    <3>3. Taken(p, k) \in Seq(R)
      BY <2>1, <3>2 DEF Taken
    <3> QED
      BY <1>3, <2>1, <3>3
  <2>4. recvSeq' \in 0..(SeqMod - 1)
    BY <1>3, SeqAfterType
  <2>5. rxNumber' \in [Path -> Seq(0..(SeqMod - 1))]
    <3> DEFINE N == 0..(SeqMod - 1)
    <3>1. rxNumber \in [Path -> Seq(N)] /\ k \in Nat
      BY <2>1 DEF TypeOK
    <3> HIDE DEF N
    <3>2. SubSeq(rxNumber[p], k + 1, Len(rxNumber[p])) \in Seq(N)
      BY <3>1
    <3>3. rxNumber' \in [Path -> Seq(N)]
      BY <1>3, <3>1, <3>2
    <3> QED
      BY <3>3 DEF N
  <2> QED
    BY <1>1, <2>2, <2>3, <2>4, <2>5 DEF TypeOK, C, R
<1> QED
  BY <1>2, <1>3, Takes

\* A broken path keeps the types.
LEMMA BreakTypes ==
    ASSUME TypeOK, NEW p \in Path, Break(p)
    PROVE  TypeOK'
<1> DEFINE M == ReplyBytes \cup Bytes(sent)
<1>1. /\ broken' = broken \cup {p}
      /\ flight' = [flight EXCEPT ![p] = <<>>]
      /\ lost' = lost \cup {b \in Elems(flight[p]) : ~IsReply(b)}
      /\ UNCHANGED <<sent, txBuffer, sendCalls, lastPathIndex, idle, paths, rxPath,
                     rxNumber, notices, recvSeq, delivered, halted>>
  BY DEF Break, sendVars, recvVars
<1>2. /\ sndState' \in [Path -> {"INIT", "CONNECTED", "ERROR"}]
      /\ rcvState' \in [Path -> {"WAITING", "CONNECTED", "ERROR"}]
  BY DEF Break, TypeOK
<1>3. flight \in [Path -> Seq(M)] /\ \A x \in M : ~IsReply(x) => x \in Bytes(sent)
  <2>1. sent \in Nat /\ flight \in [Path -> Seq(M)]
    BY BoundAssumption DEF TypeOK
  <2> QED
    BY <2>1, ByteKinds
<1> HIDE DEF M
<1>4. flight' \in [Path -> Seq(M)]
  BY <1>1, <1>3
<1>5. Elems(flight[p]) \subseteq M
  BY <1>3 DEF Elems
<1>6. lost' \subseteq Bytes(sent) /\ broken' \subseteq Path
  BY <1>1, <1>3, <1>5 DEF TypeOK
<1> QED
  BY <1>1, <1>2, <1>4, <1>6 DEF TypeOK, M

-----------------------------------------------------------------------------
(* Steps of the invariant.                                                 *)

\* Bytes that stay on their paths stay accounted for.
LEMMA PlacesKept ==
    ASSUME PlaceInv, Given' = Given, lost' = lost,
           \A p \in Path : \A x : IsOn(p, x)' <=> IsOn(p, x)
    PROVE  PlaceInv'
  BY DEF PlaceInv

\* Bytes that leave a path and are recorded as lost stay accounted for.
LEMMA PlacesDropped ==
    ASSUME PlaceInv, Given' = Given, NEW p \in Path, NEW X, lost' = lost \cup X,
           \A x \in X : IsOn(p, x),
           \A q \in Path : q # p => \A x : IsOn(q, x)' <=> IsOn(q, x),
           \A x : IsOn(p, x)' <=> IsOn(p, x) /\ x \notin X
    PROVE  PlaceInv'
<1>1. ASSUME NEW q \in Path, NEW x, IsOn(q, x)' PROVE IsOn(q, x) /\ x \notin X
  <2>1. CASE q = p
    BY <1>1, <2>1
  <2>2. CASE q # p
    <3>1. IsOn(q, x)
      BY <1>1, <2>2
    <3>2. x \notin X
      BY <2>2, <3>1 DEF PlaceInv
    <3> QED
      BY <3>1, <3>2
  <2> QED
    BY <2>1, <2>2
<1>2. \A q \in Path : \A x : IsOn(q, x)' => x \in Bytes(Given)' /\ x \notin lost'
  BY <1>1 DEF PlaceInv
<1>3. \A q, r \in Path : \A x : IsOn(q, x)' /\ IsOn(r, x)' => q = r
  BY <1>1 DEF PlaceInv
<1>4. lost' \subseteq Bytes(Given)'
  BY DEF PlaceInv
<1>5. ASSUME NEW x \in Bytes(Given)' PROVE x \in lost' \/ \E q \in Path : IsOn(q, x)'
  <2>1. SUFFICES ASSUME x \notin lost' PROVE \E q \in Path : IsOn(q, x)'
    OBVIOUS
  <2>2. x \notin X /\ \E q \in Path : IsOn(q, x)
    BY <2>1 DEF PlaceInv
  <2> QED
    BY <2>2
<1> QED
  BY <1>2, <1>3, <1>4, <1>5 DEF PlaceInv

\* A path that a step leaves alone.
LEMMA PathKept ==
    ASSUME NEW q, delivered' = delivered, rxPath'[q] = rxPath[q], flight'[q] = flight[q]
    PROVE  /\ OrderInv(q)' <=> OrderInv(q)
           /\ \A x : IsOn(q, x)' <=> IsOn(q, x)
           /\ (q \in Elems(paths'))  = (q \in Elems(paths)) /\ rcvState'[q] = rcvState[q]
                => (AnswerInv(q)' <=> AnswerInv(q))
<1>1. ChunksOf(q)' = ChunksOf(q)
  BY DEF ChunksOf
<1>2. /\ \A x : IsRead(q, x)' <=> IsRead(q, x)
      /\ \A x : IsBuffered(q, x)' <=> IsBuffered(q, x)
      /\ \A x : InStream(q, x)' <=> InStream(q, x)
  BY <1>1 DEF IsRead, IsBuffered, InStream
<1>3. OrderInv(q)' <=> OrderInv(q)
  BY <1>1, <1>2 DEF OrderInv
<1>4. \A x : IsOn(q, x)' <=> IsOn(q, x)
  BY <1>2 DEF IsOn
<1>5. ASSUME (q \in Elems(paths')) = (q \in Elems(paths)), rcvState'[q] = rcvState[q]
      PROVE  AnswerInv(q)' <=> AnswerInv(q)
  BY <1>5 DEF AnswerInv
<1> QED
  BY <1>3, <1>4, <1>5

\* What the reader of a new stream waits for.
LEMMA PeerAnswers ==
    /\ \A i \in DOMAIN Stream : IsReply(Stream[i]) => i <= ReplyLen /\ Peer = "WAITING"
    /\ Peer = "WAITING" => /\ Len(Stream) >= ReplyLen
                            /\ \A i \in 1..ReplyLen : IsReply(Stream[i])
    /\ SenderIsClient => Peer # "WAITING"
<1>1. ReplyLen \in Nat
  BY SeqAssumption
<1>2. CASE SenderIsClient
  <2>1. DOMAIN Stream = {} /\ Peer = "CONNECTED"
    BY <1>2, AnswerFacts DEF Peer
  <2> QED
    BY <2>1
<1>3. CASE ~SenderIsClient
  <2>1. /\ Peer = "WAITING" /\ Stream \in Seq(ReplyBytes) /\ Len(Stream) = ReplyLen
        /\ \A i \in DOMAIN Stream : IsReply(Stream[i])
    BY <1>3, AnswerFacts DEF Peer
  <2>2. DOMAIN Stream = 1..ReplyLen
    BY <2>1
  <2>3. \A i \in DOMAIN Stream : i <= ReplyLen
    BY <1>1, <2>2
  <2>4. Len(Stream) >= ReplyLen
    BY <1>1, <2>1
  <2> QED
    BY <1>3, <2>1, <2>2, <2>3, <2>4
<1> QED
  BY <1>2, <1>3

\* The initial state.
LEMMA InitDataInv == Init => DataInv
<1> SUFFICES ASSUME Init PROVE DataInv
  OBVIOUS
<1>1. TypeOK
  BY InitTypes
<1>2. /\ sent = 0 /\ txBuffer = <<>> /\ paths = <<FirstPath>> /\ delivered = <<>>
      /\ lost = {}
  BY DEF Init
<1>3. Given = 0 /\ TxInv /\ ListInv
  <2>1. /\ Len(<<>>) = 0 /\ Len(<<FirstPath>>) = 1 /\ DOMAIN <<>> = {}
        /\ DOMAIN <<FirstPath>> = {1}
    OBVIOUS
  <2>5. Len(paths) = 1 /\ DOMAIN paths = {1} /\ paths # <<>>
    BY <1>2, <2>1
  <2>2. ListInv
    BY <2>5, IndexAssumption DEF ListInv
  <2>3. Len(txBuffer) = 0 /\ DOMAIN txBuffer = {} /\ sent = 0
    BY <1>2, <2>1
  <2>4. Given = 0
    BY <2>3 DEF Given
  <2> QED
    BY <2>2, <2>3, <2>4 DEF TxInv
<1>4. ASSUME NEW p \in Path PROVE AnswerInv(p) /\ OrderInv(p) /\ \A x : ~IsOn(p, x)
  <2>1. ChunksOf(p) = <<>> /\ rxPath[p] = <<>> /\ rcvState[p] = Peer
    BY <1>2 DEF Init, ChunksOf
  <2>2. flight[p] = IF p = FirstPath THEN Stream ELSE <<>>
    BY DEF Init
  <2>3. (p \in Elems(paths)) <=> p = FirstPath
    BY <1>2 DEF Elems
  <2>4. \A x : ~Within(<<>>, x)
    BY DEF Within
  <2>5. Ordered(<<>>) /\ Increasing(<<>>) /\ Increasing(Stream)
    BY AnswerFacts DEF Ordered, Increasing
  <2>6. \A x : ~IsRead(p, x) /\ ~IsBuffered(p, x)
    BY <2>1, <2>4 DEF IsRead, IsBuffered
  <2>7. \A x : ~InStream(p, x)
    BY <2>2, AnswerFacts DEF InStream, Elems
  <2>8. Increasing(flight[p])
    BY <2>2, <2>5
  <2>9. OrderInv(p)
    BY <2>1, <2>5, <2>6, <2>7, <2>8 DEF OrderInv
  <2>10. AnswerInv(p)
    <3>1. CASE p = FirstPath
      <4>1. flight[p] = Stream /\ p \in Elems(paths)
        BY <2>2, <2>3, <3>1
      <4> QED
        BY <2>1, <4>1, PeerAnswers DEF AnswerInv
    <3>2. CASE p # FirstPath
      <4>1. flight[p] = <<>> /\ p \notin Elems(paths) /\ DOMAIN <<>> = {}
        BY <2>2, <2>3, <3>2
      <4> QED
        BY <2>1, <4>1 DEF AnswerInv, Peer
    <3> QED
      BY <3>1, <3>2
  <2> QED
    BY <2>6, <2>7, <2>9, <2>10 DEF IsOn
<1>5. PlaceInv
  <2>1. Bytes(Given) = {}
    BY <1>3, MsgLenType DEF Bytes
  <2> QED
    BY <1>2, <1>4, <2>1 DEF PlaceInv
<1> QED
  BY <1>1, <1>3, <1>4, <1>5 DEF DataInv

\* A new packet waits at the end of the send buffer.
LEMMA SendStep ==
    ASSUME DataInv, Send
    PROVE  DataInv'
<1>1. TypeOK'
  BY SendTypes DEF DataInv
<1>2. /\ txBuffer \in Seq(1..sent) /\ sent \in Nat /\ Len(txBuffer) <= sent
      /\ \A i \in DOMAIN txBuffer : txBuffer[i] = sent - Len(txBuffer) + i
  BY BoundAssumption DEF DataInv, TypeOK, TxInv, Given
<1>3. sent' = sent + 1 /\ txBuffer' = Append(txBuffer, sent + 1)
  BY DEF Send
<1>4. /\ Len(txBuffer') = Len(txBuffer) + 1 /\ Len(txBuffer) \in Nat
      /\ DOMAIN txBuffer' = 1..(Len(txBuffer) + 1) /\ DOMAIN txBuffer = 1..Len(txBuffer)
      /\ \A i \in 1..Len(txBuffer) : txBuffer'[i] = txBuffer[i]
      /\ txBuffer'[Len(txBuffer) + 1] = sent + 1
  BY <1>2, <1>3
<1>5. Given' = Given
  BY <1>2, <1>3, <1>4 DEF Given
<1>6. TxInv'
  <2>1. Given = sent - Len(txBuffer)
    BY DEF Given
  <2>2. \A i \in DOMAIN txBuffer' : txBuffer'[i] = Given + i
    BY <1>2, <1>4, <2>1
  <2> QED
    BY <1>2, <1>3, <1>4, <1>5, <2>2 DEF TxInv
<1>7. UNCHANGED <<paths, rcvState, flight, rxPath, delivered, lost>>
  BY DEF Send, pathVars, recvVars
<1>8. \A p \in Path : AnswerInv(p)' /\ OrderInv(p)'
  BY <1>7, PathKept DEF DataInv
<1>9. \A p \in Path : \A x : IsOn(p, x)' <=> IsOn(p, x)
  BY <1>7, PathKept
<1>10. PlaceInv'
  BY <1>5, <1>7, <1>9, PlacesKept DEF DataInv
<1>11. ListInv'
  BY <1>7 DEF DataInv, ListInv
<1> QED
  BY <1>1, <1>6, <1>8, <1>10, <1>11 DEF DataInv

\* A path that joins brings at most the server's answer.
LEMMA JoinStep ==
    ASSUME DataInv, NEW p \in Path, AddOtherConnectPath(p)
    PROVE  DataInv'
<1>1. TypeOK' /\ TypeOK
  BY JoinTypes DEF DataInv
<1>2. /\ p \notin Elems(paths) /\ paths' = Append(paths, p)
      /\ flight' = [flight EXCEPT ![p] = Stream]
      /\ UNCHANGED <<sent, txBuffer, rcvState, rxPath, delivered, lost>>
  BY DEF AddOtherConnectPath, recvVars
<1>3. /\ flight[p] = <<>> /\ rcvState[p] = Peer /\ flight'[p] = Stream
      /\ \A q \in Path : q # p => flight'[q] = flight[q]
  BY <1>1, <1>2 DEF DataInv, AnswerInv, TypeOK
<1>4. ListInv' /\ \A q : q \in Elems(paths') <=> q \in Elems(paths) \/ q = p
  <2>1. paths \in Seq(Path)
    BY <1>1 DEF TypeOK
  <2>2. Append(paths, p) = paths \o <<p>> /\ <<p>> \in Seq(Path)
    BY <2>1
  <2>3. Elems(paths \o <<p>>) = Elems(paths) \cup Elems(<<p>>)
    BY <2>1, <2>2, ElemsConcat
  <2>4. Elems(<<p>>) = {p}
    BY DEF Elems
  <2>5. ListInv'
    <3> DEFINE s == Append(paths, p)
               n == Len(paths)
    <3>1. /\ Len(s) = n + 1 /\ n \in Nat /\ s \in Seq(Path) /\ DOMAIN s = 1..(n + 1)
          /\ DOMAIN paths = 1..n /\ s[n + 1] = p /\ \A i \in 1..n : s[i] = paths[i]
      BY <2>1
    <3> HIDE DEF s, n
    <3>2. \A i \in 1..n : s[i] # p
      BY <1>2, <3>1 DEF Elems
    <3>3. \A i, j \in 1..n : s[i] = s[j] => i = j
      BY <3>1 DEF DataInv, ListInv
    <3>4. \A i \in 1..(n + 1) : i \in 1..n \/ i = n + 1
      BY <3>1
    <3>5. \A i, j \in DOMAIN s : s[i] = s[j] => i = j
      BY <3>1, <3>2, <3>3, <3>4
    <3>6. Len(s) <= IndexMax + 1
      BY <3>1, <3>5, ListFits
    <3>7. s # <<>>
      <4>1. Len(s) > 0 /\ Len(<<>>) = 0
        BY <3>1
      <4> QED
        BY <4>1
    <3>8. paths' = s
      BY <1>2 DEF s
    <3> QED
      BY <3>5, <3>6, <3>7, <3>8 DEF ListInv
  <2> QED
    BY <1>2, <2>2, <2>3, <2>4, <2>5
<1>5. ASSUME NEW q \in Path
      PROVE  AnswerInv(q)' /\ OrderInv(q)' /\ \A x : IsOn(q, x)' <=> IsOn(q, x)
  <2>1. CASE q # p
    <3>1. /\ flight'[q] = flight[q] /\ rxPath'[q] = rxPath[q] /\ delivered' = delivered
          /\ (q \in Elems(paths')) = (q \in Elems(paths)) /\ rcvState'[q] = rcvState[q]
      BY <1>2, <1>3, <1>4, <2>1
    <3> QED
      BY <3>1, PathKept DEF DataInv
  <2>2. CASE q = p
    <3>1. ChunksOf(p)' = ChunksOf(p)
      BY <1>2 DEF ChunksOf
    <3>2. /\ \A x : IsRead(p, x)' <=> IsRead(p, x)
          /\ \A x : IsBuffered(p, x)' <=> IsBuffered(p, x)
      BY <1>2, <3>1 DEF IsRead, IsBuffered
    <3>3. \A x : ~InStream(p, x)' /\ ~InStream(p, x)
      BY <1>3, AnswerFacts DEF InStream, Elems
    <3>4. Increasing(Stream)
      BY AnswerFacts DEF Increasing
    <3>5. OrderInv(p)'
      BY <1>2, <1>3, <3>1, <3>2, <3>3, <3>4 DEF DataInv, OrderInv
    <3>6. AnswerInv(p)'
      <4>1. rcvState'[p] = Peer /\ p \in Elems(paths')
        BY <1>2, <1>3, <1>4
      <4>2. /\ \A i \in DOMAIN flight'[p] :
                  IsReply(flight'[p][i]) => i <= ReplyLen /\ rcvState'[p] = "WAITING"
            /\ rcvState'[p] = "WAITING" =>
                  /\ Len(flight'[p]) >= ReplyLen
                  /\ \A i \in 1..ReplyLen : IsReply(flight'[p][i])
            /\ SenderIsClient => rcvState'[p] # "WAITING"
        BY <1>3, <4>1, PeerAnswers
      <4> QED
        BY <4>1, <4>2 DEF AnswerInv
    <3> QED
      BY <2>2, <3>2, <3>3, <3>5, <3>6 DEF IsOn
  <2> QED
    BY <2>1, <2>2
<1>6. Given' = Given
  BY <1>2 DEF Given
<1>7. PlaceInv'
  BY <1>2, <1>5, <1>6, PlacesKept DEF DataInv
<1>8. TxInv'
  BY <1>2, <1>6 DEF DataInv, TxInv
<1> QED
  BY <1>1, <1>4, <1>5, <1>7, <1>8 DEF DataInv

\* A batch follows what is in the stream already.
LEMMA BatchStep ==
    ASSUME DataInv, TypeOK', NEW p \in Path, p \in Elems(paths),
           NEW batch \in 1..Len(txBuffer), NEW n \in 0..Len(txBuffer), n <= batch,
           SendBatch(p, batch, n), UNCHANGED <<sent, paths, rcvState, rxPath, delivered>>
    PROVE  DataInv'
<1> DEFINE g0 == Given * MsgLen
           g1 == (Given + n) * MsgLen
           g2 == (Given + batch) * MsgLen
           a == Wire(SubSeq(txBuffer, 1, n))
           s == flight[p]
<1>1. TypeOK /\ TxInv /\ PlaceInv /\ AnswerInv(p) /\ OrderInv(p) /\ ListInv'
  BY DEF DataInv, ListInv
<1>2. /\ flight' = [flight EXCEPT ![p] = s \o a]
      /\ lost' = lost \cup Elems(Wire(SubSeq(txBuffer, n + 1, batch)))
      /\ txBuffer' = SubSeq(txBuffer, batch + 1, Len(txBuffer))
  BY DEF SendBatch
<1>3. /\ a \in Seq(Int) /\ Increasing(a) /\ Elems(a) = (g0 + 1)..g1
      /\ lost' = lost \cup (g1 + 1)..g2 /\ TxInv' /\ Given' = Given + batch
  BY <1>1, <1>2, BatchFacts
<1>6. g0 \in Nat /\ g1 \in Nat /\ g2 \in Nat /\ g0 <= g1 /\ g1 <= g2
  <2>1. /\ sent \in Nat /\ Len(txBuffer) <= sent /\ Given = sent - Len(txBuffer)
        /\ Len(txBuffer) \in Nat
    BY <1>1, BoundAssumption DEF TypeOK, TxInv, Given
  <2>2. /\ Given \in Nat /\ Given + n \in Nat /\ Given + batch \in Nat
        /\ Given <= Given + n /\ Given + n <= Given + batch
    BY <2>1
  <2>3. g0 \in Nat /\ g1 \in Nat /\ g0 <= g1
    BY <2>2, BytesGrow
  <2>4. g2 \in Nat /\ g1 <= g2
    BY <2>2, BytesGrow
  <2> QED
    BY <2>3, <2>4
<1>20. Bytes(Given) = 1..g0 /\ Bytes(Given') = 1..g2
  BY <1>3 DEF Bytes
<1>4. s \in Seq(Int)
  BY <1>1, PathTypes
<1>5. flight'[p] = s \o a /\ \A q \in Path : q # p => flight'[q] = flight[q]
  BY <1>1, <1>2 DEF TypeOK
<1>14. rcvState[p] = "WAITING" => /\ Len(s) >= ReplyLen
                                  /\ \A i \in 1..ReplyLen : IsReply(s[i])
  BY <1>1 DEF AnswerInv
<1>15. \A i \in DOMAIN s : IsReply(s[i]) => i <= ReplyLen /\ rcvState[p] = "WAITING"
  BY <1>1 DEF AnswerInv
<1>16. \A x : InStream(p, x) <=> ~IsReply(x) /\ x \in Elems(s)
  BY DEF InStream
<1>17. Increasing(s)
  BY <1>1 DEF OrderInv
<1>21. /\ lost \subseteq 1..g0
       /\ \A q \in Path : \A x : IsOn(q, x) => x \in 1..g0 /\ x \notin lost
       /\ \A x \in 1..g0 : x \in lost \/ \E q \in Path : IsOn(q, x)
  BY <1>1, <1>20 DEF PlaceInv
<1> HIDE DEF g0, g1, g2, a, s
<1>7. \A x : InStream(p, x)' <=> InStream(p, x) \/ x \in (g0 + 1)..g1
  <2>3. s \in Seq(Int) /\ a \in Seq(Int)
    BY <1>3, <1>4
  <2>1. Elems(s \o a) = Elems(s) \cup Elems(a)
    BY <2>3, ElemsConcat
  <2>2. \A x \in (g0 + 1)..g1 : ~IsReply(x)
    BY <1>6 DEF IsReply
  <2> QED
    BY <1>3, <1>5, <1>16, <2>1, <2>2 DEF InStream
<1>8. \A x : IsOn(p, x) => x \in 1..g0
  BY <1>21
<1>9. Increasing(s \o a)
  <2>1. \A x \in Elems(s), y \in Elems(a) : x < y
    <3> SUFFICES ASSUME NEW x \in Elems(s), NEW y \in Elems(a) PROVE x < y
      OBVIOUS
    <3>1. x \in Int /\ (x <= 0 \/ x \in 1..g0)
      BY <1>4, <1>8, <1>16 DEF IsOn, IsReply, Elems
    <3> QED
      BY <1>3, <1>6, <3>1
  <2> QED
    BY <1>3, <1>4, <1>17, <2>1, IncreasingConcat
<1>10. /\ \A x : IsRead(p, x)' <=> IsRead(p, x)
       /\ \A x : IsBuffered(p, x)' <=> IsBuffered(p, x)
       /\ ChunksOf(p)' = ChunksOf(p)
  BY DEF IsRead, IsBuffered, ChunksOf
<1>11. OrderInv(p)'
  <2>1. \A x, y : IsRead(p, x) /\ y \in (g0 + 1)..g1 => x < y
    BY <1>6, <1>8 DEF IsOn
  <2>2. \A x, y : IsBuffered(p, x) /\ y \in (g0 + 1)..g1 => x < y
    BY <1>6, <1>8 DEF IsOn
  <2> QED
    BY <1>1, <1>5, <1>7, <1>9, <1>10, <2>1, <2>2 DEF OrderInv
<1>12. AnswerInv(p)'
  <2>1. ASSUME NEW i \in DOMAIN (s \o a), IsReply((s \o a)[i])
        PROVE  i <= ReplyLen /\ rcvState[p] = "WAITING"
    <3>1. CASE i <= Len(s)
      <4>1. i \in DOMAIN s /\ (s \o a)[i] = s[i]
        BY <1>3, <1>4, <3>1
      <4> QED
        BY <1>15, <2>1, <4>1
    <3>2. CASE i > Len(s)
      <4>1. i - Len(s) \in DOMAIN a /\ (s \o a)[i] = a[i - Len(s)]
        BY <1>3, <1>4, <3>2
      <4>2. (s \o a)[i] \in (g0 + 1)..g1
        BY <1>3, <4>1 DEF Elems
      <4>3. ~IsReply((s \o a)[i])
        BY <1>6, <4>2 DEF IsReply
      <4> QED
        BY <2>1, <4>3
    <3> QED
      BY <1>3, <1>4, <3>1, <3>2
  <2>2. ASSUME rcvState[p] = "WAITING"
        PROVE  Len(s \o a) >= ReplyLen /\ \A i \in 1..ReplyLen : IsReply((s \o a)[i])
    <3>1. Len(s) >= ReplyLen /\ Len(s) \in Nat /\ Len(a) \in Nat /\ ReplyLen \in Nat
      BY <1>3, <1>4, <1>14, <2>2, SeqAssumption
    <3>2. Len(s \o a) = Len(s) + Len(a)
      BY <1>3, <1>4
    <3>3. \A i \in 1..ReplyLen : i \in 1..Len(s)
      BY <3>1
    <3>4. \A i \in 1..Len(s) : (s \o a)[i] = s[i]
      BY <1>3, <1>4
    <3>5. \A i \in 1..ReplyLen : IsReply((s \o a)[i])
      BY <1>14, <2>2, <3>3, <3>4
    <3> QED
      BY <3>1, <3>2, <3>5
  <2> QED
    BY <1>1, <1>5, <2>1, <2>2 DEF AnswerInv
<1>13. ASSUME NEW q \in Path, q # p
       PROVE  AnswerInv(q)' /\ OrderInv(q)' /\ \A x : IsOn(q, x)' <=> IsOn(q, x)
  BY <1>5, <1>13, PathKept DEF DataInv
<1>18. \A x : IsOn(p, x)' <=> IsOn(p, x) \/ x \in (g0 + 1)..g1
  BY <1>7, <1>10 DEF IsOn
<1>19. PlaceInv'
  <2>1. ASSUME NEW q \in Path, NEW x, IsOn(q, x)'
        PROVE  \/ IsOn(q, x) /\ x \in 1..g0
               \/ q = p /\ x \in (g0 + 1)..g1
    BY <1>13, <1>18, <1>21, <2>1
  <2>3. /\ \A x \in 1..g0 : x \in 1..g2 /\ x \notin (g1 + 1)..g2 /\ x \notin (g0 + 1)..g1
        /\ \A x \in (g0 + 1)..g1 : x \in 1..g2 /\ x \notin 1..g0 /\ x \notin (g1 + 1)..g2
        /\ \A x \in (g1 + 1)..g2 : x \in 1..g2
        /\ \A x \in 1..g2 : x \in 1..g0 \/ x \in (g0 + 1)..g1 \/ x \in (g1 + 1)..g2
    BY <1>6
  <2>4. \A q \in Path : \A x : IsOn(q, x)' => x \in 1..g2 /\ x \notin lost'
    <3> SUFFICES ASSUME NEW q \in Path, NEW x, IsOn(q, x)'
                 PROVE  x \in 1..g2 /\ x \notin lost'
      OBVIOUS
    <3>1. CASE IsOn(q, x) /\ x \in 1..g0
      BY <1>3, <1>21, <2>3, <3>1
    <3>2. CASE q = p /\ x \in (g0 + 1)..g1
      BY <1>3, <1>21, <2>3, <3>2
    <3> QED
      BY <2>1, <3>1, <3>2
  <2>5. \A q, r \in Path : \A x : IsOn(q, x)' /\ IsOn(r, x)' => q = r
    <3> SUFFICES ASSUME NEW q \in Path, NEW r \in Path, NEW x, IsOn(q, x)', IsOn(r, x)'
                 PROVE  q = r
      OBVIOUS
    <3>1. CASE x \in 1..g0
      <4>1. IsOn(q, x) /\ IsOn(r, x)
        BY <2>1, <2>3, <3>1
      <4> QED
        BY <1>1, <4>1 DEF PlaceInv
    <3>2. CASE x \notin 1..g0
      BY <2>1, <3>2
    <3> QED
      BY <3>1, <3>2
  <2>6. lost' \subseteq 1..g2
    BY <1>3, <1>21, <2>3
  <2>7. ASSUME NEW x \in 1..g2 PROVE x \in lost' \/ \E q \in Path : IsOn(q, x)'
    <3>1. CASE x \in 1..g0
      <4>1. x \in lost \/ \E q \in Path : IsOn(q, x)
        BY <1>21, <3>1
      <4> QED
        BY <1>3, <1>13, <1>18, <4>1
    <3>2. CASE x \in (g0 + 1)..g1
      BY <1>18, <3>2
    <3>3. CASE x \in (g1 + 1)..g2
      BY <1>3, <3>3
    <3> QED
      BY <2>3, <3>1, <3>2, <3>3
  <2> QED
    BY <1>20, <2>4, <2>5, <2>6, <2>7 DEF PlaceInv
<1> QED
  BY <1>1, <1>3, <1>11, <1>12, <1>13, <1>19 DEF DataInv

\* The reader of the answer drops what came with it.
LEMMA AnswerStep ==
    ASSUME DataInv, NEW p \in Path, NEW n, ProcessAnswer(p, n)
    PROVE  DataInv'
<1> DEFINE s == flight[p]
           X == Elems(SubSeq(s, ReplyLen + 1, n))
<1>1. /\ TypeOK /\ TxInv /\ PlaceInv /\ AnswerInv(p) /\ OrderInv(p) /\ ListInv'
      /\ \A q \in Path : AnswerInv(q) /\ OrderInv(q)
  BY DEF DataInv, ProcessAnswer, ListInv
<1>2. TypeOK'
  BY <1>1, AnswerTypes
<1>3. /\ Reads(p, n) /\ flight' = Unread(p, n) /\ lost' = lost \cup X
      /\ rcvState[p] = "WAITING" /\ rcvState' = [rcvState EXCEPT ![p] = "CONNECTED"]
      /\ UNCHANGED <<sent, txBuffer, paths, rxPath, delivered>>
  BY DEF ProcessAnswer, sendVars, recvVars
<1>4. n \in 1..Len(s) /\ Len(s) \in Nat
  BY <1>1, <1>3, ReadFacts
<1>5. /\ flight'[p] = SubSeq(s, n + 1, Len(s))
      /\ \A q \in Path : q # p => flight'[q] = flight[q]
  BY <1>1, <1>3, <1>4, UnreadTypes
<1>6. s \in Seq(Int)
  BY <1>1, PathTypes
<1>7. rcvState'[p] = "CONNECTED" /\ \A q \in Path : q # p => rcvState'[q] = rcvState[q]
  BY <1>1, <1>3 DEF TypeOK
<1>23. n >= ReplyLen /\ ReplyLen \in Nat
  BY SeqAssumption DEF ProcessAnswer
<1>8. p \in Elems(paths) /\ \A i \in 1..ReplyLen : IsReply(s[i])
  <2>1. s # <<>>
    BY <1>4
  <2> QED
    BY <1>1, <1>3, <2>1 DEF AnswerInv
<1>9. \A i \in DOMAIN s : IsReply(s[i]) => i <= ReplyLen
  BY <1>1 DEF AnswerInv
<1>10. Increasing(s) /\ \A x : InStream(p, x) <=> ~IsReply(x) /\ x \in Elems(s)
  BY <1>1 DEF OrderInv, InStream
<1> DEFINE t == SubSeq(s, n + 1, Len(s))
<1>11. X = {s[i] : i \in (ReplyLen + 1)..n}
  <2> DEFINE m == ReplyLen + 1
  <2>1. m \in 1..(Len(s) + 1) /\ n \in 0..Len(s)
    BY <1>4, <1>23
  <2> HIDE DEF m, s
  <2>2. Elems(SubSeq(s, m, n)) = {s[i] : i \in m..n}
    BY ONLY <1>6, <2>1, PartFacts
  <2> QED
    BY <2>2 DEF m
<1>12. Elems(t) = {s[i] : i \in (n + 1)..Len(s)} /\ Increasing(t)
  <2> DEFINE m == n + 1
             l == Len(s)
  <2>1. m \in 1..(Len(s) + 1) /\ l \in 0..Len(s)
    BY <1>4
  <2> HIDE DEF m, l, s
  <2>2. Elems(SubSeq(s, m, l)) = {s[i] : i \in m..l}
    BY ONLY <1>6, <2>1, PartFacts
  <2>3. Increasing(s) => Increasing(SubSeq(s, m, l))
    BY <1>6, <2>1, PartFacts
  <2> QED
    BY <1>10, <2>2, <2>3 DEF m, l
<1>13. DOMAIN s = 1..Len(s)
  BY <1>6
<1> HIDE DEF s, X, t
<1>14. \A x : InStream(p, x)' <=> InStream(p, x) /\ x \notin X
  <2>1. \A x : InStream(p, x)' <=> ~IsReply(x) /\ x \in Elems(t)
    BY <1>5 DEF InStream, t
  <2>2. ASSUME NEW i \in (n + 1)..Len(s)
        PROVE  ~IsReply(s[i]) /\ s[i] \in Elems(s) /\ s[i] \notin X
    <3>1. i \in 1..Len(s) /\ ~(i <= ReplyLen) /\ s[i] \in Int
      BY <1>4, <1>6, <1>23
    <3>2. ~IsReply(s[i]) /\ s[i] \in Elems(s)
      BY <1>9, <1>13, <3>1 DEF Elems
    <3>3. \A j \in (ReplyLen + 1)..n : j \in 1..Len(s) /\ j < i
      BY <1>4, <1>23
    <3>4. \A j \in (ReplyLen + 1)..n : s[j] < s[i]
      BY <1>10, <1>13, <3>1, <3>3 DEF Increasing
    <3> QED
      BY <1>11, <3>1, <3>2, <3>4
  <2>3. ASSUME NEW i \in 1..Len(s), ~IsReply(s[i]), s[i] \notin X PROVE i \in (n + 1)..Len(s)
    <3>1. i \notin 1..ReplyLen
      BY <1>8, <2>3
    <3>2. i \notin (ReplyLen + 1)..n
      BY <1>11, <2>3
    <3> QED
      BY <1>4, <1>23, <3>1, <3>2
  <2>4. ASSUME NEW x, InStream(p, x)' PROVE InStream(p, x) /\ x \notin X
    <3>1. PICK i \in (n + 1)..Len(s) : x = s[i]
      BY <1>12, <2>1, <2>4
    <3> QED
      BY <1>10, <2>2, <3>1
  <2>5. ASSUME NEW x, InStream(p, x), x \notin X PROVE InStream(p, x)'
    <3>1. PICK i \in 1..Len(s) : x = s[i]
      BY <1>10, <1>13, <2>5 DEF Elems
    <3>2. i \in (n + 1)..Len(s) /\ ~IsReply(x)
      BY <1>10, <2>3, <2>5, <3>1
    <3> QED
      BY <1>12, <2>1, <3>1, <3>2
  <2> QED
    BY <2>4, <2>5
<1>15. \A x \in X : InStream(p, x)
  <2>1. \A i \in (ReplyLen + 1)..n : i \in 1..Len(s) /\ ~(i <= ReplyLen)
    BY <1>4, <1>23
  <2> QED
    BY <1>9, <1>10, <1>11, <1>13, <2>1 DEF Elems
<1>16. /\ \A x : IsRead(p, x)' <=> IsRead(p, x)
       /\ \A x : IsBuffered(p, x)' <=> IsBuffered(p, x)
       /\ ChunksOf(p)' = ChunksOf(p)
  BY <1>3 DEF IsRead, IsBuffered, ChunksOf
<1>17. OrderInv(p)'
  BY <1>1, <1>3, <1>5, <1>12, <1>14, <1>16 DEF OrderInv, t
<1>18. \A x : IsOn(p, x)' <=> IsOn(p, x) /\ x \notin X
  <2>1. \A x \in X : ~IsRead(p, x) /\ ~IsBuffered(p, x)
    <3> SUFFICES ASSUME NEW x \in X PROVE ~IsRead(p, x) /\ ~IsBuffered(p, x)
      OBVIOUS
    <3>1. InStream(p, x) /\ x \in Int
      BY <1>1, <1>15, OnPathInt DEF IsOn
    <3>2. ~(x < x)
      BY <3>1
    <3> QED
      BY <1>1, <3>1, <3>2 DEF OrderInv
  <2> QED
    BY <1>14, <1>16, <2>1 DEF IsOn
<1>19. AnswerInv(p)'
  <2>1. \A x \in Elems(t) : ~IsReply(x)
    <3>1. \A i \in (n + 1)..Len(s) : i \in 1..Len(s) /\ ~(i <= ReplyLen)
      BY <1>4, <1>23
    <3>2. \A i \in (n + 1)..Len(s) : ~IsReply(s[i])
      BY <1>9, <1>13, <3>1
    <3> QED
      BY <1>12, <3>2
  <2>2. \A i \in DOMAIN t : ~IsReply(t[i])
    BY <2>1 DEF Elems
  <2> QED
    BY <1>3, <1>5, <1>7, <1>8, <2>2 DEF AnswerInv, t
<1>20. ASSUME NEW q \in Path, q # p
       PROVE  AnswerInv(q)' /\ OrderInv(q)' /\ \A x : IsOn(q, x)' <=> IsOn(q, x)
  BY <1>1, <1>3, <1>5, <1>7, <1>20, PathKept
<1>21. Given' = Given /\ TxInv'
  BY <1>1, <1>3 DEF Given, TxInv
<1>22. PlaceInv'
  <2>1. \A x \in X : IsOn(p, x)
    BY <1>15 DEF IsOn
  <2> QED
    BY <1>1, <1>3, <1>18, <1>20, <1>21, <2>1, PlacesDropped
<1> QED
  BY <1>1, <1>2, <1>17, <1>19, <1>20, <1>21, <1>22 DEF DataInv

\* A connection that breaks drops what is in its stream.
LEMMA BreakStep ==
    ASSUME DataInv, NEW p \in Path, Break(p)
    PROVE  DataInv'
<1> DEFINE X == {b \in Elems(flight[p]) : ~IsReply(b)}
<1>1. /\ TypeOK /\ TxInv /\ PlaceInv /\ AnswerInv(p) /\ OrderInv(p) /\ ListInv'
      /\ \A q \in Path : AnswerInv(q) /\ OrderInv(q)
  BY DEF DataInv, Break, ListInv
<1>2. TypeOK'
  BY <1>1, BreakTypes
<1>3. /\ p \in Elems(paths) /\ flight' = [flight EXCEPT ![p] = <<>>] /\ lost' = lost \cup X
      /\ UNCHANGED <<sent, txBuffer, paths, rxPath, delivered>>
  BY DEF Break, sendVars, recvVars
<1>4. flight'[p] = <<>> /\ \A q \in Path : q # p => flight'[q] = flight[q]
  BY <1>1, <1>3 DEF TypeOK
<1>5. rcvState'[p] # "WAITING" /\ \A q \in Path : q # p => rcvState'[q] = rcvState[q]
  <2>1. CASE SenderIsClient
    <3>1. rcvState' = rcvState
      BY <2>1 DEF Break
    <3>2. rcvState[p] # "WAITING"
      BY <1>1, <2>1 DEF AnswerInv
    <3> QED
      BY <3>1, <3>2
  <2>2. CASE ~SenderIsClient
    <3>1. rcvState' = [rcvState EXCEPT ![p] = "ERROR"]
      BY <2>2 DEF Break
    <3> QED
      BY <1>1, <3>1 DEF TypeOK
  <2> QED
    BY <2>1, <2>2
<1>6. \A x : ~InStream(p, x)'
  BY <1>4 DEF InStream, Elems
<1>7. \A x : x \in X <=> InStream(p, x)
  BY DEF InStream
<1> HIDE DEF X
<1>8. /\ \A x : IsRead(p, x)' <=> IsRead(p, x)
      /\ \A x : IsBuffered(p, x)' <=> IsBuffered(p, x)
      /\ ChunksOf(p)' = ChunksOf(p)
  BY <1>3 DEF IsRead, IsBuffered, ChunksOf
<1>9. OrderInv(p)'
  <2>1. Increasing(<<>>)
    BY DEF Increasing
  <2> QED
    BY <1>1, <1>3, <1>4, <1>6, <1>8, <2>1 DEF OrderInv
<1>10. AnswerInv(p)'
  BY <1>3, <1>4, <1>5 DEF AnswerInv
<1>11. ASSUME NEW q \in Path, q # p
       PROVE  AnswerInv(q)' /\ OrderInv(q)' /\ \A x : IsOn(q, x)' <=> IsOn(q, x)
  BY <1>1, <1>3, <1>4, <1>5, <1>11, PathKept
<1>12. \A x : IsOn(p, x)' <=> IsOn(p, x) /\ x \notin X
  <2>1. \A x \in X : ~IsRead(p, x) /\ ~IsBuffered(p, x)
    <3> SUFFICES ASSUME NEW x \in X PROVE ~IsRead(p, x) /\ ~IsBuffered(p, x)
      OBVIOUS
    <3>1. InStream(p, x) /\ x \in Int
      BY <1>1, <1>7, OnPathInt DEF IsOn
    <3>2. ~(x < x)
      BY <3>1
    <3> QED
      BY <1>1, <3>1, <3>2 DEF OrderInv
  <2> QED
    BY <1>6, <1>7, <1>8, <2>1 DEF IsOn
<1>13. Given' = Given /\ TxInv'
  BY <1>1, <1>3 DEF Given, TxInv
<1>14. PlaceInv'
  <2>1. \A x \in X : IsOn(p, x)
    BY <1>7 DEF IsOn
  <2> QED
    BY <1>1, <1>3, <1>11, <1>12, <1>13, <2>1, PlacesDropped
<1> QED
  BY <1>1, <1>2, <1>9, <1>10, <1>11, <1>13, <1>14 DEF DataInv

\* An element at the end.
LEMMA AppendConcat ==
    ASSUME NEW S, NEW s \in Seq(S), NEW e \in S
    PROVE  Append(s, e) = s \o <<e>>
  OBVIOUS

\* One chunk.
LEMMA SingleChunk ==
    ASSUME NEW c \in Seq(Int)
    PROVE  /\ <<c>> \in Seq(Seq(Int))
           /\ \A x : Within(<<c>>, x) <=> x \in Elems(c)
           /\ Increasing(c) => Ordered(<<c>>)
<1>1. DOMAIN <<c>> = {1} /\ <<c>>[1] = c /\ <<c>> \in Seq(Seq(Int))
  OBVIOUS
<1> DEFINE d == <<c>>
<1> HIDE DEF d
<1>2. DOMAIN d = {1} /\ d[1] = c
  BY <1>1 DEF d
<1>3. \A x : Within(d, x) <=> x \in Elems(c)
  BY <1>2 DEF Within
<1>4. Increasing(c) => Ordered(d)
  BY <1>2 DEF Ordered
<1> QED
  BY <1>1, <1>3, <1>4 DEF d

\* A read moves the head of the stream behind what the path's buffer holds.
LEMMA DataStep ==
    ASSUME DataInv, NEW p \in Path, NEW n, ProcessConnected(p, n)
    PROVE  DataInv'
<1> DEFINE s == flight[p]
           b == rxPath[p]
           c == SubSeq(s, 1, n)
           t == SubSeq(s, n + 1, Len(s))
<1>1. /\ TypeOK /\ TxInv /\ PlaceInv /\ AnswerInv(p) /\ OrderInv(p) /\ ListInv'
      /\ \A q \in Path : AnswerInv(q) /\ OrderInv(q)
  BY DEF DataInv, ProcessConnected, pathVars, ListInv
<1>2. TypeOK'
  BY <1>1, DataTypes
<1>3. /\ Reads(p, n) /\ flight' = Unread(p, n) /\ rcvState[p] = "CONNECTED"
      /\ rxPath' = [rxPath EXCEPT ![p] = Append(b, c)]
      /\ UNCHANGED <<sent, txBuffer, paths, rcvState, delivered, lost>>
  BY DEF ProcessConnected, sendVars, pathVars
<1>4. n \in 1..Len(s) /\ Len(s) \in Nat
  BY <1>1, <1>3, ReadFacts
<1>5. flight'[p] = t /\ \A q \in Path : q # p => flight'[q] = flight[q]
  BY <1>1, <1>3, <1>4, UnreadTypes
<1>6. s \in Seq(Int) /\ b \in Seq(Seq(Int))
  BY <1>1, PathTypes
<1>7. rxPath'[p] = Append(b, c) /\ \A q \in Path : q # p => rxPath'[q] = rxPath[q]
  BY <1>1, <1>3 DEF TypeOK
<1>8. \A i \in DOMAIN s : ~IsReply(s[i])
  BY <1>1, <1>3 DEF AnswerInv
<1>9. /\ Increasing(s) /\ Ordered(b)
      /\ \A x : InStream(p, x) <=> ~IsReply(x) /\ x \in Elems(s)
      /\ \A x : IsBuffered(p, x) <=> Within(b, x)
  BY <1>1 DEF OrderInv, InStream, IsBuffered
<1>10. c \in Seq(Int) /\ Elems(c) = {s[i] : i \in 1..n} /\ Increasing(c)
  <2>1. 1 \in 1..(Len(s) + 1) /\ n \in 0..Len(s)
    BY <1>4
  <2> HIDE DEF s
  <2> QED
    BY <1>6, <1>9, <2>1, PartFacts
<1>11. Elems(t) = {s[i] : i \in (n + 1)..Len(s)} /\ Increasing(t)
  <2> DEFINE m == n + 1
             l == Len(s)
  <2>1. m \in 1..(Len(s) + 1) /\ l \in 0..Len(s)
    BY <1>4
  <2> HIDE DEF m, l
  <2>2. Elems(SubSeq(s, m, l)) = {s[i] : i \in m..l} /\ Increasing(SubSeq(s, m, l))
    <3>1. s \in Seq(Int) /\ Increasing(s)
      BY <1>6, <1>9
    <3> HIDE DEF s
    <3> QED
      BY <2>1, <3>1, PartFacts
  <2> QED
    BY <2>2 DEF m, l
<1>12. DOMAIN s = 1..Len(s)
  BY <1>6
<1> HIDE DEF s, b, c, t
<1>13. \A x : InStream(p, x) <=> x \in Elems(c) \/ x \in Elems(t)
  <2>1. \A x : InStream(p, x) <=> x \in Elems(s)
    BY <1>8, <1>9 DEF Elems
  <2>2. \A i : i \in 1..Len(s) <=> i \in 1..n \/ i \in (n + 1)..Len(s)
    BY <1>4
  <2> QED
    BY <1>10, <1>11, <1>12, <2>1, <2>2 DEF Elems
<1>14. \A x : InStream(p, x)' <=> x \in Elems(t)
  <2>1. \A i \in (n + 1)..Len(s) : i \in 1..Len(s)
    BY <1>4
  <2>2. \A x \in Elems(t) : ~IsReply(x)
    BY <1>8, <1>11, <1>12, <2>1
  <2> QED
    BY <1>5, <2>2 DEF InStream
<1>15. \A x \in Elems(c), y \in Elems(t) : x < y
  <2>1. \A i \in 1..n, j \in (n + 1)..Len(s) : i \in 1..Len(s) /\ j \in 1..Len(s) /\ i < j
    BY <1>4
  <2>2. \A i \in 1..n, j \in (n + 1)..Len(s) : s[i] < s[j]
    BY <1>9, <1>12, <2>1 DEF Increasing
  <2> QED
    BY <1>10, <1>11, <2>2
<1>16. /\ <<c>> \in Seq(Seq(Int)) /\ Ordered(<<c>>)
       /\ \A x : Within(<<c>>, x) <=> x \in Elems(c)
  BY <1>10, SingleChunk
<1>17. rxPath'[p] = b \o <<c>>
  BY <1>6, <1>7, <1>10, AppendConcat
<1> DEFINE d == <<c>>
<1> HIDE DEF d
<1>18. \A x : IsBuffered(p, x)' <=> IsBuffered(p, x) \/ x \in Elems(c)
  <2>1. \A x : Within(b \o d, x) <=> Within(b, x) \/ Within(d, x)
    BY <1>6, <1>16, WithinConcat DEF d
  <2>2. \A x : IsBuffered(p, x)' <=> Within(b \o d, x)
    BY <1>17 DEF IsBuffered, d
  <2> QED
    BY <1>9, <1>16, <2>1, <2>2 DEF d
<1>19. Ordered(rxPath'[p])
  <2>1. \A x, y : Within(b, x) /\ y \in Elems(c) => x < y
    BY <1>1, <1>9, <1>13 DEF OrderInv
  <2> QED
    BY <1>6, <1>9, <1>16, <1>17, <2>1, OrderedConcat
<1>20. (\A x : IsRead(p, x)' <=> IsRead(p, x)) /\ ChunksOf(p)' = ChunksOf(p)
  BY <1>3 DEF IsRead, ChunksOf
<1>21. OrderInv(p)'
  <2>1. Ordered(ChunksOf(p)') /\ Increasing(flight'[p])
    BY <1>1, <1>5, <1>11, <1>20 DEF OrderInv
  <2>2. \A x, y : IsRead(p, x)' /\ IsBuffered(p, y)' => x < y
    BY <1>1, <1>13, <1>18, <1>20 DEF OrderInv
  <2>3. \A x, y : IsRead(p, x)' /\ InStream(p, y)' => x < y
    BY <1>1, <1>13, <1>14, <1>20 DEF OrderInv
  <2>4. \A x, y : IsBuffered(p, x)' /\ InStream(p, y)' => x < y
    BY <1>1, <1>13, <1>14, <1>15, <1>18 DEF OrderInv
  <2> QED
    BY <1>19, <2>1, <2>2, <2>3, <2>4 DEF OrderInv
<1>22. \A x : IsOn(p, x)' <=> IsOn(p, x)
  BY <1>13, <1>14, <1>18, <1>20 DEF IsOn
<1>23. AnswerInv(p)'
  <2>1. \A x \in Elems(t) : ~IsReply(x)
    BY <1>14 DEF InStream
  <2>2. \A i \in DOMAIN t : ~IsReply(t[i])
    BY <2>1 DEF Elems
  <2>3. p \in Elems(paths)
    <3>1. s # <<>>
      BY <1>4
    <3> QED
      BY <1>1, <3>1 DEF AnswerInv, s
  <2> QED
    BY <1>3, <1>5, <2>2, <2>3 DEF AnswerInv
<1>24. ASSUME NEW q \in Path, q # p
       PROVE  AnswerInv(q)' /\ OrderInv(q)' /\ \A x : IsOn(q, x)' <=> IsOn(q, x)
  BY <1>1, <1>3, <1>5, <1>7, <1>24, PathKept
<1>25. Given' = Given /\ TxInv'
  BY <1>1, <1>3 DEF Given, TxInv
<1>26. PlaceInv'
  BY <1>1, <1>3, <1>22, <1>24, <1>25, PlacesKept
<1> QED
  BY <1>1, <1>2, <1>21, <1>23, <1>24, <1>25, <1>26 DEF DataInv

\* A concatenation is a function on its places.
LEMMA ConcatFacts ==
    ASSUME NEW S, NEW s \in Seq(S), NEW t \in Seq(S)
    PROVE  s \o t = [i \in 1..(Len(s) + Len(t)) |-> (s \o t)[i]]
<1>1. DOMAIN (s \o t) = 1..(Len(s) + Len(t))
  OBVIOUS
<1>2. s \o t = [i \in DOMAIN (s \o t) |-> (s \o t)[i]]
  <2>1. s \o t \in Seq(S)
    OBVIOUS
  <2> DEFINE u == s \o t
  <2> HIDE DEF u
  <2>3. u \in Seq(S)
    BY <2>1 DEF u
  <2>2. u = [i \in DOMAIN u |-> u[i]]
    BY <2>3
  <2> QED
    BY <2>2 DEF u
<1> QED
  BY <1>1, <1>2

\* The chunks that the application gets, seen from path q.
LEMMA TakenChunks ==
    ASSUME TypeOK, NEW p \in Path, NEW k \in 0..Len(rxPath[p]), NEW q \in Path,
           delivered' = delivered \o Taken(p, k)
    PROVE  /\ q = p => ChunksOf(q)' = ChunksOf(q) \o SubSeq(rxPath[p], 1, k)
           /\ q # p => ChunksOf(q)' = ChunksOf(q) \o [i \in 1..k |-> <<>>]
<1> DEFINE R == [path : Path, chunk : Seq(Bytes(sent))]
           D == Len(delivered)
           e == [i \in 1..k |-> IF q = p THEN rxPath[p][i] ELSE <<>>]
           w == ChunksOf(q)
<1>1. delivered \in Seq(R) /\ rxPath[p] \in Seq(Seq(Bytes(sent))) /\ w \in Seq(Seq(Int))
      /\ rxPath[p] \in Seq(Seq(Int))
  BY PathTypes DEF TypeOK
<1>2. /\ k \in Nat /\ D \in Nat /\ DOMAIN delivered = 1..D
      /\ \A i \in 1..k : rxPath[p][i] \in Seq(Bytes(sent)) /\ rxPath[p][i] \in Seq(Int)
  <2> HIDE DEF R
  <2> QED
    BY <1>1
<1>3. Taken(p, k) \in Seq(R) /\ Len(Taken(p, k)) = k
  <2>1. \A i \in 1..k : [path |-> p, chunk |-> rxPath[p][i]] \in R
    BY <1>2
  <2> HIDE DEF R
  <2> QED
    BY <1>2, <2>1 DEF Taken
<1> HIDE DEF R
<1>4. /\ DOMAIN delivered' = 1..(D + k)
      /\ \A i \in 1..D : delivered'[i] = delivered[i]
      /\ \A i \in 1..k : delivered'[D + i] = Taken(p, k)[i]
  <2> DEFINE a == Taken(p, k)
  <2>1. delivered \in Seq(R) /\ a \in Seq(R) /\ Len(a) = k /\ delivered' = delivered \o a
    BY <1>1, <1>3
  <2> HIDE DEF a
  <2>2. DOMAIN (delivered \o a) = 1..(D + Len(a))
    BY <2>1
  <2>3. \A i \in 1..D : (delivered \o a)[i] = delivered[i]
    BY <2>1
  <2>4. \A i \in 1..Len(a) : (delivered \o a)[D + i] = a[i]
    BY <2>1
  <2> HIDE DEF D
  <2> QED
    BY <2>1, <2>2, <2>3, <2>4 DEF a
<1>5. \A i \in 1..k : Taken(p, k)[i].path = p /\ Taken(p, k)[i].chunk = rxPath[p][i]
  BY DEF Taken
<1>6. DOMAIN w = 1..D /\ w' = [i \in 1..(D + k) |-> w'[i]]
  BY <1>2, <1>4 DEF ChunksOf
<1>7. \A i \in 1..D : w'[i] = w[i]
  <2>1. \A i \in 1..D : i \in 1..(D + k)
    BY <1>2
  <2> QED
    BY <1>2, <1>4, <2>1 DEF ChunksOf
<1>8. \A i \in 1..k : w'[D + i] = IF q = p THEN rxPath[p][i] ELSE <<>>
  <2>1. \A i \in 1..k : D + i \in 1..(D + k)
    BY <1>2
  <2>2. \A i \in 1..k : w'[D + i] =
           IF delivered'[D + i].path \in {q} THEN delivered'[D + i].chunk ELSE <<>>
    BY <1>4, <2>1 DEF ChunksOf
  <2>3. \A i \in 1..k : /\ delivered'[D + i].path = p
                         /\ delivered'[D + i].chunk = rxPath[p][i]
    BY <1>4, <1>5, Zenon
  <2>4. p \in {q} <=> q = p
    OBVIOUS
  <2> QED
    BY <2>2, <2>3, <2>4, Zenon
<1> HIDE DEF w
<1>9. e \in Seq(Seq(Int)) /\ Len(e) = k /\ \A i \in 1..k : w'[D + i] = e[i]
  <2>1. \A i \in 1..k : e[i] \in Seq(Int) /\ w'[D + i] = e[i]
    BY <1>2, <1>8
  <2>2. e = [i \in 1..k |-> e[i]]
    OBVIOUS
  <2> HIDE DEF e, D
  <2>3. e \in Seq(Seq(Int)) /\ Len(e) = k
    BY <1>2, <2>1, <2>2, FunctionIsSeq
  <2> QED
    BY <2>1, <2>3
<1>10. w' = w \o e
  <2> HIDE DEF e, D
  <2>1. Len(w) = D
    BY <1>1, <1>2, <1>6
  <2>2. /\ w \o e = [i \in 1..(D + k) |-> (w \o e)[i]]
        /\ \A i \in 1..D : (w \o e)[i] = w[i]
        /\ \A i \in 1..k : (w \o e)[D + i] = e[i]
    <3>1. w \in Seq(Seq(Int)) /\ e \in Seq(Seq(Int)) /\ Len(e) = k
      BY <1>1, <1>9
    <3>2. w \o e = [i \in 1..(Len(w) + Len(e)) |-> (w \o e)[i]]
      BY <3>1, ConcatFacts, Zenon
    <3>3. \A i \in 1..Len(w) : (w \o e)[i] = w[i]
      BY <3>1
    <3>4. \A i \in 1..Len(e) : (w \o e)[Len(w) + i] = e[i]
      BY <3>1
    <3> QED
      BY <2>1, <3>1, <3>2, <3>3, <3>4
  <2>3. ASSUME NEW i \in 1..(D + k) PROVE w'[i] = (w \o e)[i]
    <3>1. CASE i \in 1..D
      BY <1>7, <2>2, <3>1
    <3>2. CASE i > D
      <4>1. i - D \in 1..k /\ D + (i - D) = i
        BY <1>2, <3>2
      <4> QED
        BY <1>9, <2>2, <4>1
    <3>3. i \in 1..D \/ i > D
      BY <1>2
    <3> QED
      BY <3>1, <3>2, <3>3
  <2> QED
    BY <1>6, <2>2, <2>3
<1>11. q = p => e = SubSeq(rxPath[p], 1, k)
  BY <1>1, <1>2
<1>12. q # p => e = [i \in 1..k |-> <<>>]
  OBVIOUS
<1> QED
  BY <1>10, <1>11, <1>12 DEF w

\* Empty chunks hold nothing.
LEMMA EmptyChunks ==
    ASSUME NEW k \in Nat
    PROVE  /\ [i \in 1..k |-> <<>>] \in Seq(Seq(Int)) /\ Ordered([i \in 1..k |-> <<>>])
           /\ \A x : ~Within([i \in 1..k |-> <<>>], x)
<1> DEFINE e == [i \in 1..k |-> <<>>]
<1>1. DOMAIN e = 1..k /\ \A i \in 1..k : e[i] = <<>>
  OBVIOUS
<1>2. <<>> \in Seq(Int) /\ Increasing(<<>>) /\ Elems(<<>>) = {}
  BY DEF Increasing, Elems
<1>3. e = [i \in 1..k |-> e[i]]
  OBVIOUS
<1> HIDE DEF e
<1>4. e \in Seq(Seq(Int))
  <2>1. \A i \in 1..k : e[i] \in Seq(Int)
    BY <1>1, <1>2, Zenon
  <2> QED
    BY <1>3, <2>1, FunctionIsSeq
<1>5. Ordered(e)
  BY <1>1, <1>2 DEF Ordered
<1>6. \A x : ~Within(e, x)
  BY <1>1, <1>2 DEF Within
<1> QED
  BY <1>4, <1>5, <1>6 DEF e

\* The application takes the oldest chunks of a path's buffer.
LEMMA TakeStep ==
    ASSUME DataInv, TypeOK', NEW p \in Path, NEW k \in 0..Len(rxPath[p]),
           rxPath' = [rxPath EXCEPT ![p] = SubSeq(@, k + 1, Len(rxPath[p]))],
           delivered' = delivered \o Taken(p, k),
           UNCHANGED <<sent, txBuffer, paths, rcvState, flight, lost>>
    PROVE  DataInv'
<1> DEFINE b == rxPath[p]
           a == SubSeq(b, 1, k)
           r == SubSeq(b, k + 1, Len(b))
<1>1. /\ TypeOK /\ TxInv /\ PlaceInv /\ AnswerInv(p) /\ OrderInv(p) /\ ListInv'
      /\ \A q \in Path : AnswerInv(q) /\ OrderInv(q)
  BY DEF DataInv, ListInv
<1>2. rxPath'[p] = r /\ \A q \in Path : q # p => rxPath'[q] = rxPath[q]
  BY <1>1 DEF TypeOK
<1>3. b \in Seq(Seq(Int)) /\ Ordered(b) /\ ChunksOf(p) \in Seq(Seq(Int))
  BY <1>1, PathTypes DEF OrderInv
<1>4. k \in 0..Len(b) /\ k \in Nat
  BY <1>3
<1>5. ChunksOf(p)' = ChunksOf(p) \o a
  BY <1>1, TakenChunks
<1> HIDE DEF b
<1>6. a \in Seq(Seq(Int)) /\ Ordered(a) /\ Ordered(r)
  BY <1>3, <1>4, OrderedCut
<1>7. \A x, y : Within(a, x) /\ Within(r, y) => x < y
  BY <1>3, <1>4, OrderedCut
<1>8. \A x : Within(b, x) <=> Within(a, x) \/ Within(r, x)
  BY <1>3, <1>4, OrderedCut
<1> HIDE DEF a, r
<1>9. \A x : IsRead(p, x)' <=> IsRead(p, x) \/ Within(a, x)
  <2>1. \A x : IsRead(p, x)' <=> Within(ChunksOf(p) \o a, x)
    BY <1>5 DEF IsRead
  <2> QED
    BY <1>3, <1>6, <2>1, WithinConcat DEF IsRead
<1>10. /\ \A x : IsBuffered(p, x)' <=> Within(r, x)
       /\ \A x : IsBuffered(p, x) <=> Within(b, x)
       /\ \A x : InStream(p, x)' <=> InStream(p, x)
  BY <1>2 DEF IsBuffered, InStream, b
<1>11. OrderInv(p)'
  <2>1. Ordered(ChunksOf(p) \o a)
    <3>1. \A x, y : Within(ChunksOf(p), x) /\ Within(a, y) => x < y
      BY <1>1, <1>8, <1>10 DEF OrderInv, IsRead
    <3>2. Ordered(ChunksOf(p))
      BY <1>1 DEF OrderInv
    <3> QED
      BY <1>3, <1>6, <3>1, <3>2, OrderedConcat
  <2>2. Ordered(ChunksOf(p)') /\ Ordered(rxPath'[p]) /\ Increasing(flight'[p])
    BY <1>1, <1>2, <1>5, <1>6, <2>1 DEF OrderInv
  <2>3. \A x, y : IsRead(p, x)' /\ IsBuffered(p, y)' => x < y
    BY <1>1, <1>7, <1>8, <1>9, <1>10 DEF OrderInv
  <2>4. \A x, y : IsRead(p, x)' /\ InStream(p, y)' => x < y
    BY <1>1, <1>8, <1>9, <1>10 DEF OrderInv
  <2>5. \A x, y : IsBuffered(p, x)' /\ InStream(p, y)' => x < y
    BY <1>1, <1>8, <1>10 DEF OrderInv
  <2> QED
    BY <2>2, <2>3, <2>4, <2>5 DEF OrderInv
<1>12. \A x : IsOn(p, x)' <=> IsOn(p, x)
  BY <1>8, <1>9, <1>10 DEF IsOn
<1>13. ASSUME NEW q \in Path, q # p
       PROVE  OrderInv(q)' /\ \A x : IsOn(q, x)' <=> IsOn(q, x)
  <2> DEFINE e == [i \in 1..k |-> <<>>]
  <2>1. ChunksOf(q)' = ChunksOf(q) \o e
    BY <1>1, <1>13, TakenChunks
  <2>2. e \in Seq(Seq(Int)) /\ Ordered(e) /\ \A x : ~Within(e, x)
    BY <1>4, EmptyChunks
  <2> HIDE DEF e
  <2>3. ChunksOf(q) \in Seq(Seq(Int)) /\ Ordered(ChunksOf(q))
    BY <1>1, PathTypes DEF OrderInv
  <2>4. Ordered(ChunksOf(q) \o e)
    BY <2>2, <2>3, OrderedConcat
  <2>5. \A x : IsRead(q, x)' <=> IsRead(q, x)
    <3>1. \A x : Within(ChunksOf(q) \o e, x) <=> Within(ChunksOf(q), x)
      BY <2>2, <2>3, WithinConcat
    <3> QED
      BY <2>1, <3>1 DEF IsRead
  <2>6. /\ \A x : IsBuffered(q, x)' <=> IsBuffered(q, x)
        /\ \A x : InStream(q, x)' <=> InStream(q, x)
    BY <1>2, <1>13 DEF IsBuffered, InStream
  <2>7. OrderInv(q)'
    BY <1>1, <1>2, <1>13, <2>1, <2>4, <2>5, <2>6 DEF OrderInv
  <2> QED
    BY <2>5, <2>6, <2>7 DEF IsOn
<1>14. \A q \in Path : AnswerInv(q)'
  BY <1>1 DEF AnswerInv
<1>15. Given' = Given /\ TxInv'
  BY <1>1 DEF Given, TxInv
<1>16. PlaceInv'
  BY <1>1, <1>12, <1>13, <1>15, PlacesKept
<1> QED
  BY <1>1, <1>11, <1>13, <1>14, <1>15, <1>16 DEF DataInv

\* A step that leaves the packets alone.
LEMMA QuietStep ==
    ASSUME DataInv, TypeOK',
           UNCHANGED <<sent, txBuffer, paths, rcvState, flight, rxPath, delivered, lost>>
    PROVE  DataInv'
<1>1. \A p \in Path : AnswerInv(p)' /\ OrderInv(p)'
  BY PathKept DEF DataInv
<1>2. \A p \in Path : \A x : IsOn(p, x)' <=> IsOn(p, x)
  BY PathKept
<1>3. Given' = Given /\ TxInv' /\ ListInv'
  BY DEF DataInv, Given, TxInv, ListInv
<1>4. PlaceInv'
  BY <1>2, <1>3, PlacesKept DEF DataInv
<1> QED
  BY <1>1, <1>3, <1>4 DEF DataInv

\* Every step keeps the invariant.
LEMMA NextDataInv == DataInv /\ [Next]_vars => DataInv'
<1> SUFFICES ASSUME DataInv, [Next]_vars PROVE DataInv'
  OBVIOUS
<1>1. TypeOK /\ TxInv /\ ListInv /\ paths # <<>> /\ \A p \in Path : AnswerInv(p)
  BY DEF DataInv, ListInv
<1>2. CASE Send
  BY <1>2, SendStep
<1>3. CASE SendData
  <2>1. TypeOK'
    BY <1>1, <1>3, BatchTypes
  <2>2. /\ UNCHANGED <<sent, paths, rcvState, rxPath, delivered>>
        /\ \/ UNCHANGED <<txBuffer, lastPathIndex, idle, flight, lost>>
           \/ \E d \in Usable, batch \in 1..Len(txBuffer), n \in 0..Len(txBuffer) :
                n <= batch /\ SendBatch(PathAt(Ahead(d)), batch, n)
    BY <1>1, <1>3, Batches DEF pathVars, recvVars
  <2>3. ASSUME NEW d \in Usable, NEW batch \in 1..Len(txBuffer),
               NEW n \in 0..Len(txBuffer), n <= batch,
               SendBatch(PathAt(Ahead(d)), batch, n)
        PROVE  DataInv'
    <3>1. PICK p \in Path : p = PathAt(Ahead(d)) /\ p \in Elems(paths)
      BY <1>1, ChosenType
    <3> QED
      BY <2>1, <2>2, <2>3, <3>1, BatchStep
  <2> QED
    BY <2>1, <2>2, <2>3, QuietStep
<1>4. CASE PathRecvedData
  <2>1. TypeOK'
    BY <1>1, <1>4, TakeTypes
  <2>2. UNCHANGED <<sent, txBuffer, paths, rcvState, flight, lost>>
    BY <1>1, <1>4, Takes DEF sendVars, pathVars
  <2>3. \/ UNCHANGED <<rxPath, delivered>>
        \/ \E p \in Path : \E k \in 0..Len(rxPath[p]) :
             /\ rxPath' = [rxPath EXCEPT ![p] = SubSeq(@, k + 1, Len(rxPath[p]))]
             /\ delivered' = delivered \o Taken(p, k)
    BY <1>1, <1>4, Takes
  <2> QED
    BY <2>1, <2>2, <2>3, QuietStep, TakeStep
<1>5. CASE \E p \in Path : AddOtherConnectPath(p)
  BY <1>5, JoinStep
<1>6. CASE \E p \in Path : Reception(p)
  <2>1. PICK p \in Path, n \in 1..(ReplyLen + MaxSends * MsgLen) :
           ProcessAnswer(p, n) \/ ProcessConnected(p, n) \/ HeaderCut(p, n)
    BY <1>6 DEF Reception
  <2>2. CASE HeaderCut(p, n)
    <3>1. halted' = "assert" /\ UNCHANGED <<sendVars, pathVars, flight, recvVars, lost>>
      BY <2>2 DEF HeaderCut
    <3>2. TypeOK'
      BY <1>1, <3>1 DEF TypeOK, sendVars, pathVars, recvVars
    <3> QED
      BY <3>1, <3>2, QuietStep DEF sendVars, pathVars, recvVars
  <2> QED
    BY <2>1, <2>2, AnswerStep, DataStep
<1>7. CASE \E p \in Path : Break(p)
  BY <1>7, BreakStep
<1>8. CASE UNCHANGED vars
  <2>1. TypeOK'
    BY <1>1, <1>8 DEF TypeOK, vars, sendVars, pathVars, recvVars
  <2> QED
    BY <1>8, <2>1, QuietStep DEF vars, sendVars, pathVars, recvVars
<1> QED
  BY <1>2, <1>3, <1>4, <1>5, <1>6, <1>7, <1>8 DEF Next

-----------------------------------------------------------------------------
(* The round robin.                                                        *)

\* A path of the connection has its turn within any lap.
LEMMA TurnComes ==
    ASSUME NEW s \in Seq(Path), NEW a \in Nat, NEW p \in Elems(s)
    PROVE  \E m \in a..(a + Len(s) - 1) : s[(m % Len(s)) + 1] = p
<1>1. PICK k \in 1..Len(s) : s[k] = p
  BY DEF Elems
<1>2. Len(s) \in Nat \ {0} /\ k - 1 \in 0..(Len(s) - 1) /\ (k - 1) + 1 = k
  BY <1>1
<1>3. PICK m \in a..(a + Len(s) - 1) : m % Len(s) = k - 1
  BY <1>2, LapMeetsAll
<1> QED
  BY <1>1, <1>2, <1>3

\* A lap of indexes of one row has every path.
LEMMA LapHasAll ==
    ASSUME TypeOK, ListInv, NEW q \in Elems(paths), NEW a \in Int32,
           a + Len(paths) - 1 \in Int32, a < 0 => a + Len(paths) - 1 < 0
    PROVE  \E j \in a..(a + Len(paths) - 1) : PathAt(j) = q
<1> DEFINE n == Len(paths)
           u == Unsigned(a)
<1>1. paths \in Seq(Path) /\ n \in Nat \ {0} /\ a \in Int /\ u \in Nat
  BY IndexTypes DEF TypeOK, ListInv
<1>2. PICK m \in u..(u + n - 1) : paths[(m % n) + 1] = q
  BY <1>1, TurnComes
<1> DEFINE j == m - (u - a)
<1>3. j \in a..(a + n - 1)
  BY <1>1
<1>4. Unsigned(j) = m
  <2>1. CASE a < 0
    <3>1. u = a + SizeMod /\ j < 0 /\ SizeMod \in Nat
      BY <1>1, <1>3, <2>1, IndexAssumption DEF Unsigned
    <3> QED
      BY <1>1, <3>1 DEF Unsigned
  <2>2. CASE ~(a < 0)
    <3>1. u = a /\ ~(j < 0)
      BY <1>1, <1>3, <2>2 DEF Unsigned
    <3> QED
      BY <1>1, <3>1 DEF Unsigned
  <2> QED
    BY <2>1, <2>2
<1>5. PathAt(j) = q
  BY <1>2, <1>4 DEF PathAt
<1> QED
  BY <1>3, <1>5

\* An index is in its row.
LEMMA RowFacts ==
    ASSUME NEW i \in Int32
    PROVE  /\ RowStart(i) \in Int /\ i \in Int /\ IndexMax \in Nat
           /\ RowStart(i) <= i /\ i <= RowStart(i) + IndexMax
<1>1. IndexMax \in Nat
  BY IndexAssumption
<1> QED
  BY <1>1 DEF Int32, RowStart

\* A count that starts again is within the bounds.
LEMMA FreshTurn ==
    ASSUME NEW i \in Int32, NEW n \in Nat \ {0}
    PROVE  0 <= i - RowStart(i) + n - 1 /\ \A j \in RowStart(i)..(i - 1) : 0 <= i - 1 - j
<1>1. RowStart(i) \in Int /\ i \in Int /\ RowStart(i) <= i
  BY RowFacts
<1> HIDE DEF RowStart
<1> QED
  BY <1>1

\* A state in which no path has waited.
LEMMA NoneWaited ==
    ASSUME TypeOK, ListInv, \A q \in Path : idle[q] = 0
    PROVE  TurnInv
<1>1. lastPathIndex \in Int32 /\ Len(paths) \in Nat \ {0} /\ Elems(paths) \subseteq Path
  BY DEF TypeOK, ListInv, Elems
<1>2. \A q \in Elems(paths) : idle[q] = 0
  BY <1>1
<1> QED
  BY <1>1, <1>2, FreshTurn DEF TurnInv

\* Where the search stops before path q, q is at none of the indexes passed.
LEMMA NotPassed ==
    ASSUME TypeOK, NEW d \in Usable, ChoosePathRoundRobin(d), NEW q,
           sndState[q] = "CONNECTED", q # PathAt(Ahead(d)), NEW e \in 0..d
    PROVE  PathAt(Ahead(e)) # q
<1>1. d \in 0..(2 * Len(paths) - 1) /\ Len(paths) \in Nat /\ \A x \in Usable : d <= x
  <2>1. \A x \in Usable : d <= x
    BY DEF ChoosePathRoundRobin
  <2>2. d \in 0..(2 * Len(paths) - 1)
    BY DEF Usable
  <2>3. Len(paths) \in Nat
    BY DEF TypeOK
  <2> QED
    BY <2>1, <2>2, <2>3
<1> SUFFICES ASSUME PathAt(Ahead(e)) = q PROVE FALSE
  OBVIOUS
<1>2. e \in 0..(2 * Len(paths) - 1)
  BY <1>1
<1>3. e \in Usable
  BY <1>2 DEF Usable
<1>4. d = e
  BY <1>1, <1>2, <1>3
<1> QED
  BY <1>4

\* A search that stays in the row of m_lastPathIndex.
LEMMA TurnInRow ==
    ASSUME TypeOK, ListInv, TurnInv, NEW d \in Usable, ChoosePathRoundRobin(d),
           NEW q \in Elems(paths), sndState[q] = "CONNECTED", q # PathAt(Ahead(d)),
           lastPathIndex + d + 1 <= RowStart(lastPathIndex) + IndexMax
    PROVE  LET v == Ahead(d + 1)
           IN  /\ idle[q] + 1 <= v - RowStart(v) + Len(paths) - 1
               /\ \A j \in RowStart(v)..(v - 1) : PathAt(j) = q => idle[q] + 1 <= v - 1 - j
<1> DEFINE i == lastPathIndex
           v == i + d + 1
           s == RowStart(i)
<1>1. /\ s \in Int /\ i \in Int /\ IndexMax \in Nat /\ s <= i /\ i <= s + IndexMax
      /\ Len(paths) \in Nat /\ d \in Nat /\ idle[q] \in Nat
  <2>1. i \in Int32 /\ q \in Path /\ Len(paths) \in Nat /\ idle[q] \in Nat
    BY DEF TypeOK, Elems
  <2>2. d \in Nat
    BY <2>1 DEF Usable
  <2> QED
    BY <2>1, <2>2, RowFacts
<1>2. v <= IndexMax /\ RowStart(v) = s
  BY <1>1 DEF RowStart
<1>3. \A e \in 0..(d + 1) : Ahead(e) = i + e
  <2>1. \A e \in 0..(d + 1) : i + e <= IndexMax
    BY <1>1, <1>2
  <2> QED
    BY <1>1, <2>1 DEF Ahead
<1>4. Ahead(d + 1) = v
  BY <1>1, <1>3
<1>5. /\ idle[q] <= i - s + Len(paths) - 1
      /\ \A j \in s..(i - 1) : PathAt(j) = q => idle[q] <= i - 1 - j
  BY DEF TurnInv
<1> HIDE DEF s
<1>6. ASSUME NEW j \in s..(v - 1), PathAt(j) = q PROVE idle[q] + 1 <= v - 1 - j
  <2>1. CASE j >= i
    <3>1. j - i \in 0..d /\ i + (j - i) = j
      BY <1>1, <2>1
    <3>2. PathAt(Ahead(j - i)) # q
      BY <3>1, NotPassed
    <3>3. Ahead(j - i) = j
      BY <1>1, <1>3, <3>1
    <3> QED
      BY <1>6, <3>2, <3>3
  <2>2. CASE j < i
    <3>1. j \in s..(i - 1)
      BY <1>1, <2>2
    <3>2. idle[q] <= i - 1 - j
      BY <1>5, <1>6, <3>1
    <3> QED
      BY <1>1, <3>2
  <2> QED
    BY <1>1, <2>1, <2>2
<1>7. idle[q] + 1 <= v - s + Len(paths) - 1
  BY <1>1, <1>5
<1> QED
  BY <1>2, <1>4, <1>6, <1>7

\* A search that leaves the row: path q was passed in the row's last lap, and
\* would be met in the first lap of the next.
LEMMA TurnInNextRow ==
    ASSUME TypeOK, ListInv, TurnInv, NEW d \in Usable, ChoosePathRoundRobin(d),
           NEW q \in Elems(paths), sndState[q] = "CONNECTED", q # PathAt(Ahead(d)),
           lastPathIndex + d + 1 > RowStart(lastPathIndex) + IndexMax
    PROVE  LET v == Ahead(d + 1)
           IN  /\ idle[q] + 1 <= v - RowStart(v) + Len(paths) - 1
               /\ \A j \in RowStart(v)..(v - 1) : PathAt(j) = q => idle[q] + 1 <= v - 1 - j
<1> DEFINE i == lastPathIndex
           n == Len(paths)
           M == IndexMax + 1
           s == RowStart(i)
           s2 == IF i < 0 THEN 0 ELSE -M
           k == i + d + 1 - (s + M)
<1>1. /\ i \in Int /\ IndexMax \in Nat /\ i \in Int32
      /\ n \in Nat \ {0} /\ d \in Nat /\ idle[q] \in Nat /\ n <= M /\ d <= 2 * n - 1
  <2>1. /\ i \in Int32 /\ q \in Path /\ Len(paths) \in Nat \ {0} /\ idle[q] \in Nat
        /\ Len(paths) <= IndexMax + 1
    BY DEF TypeOK, Elems, ListInv
  <2>2. d \in Nat /\ d <= 2 * Len(paths) - 1
    BY <2>1 DEF Usable
  <2> QED
    BY <2>1, <2>2, RowFacts
<1>2. /\ s \in Int /\ s2 \in Int /\ s <= i /\ i < s + M /\ k \in Nat /\ (i < 0 <=> s < 0)
      /\ s < 0 => s = -M /\ s2 = 0
      /\ ~(s < 0) => s = 0 /\ s2 = -M
  BY <1>1, RowFacts DEF RowStart
<1>3. \A e \in 0..(d + 1) : i + e < s + M => Ahead(e) = i + e
  BY <1>1, <1>2 DEF Ahead
<1>4. ASSUME NEW x \in 0..(M - 1)
      PROVE  s + M + x - i \in Int /\ Ahead(s + M + x - i) = s2 + x
  <2> DEFINE e == s + M + x - i
  <2>1. M \in Nat /\ M = IndexMax + 1
    BY <1>1
  <2> HIDE DEF s, s2, M
  <2>2. e \in Int /\ i + e = s + M + x /\ x \in Nat /\ x < M
    BY <1>1, <1>2, <2>1
  <2> HIDE DEF e
  <2>3. Ahead(e) = IF i + e > IndexMax THEN i + e - 2 * M ELSE i + e
    BY <1>1, <2>1, <2>2 DEF Ahead
  <2>4. CASE s < 0
    BY <1>1, <1>2, <2>1, <2>2, <2>3, <2>4 DEF e
  <2>5. CASE ~(s < 0)
    BY <1>1, <1>2, <2>1, <2>2, <2>3, <2>5 DEF e
  <2> QED
    BY <2>4, <2>5
<1>5. \A e \in 0..d : PathAt(Ahead(e)) # q
  BY NotPassed
<1>11. /\ idle[q] <= i - s + n - 1
       /\ \A j \in s..(i - 1) : PathAt(j) = q => idle[q] <= i - 1 - j
  BY DEF TurnInv
<1>12. Int32 = (-M)..(M - 1)
  BY <1>1 DEF Int32
<1>13. \A x \in Int32 : RowStart(x) = IF x < 0 THEN -M ELSE 0
  BY DEF RowStart
<1> HIDE DEF s, s2, k, M, n, i
<1>19. M \in Nat \ {0}
  BY <1>1 DEF M
<1>6. PICK m \in 0..(n - 1) : PathAt(s2 + m) = q
  <2>1. s2 \in Int32 /\ s2 + n - 1 \in Int32 /\ (s2 < 0 => s2 + n - 1 < 0)
    BY <1>1, <1>2, <1>12, <1>19
  <2>2. PICK j \in s2..(s2 + n - 1) : PathAt(j) = q
    BY <2>1, LapHasAll DEF n
  <2>3. j - s2 \in 0..(n - 1) /\ s2 + (j - s2) = j
    BY <1>1, <1>2
  <2> QED
    BY <2>2, <2>3
<1>7. k <= m
  <2> SUFFICES ASSUME k > m PROVE FALSE
    BY <1>1, <1>2
  <2>1. m \in 0..(M - 1) /\ s + M + m - i \in 0..d
    BY <1>1, <1>2, <1>19 DEF k
  <2> QED
    BY <1>4, <1>5, <1>6, <2>1
<1>8. Ahead(d + 1) = s2 + k
  <2>1. k \in 0..(M - 1) /\ s + M + k - i = d + 1
    BY <1>1, <1>2, <1>7, <1>19 DEF k
  <2> QED
    BY <1>4, <2>1
<1>9. RowStart(s2 + k) = s2
  <2>1. k \in 0..(M - 1) /\ s2 + k \in Int32
    BY <1>1, <1>2, <1>7, <1>12, <1>19
  <2> QED
    BY <1>2, <1>13, <1>19, <2>1
<1>10. idle[q] + 1 <= n - 1
  <2> DEFINE a == s + M - n
  <2>1. a \in Int32 /\ a + n - 1 \in Int32 /\ (a < 0 => a + n - 1 < 0) /\ s <= a
    <3>0. n \in Nat /\ n > 0 /\ n <= M
      BY <1>1
    <3>1. CASE s < 0
      <4>1. s = -M /\ a = -n /\ a + n - 1 = -1
        BY <1>2, <1>19, <3>0, <3>1
      <4> QED
        BY <1>12, <1>19, <3>0, <4>1
    <3>2. CASE ~(s < 0)
      <4>1. s = 0 /\ a = M - n /\ a + n - 1 = M - 1
        BY <1>2, <1>19, <3>0, <3>2
      <4> QED
        BY <1>12, <1>19, <3>0, <4>1
    <3> QED
      BY <3>1, <3>2
  <2>2. PICK j \in a..(a + n - 1) : PathAt(j) = q
    BY <2>1, LapHasAll DEF n
  <2>3. j < i
    <3> SUFFICES ASSUME j >= i PROVE FALSE
      BY <1>1, <1>2, <1>19, <2>1
    <3>1. j - i \in 0..d /\ j - i \in 0..(d + 1) /\ i + (j - i) = j /\ j < s + M
      BY <1>1, <1>2, <1>19, <2>1 DEF k
    <3>2. Ahead(j - i) = j
      BY <1>3, <3>1
    <3> QED
      BY <1>5, <2>2, <3>1, <3>2
  <2>4. j \in s..(i - 1)
    BY <1>1, <1>2, <1>19, <2>1, <2>3
  <2>5. idle[q] <= i - 1 - j
    BY <1>11, <2>2, <2>4
  <2> QED
    BY <1>1, <1>2, <1>19, <2>1, <2>5
<1>14. ASSUME NEW j \in s2..(s2 + k - 1) PROVE PathAt(j) # q
  <2>1. /\ j - s2 \in 0..(M - 1) /\ s2 + (j - s2) = j
        /\ s + M + (j - s2) - i \in 0..d
    BY <1>1, <1>2, <1>7, <1>19 DEF k
  <2>2. Ahead(s + M + (j - s2) - i) = j
    BY <1>4, <2>1
  <2> QED
    BY <1>5, <2>1, <2>2
<1>15. idle[q] + 1 <= (s2 + k) - s2 + n - 1
  BY <1>1, <1>2, <1>10
<1> DEFINE v == Ahead(d + 1)
<1>17. v = s2 + k /\ RowStart(v) = s2
  BY <1>8, <1>9
<1> HIDE DEF v
<1>18. /\ idle[q] + 1 <= v - RowStart(v) + n - 1
       /\ \A j \in RowStart(v)..(v - 1) : PathAt(j) = q => idle[q] + 1 <= v - 1 - j
  <2>1. idle[q] + 1 <= v - RowStart(v) + n - 1
    BY <1>15, <1>17
  <2>2. RowStart(v)..(v - 1) = s2..(s2 + k - 1)
    <3>1. v - 1 = s2 + k - 1 /\ RowStart(v) = s2
      BY <1>2, <1>17
    <3> QED
      BY <3>1, Zenon
  <2>3. ASSUME NEW j \in RowStart(v)..(v - 1) PROVE PathAt(j) # q
    BY <1>14, <2>2
  <2> QED
    BY <2>1, <2>3
<1> QED
  BY <1>18 DEF n, v

\* A batch keeps the turns.
LEMMA BatchTurnInv ==
    ASSUME TypeOK, ListInv, TurnInv, NEW d \in Usable, ChoosePathRoundRobin(d),
           idle' = [q \in Path |-> IF q = PathAt(Ahead(d)) THEN 0 ELSE idle[q] + 1],
           UNCHANGED <<paths, sndState>>
    PROVE  TurnInv'
<1> DEFINE v == Ahead(d + 1)
           n == Len(paths)
<1>1. lastPathIndex' = v /\ v \in Int32 /\ n \in Nat \ {0}
  <2>1. lastPathIndex' = v
    BY DEF ChoosePathRoundRobin
  <2>2. v \in Int32
    BY ChosenType
  <2>3. n \in Nat \ {0}
    BY DEF TypeOK, ListInv
  <2> QED
    BY <2>1, <2>2, <2>3
<1>2. \A m : PathAt(m)' = PathAt(m)
  BY DEF PathAt
<1> HIDE DEF v
<1> SUFFICES ASSUME NEW q \in Elems(paths), sndState[q] = "CONNECTED"
             PROVE  /\ idle'[q] <= v - RowStart(v) + n - 1
                    /\ \A j \in RowStart(v)..(v - 1) :
                          PathAt(j) = q => idle'[q] <= v - 1 - j
  BY <1>1, <1>2 DEF TurnInv
<1>3. q \in Path
  BY DEF Elems, TypeOK
<1>4. CASE q = PathAt(Ahead(d))
  <2>1. idle'[q] = 0
    BY <1>3, <1>4
  <2> QED
    BY <1>1, <2>1, FreshTurn
<1>5. CASE q # PathAt(Ahead(d))
  <2>1. idle'[q] = idle[q] + 1
    BY <1>3, <1>5
  <2>2. CASE lastPathIndex + d + 1 <= RowStart(lastPathIndex) + IndexMax
    BY <1>5, <2>1, <2>2, TurnInRow DEF v
  <2>3. CASE lastPathIndex + d + 1 > RowStart(lastPathIndex) + IndexMax
    BY <1>5, <2>1, <2>3, TurnInNextRow DEF v
  <2>4. /\ lastPathIndex + d + 1 \in Int
        /\ RowStart(lastPathIndex) + IndexMax \in Int
    <3>1. lastPathIndex \in Int32 /\ d \in Int
      BY DEF TypeOK, Usable
    <3> QED
      BY <3>1, RowFacts
  <2> QED
    BY <2>2, <2>3, <2>4
<1> QED
  BY <1>4, <1>5

\* Every step keeps the turns.
LEMMA NextTurnInv == DataInv /\ DataInv' /\ TurnInv /\ [Next]_vars => TurnInv'
<1> SUFFICES ASSUME DataInv, DataInv', TurnInv, [Next]_vars PROVE TurnInv'
  OBVIOUS
<1>1. TypeOK /\ TypeOK' /\ ListInv /\ ListInv' /\ paths # <<>>
  BY DEF DataInv, ListInv
<1>2. ASSUME UNCHANGED <<paths, lastPathIndex, idle>>,
             \A p \in Elems(paths) : sndState'[p] = "CONNECTED" => sndState[p] = "CONNECTED"
      PROVE  TurnInv'
  BY <1>2 DEF TurnInv, PathAt
<1>3. CASE SendData
  <2>1. UNCHANGED <<paths, sndState>>
    BY <1>1, <1>3, Batches DEF pathVars
  <2>2. \/ UNCHANGED <<lastPathIndex, idle>>
        \/ \E d \in Usable : /\ ChoosePathRoundRobin(d)
                             /\ idle' = [q \in Path |->
                                   IF q = PathAt(Ahead(d)) THEN 0 ELSE idle[q] + 1]
    BY <1>1, <1>3, Batches
  <2> QED
    BY <1>1, <1>2, <2>1, <2>2, BatchTurnInv
<1>4. CASE \E p \in Path : AddOtherConnectPath(p)
  <2>1. \A q \in Path : idle'[q] = 0
    BY <1>4 DEF AddOtherConnectPath
  <2>2. (TypeOK /\ ListInv /\ (\A q \in Path : idle[q] = 0) => TurnInv)'
    BY NoneWaited, PTL
  <2> QED
    BY <1>1, <2>1, <2>2
<1>5. CASE Send \/ PathRecvedData \/ UNCHANGED vars
  BY <1>2, <1>5 DEF Send, PathRecvedData, vars, sendVars, pathVars
<1>6. CASE \E p \in Path : Reception(p)
  <2>1. PICK p \in Path, n \in 1..(ReplyLen + MaxSends * MsgLen) :
           ProcessAnswer(p, n) \/ ProcessConnected(p, n) \/ HeaderCut(p, n)
    BY <1>6 DEF Reception
  <2>2. UNCHANGED <<sendVars, paths, sndState>>
    BY <2>1 DEF ProcessAnswer, ProcessConnected, HeaderCut, pathVars
  <2> QED
    BY <1>2, <2>2 DEF sendVars
<1>7. CASE \E p \in Path : Break(p)
  <2>1. UNCHANGED <<paths, lastPathIndex, idle>>
    BY <1>7 DEF Break, sendVars
  <2>2. \A q \in Elems(paths) : sndState'[q] = "CONNECTED" => sndState[q] = "CONNECTED"
    <3>1. paths \in Seq(Path) /\ sndState \in [Path -> {"INIT", "CONNECTED", "ERROR"}]
      BY <1>1 DEF TypeOK
    <3>2. Elems(paths) \subseteq Path
      BY <3>1 DEF Elems
    <3>3. PICK p \in Path : Break(p)
      BY <1>7
    <3>4. sndState' = sndState \/ sndState' = [sndState EXCEPT ![p] = "ERROR"]
      BY <3>3 DEF Break
    <3> QED
      BY <3>1, <3>2, <3>4
  <2> QED
    BY <1>2, <2>1, <2>2
<1> QED
  BY <1>3, <1>4, <1>5, <1>6, <1>7 DEF Next

-----------------------------------------------------------------------------
(* The theorems.                                                           *)

\* The invariant holds in every state of every behaviour of MdtpData.
THEOREM DataInductive == Spec => [](DataInv /\ TurnInv)
<1>1. Init => DataInv /\ TurnInv
  <2>1. Init => \A q \in Path : idle[q] = 0
    BY DEF Init
  <2> QED
    BY <2>1, InitDataInv, NoneWaited DEF DataInv
<1>2. DataInv /\ TurnInv /\ [Next]_vars => DataInv' /\ TurnInv'
  BY NextDataInv, NextTurnInv
<1> QED
  BY <1>1, <1>2, PTL DEF Spec

\* The variables keep their types.  In particular a reader that waits for the
\* server's answer finds it first in the stream, and one that does not never
\* takes an answer for data (ProcessBuildSent, ProcessJoinSent,
\* ProcessConnected).
THEOREM TypeCorrectness == Spec => []TypeOK
<1>1. DataInv /\ TurnInv => TypeOK
  BY DEF DataInv
<1> QED
  BY <1>1, DataInductive, PTL

\* Each path by itself delivers in the order of the sends and nothing twice
\* (SendData, ProcessConnected, PathRecvedData).
THEOREM PathsInOrder == Spec => []PathsKeepOrder
<1>1. DataInv /\ TurnInv => PathsKeepOrder
  BY OnPathFacts DEF DataInv, PathsKeepOrder
<1> QED
  BY <1>1, DataInductive, PTL

\* A byte is in exactly one place: it waits, is on one path, or was dropped,
\* however TCP cuts the streams (SendData, ProcessBuildSent, ProcessConnected,
\* PathRecvedData).
THEOREM BytesHaveOnePlace == Spec => []BytesAccountedFor
<1>1. DataInv /\ TurnInv => BytesAccountedFor
  BY PlacesCount
<1> QED
  BY <1>1, DataInductive, PTL

\* The round robin gives every connected path a batch in less than two laps,
\* whatever int32_t the uninitialised m_lastPathIndex held, below zero and
\* across its overflow too (ChoosePathRoundRobin).
THEOREM RoundRobinIsFair == Spec => []NoPathStarves
<1>1. ASSUME DataInv, TurnInv, NEW p \in Elems(paths), sndState[p] = "CONNECTED"
      PROVE  idle[p] < 2 * Len(paths) - 1
  <2> DEFINE i == lastPathIndex
             s == RowStart(i)
             n == Len(paths)
  <2>9. TypeOK /\ ListInv
    BY <1>1 DEF DataInv
  <2>10. paths \in Seq(Path)
    BY <2>9 DEF TypeOK
  <2>1. TypeOK /\ ListInv /\ p \in Path
    BY <2>9, <2>10 DEF Elems
  <2>2. idle[p] \in Nat /\ n \in Nat \ {0} /\ i \in Int32
    BY <2>1 DEF TypeOK, ListInv
  <2>3. /\ s \in Int /\ i \in Int /\ s <= i /\ (i < 0 <=> s < 0)
        /\ s \in Int32 /\ IndexMax \in Nat /\ i <= IndexMax /\ s >= -(IndexMax + 1)
    BY <2>2, RowFacts DEF RowStart, Int32
  <2>4. /\ idle[p] <= i - s + n - 1
        /\ \A j \in s..(i - 1) : PathAt(j) = p => idle[p] <= i - 1 - j
    BY <1>1 DEF TurnInv
  <2>7. s < 0 => i <= -1
    BY <2>3
  <2>8. ~(s < 0) => s = 0
    BY <2>3 DEF RowStart
  <2> HIDE DEF s
  <2>5. CASE i - s < n
    BY <2>2, <2>3, <2>4, <2>5
  <2>6. CASE i - s >= n
    <3> DEFINE a == i - n
    <3>1. a \in Int32 /\ a + n - 1 \in Int32 /\ (a < 0 => a + n - 1 < 0) /\ s <= a
      BY <2>2, <2>3, <2>6, <2>7, <2>8 DEF Int32
    <3>2. PICK j \in a..(a + n - 1) : PathAt(j) = p
      BY <2>1, <3>1, LapHasAll
    <3>3. j \in s..(i - 1)
      BY <2>2, <2>3, <3>1
    <3>4. idle[p] <= i - 1 - j
      BY <2>4, <3>2, <3>3
    <3> QED
      BY <2>2, <2>3, <3>4
  <2> QED
    BY <2>2, <2>3, <2>5, <2>6
<1>2. DataInv /\ TurnInv => NoPathStarves
  BY <1>1 DEF NoPathStarves
<1> QED
  BY <1>2, DataInductive, PTL
=============================================================================
