--------------------------- MODULE DownloadProofs ---------------------------
(***************************************************************************)
(* The downloads of module Download, for any number of clients,            *)
(* connections and servers, any buffer sizes, file sizes and stops.        *)
(*                                                                         *)
(* What ties the parts of a connection together is Bound: how far the      *)
(* socket, the request, the question to the name service, its answer and   *)
(* the session have come, in step with each other.  From it follows that   *)
(* the callback of a resolution runs once for a connection, on the list    *)
(* that the client's own target inserted, and that m_cloud2endSockMap      *)
(* leads back to the socket of that client.  Flow says the same of the     *)
(* data: whatever is in the three queues of a connection, taken in order,  *)
(* is a part of that session's stream.                                     *)
(***************************************************************************)
EXTENDS Download, FiniteSetTheorems, SequenceTheorems, TLAPS

\* Only the owner of an id has inserted interfaces for it.
NamesOwned ==
    /\ asked \in [Conn -> [node : {TwinNode}, name : Server \cup {TwinId}]
                             \cup {NoReq}]
    /\ answers \in [Conn -> Seq([name : Server \cup {TwinId}, ifs : Lists])]
    /\ \A p \in inserted : \/ p = <<TwinId, TwinIfs>>
                           \/ \E s \in Server : p = <<s, ServerIfs[s]>>

\* The stages of connection c.
Bound(c) ==
    /\ sock[c] = "none" <=> owner[c] = NoClient
    /\ sock[c] \in {"none", "connecting", "astray"} => request[c] = "none"
    /\ asked[c] # NoReq => /\ request[c] = "asked"
                           /\ asked[c].name = Target[owner[c]]
    /\ request[c] # "asked" => answers[c] = <<>>
    /\ answers[c] = <<>> => session[c] = "none"
    /\ session[c] \in {"none", "connecting"} => sent[c] = 0
    /\ session[c] # "none" => /\ cloud2end[c] = c
                              /\ peer[c] = ServerIfs[Target[owner[c]]]
                              /\ sent[c] <= MaxPkts[Target[owner[c]]]

\* p is a part of the first s units of the stream of connection c, d units
\* being left out.
PartOfStream(p, c, s, d) ==
    /\ Len(p) + d = s
    /\ \A k \in DOMAIN p : p[k].of = c /\ p[k].n <= s
    /\ \A k, l \in DOMAIN p : k < l => p[k].n < p[l].n

Flow(c) == PartOfStream(Pipe(c), c, sent[c], dropped[c])

DInv ==
    /\ TypeOK /\ NamesOwned
    /\ \A c \in Conn : Bound(c) /\ Flow(c)

-----------------------------------------------------------------------------
(* Three queues in a row.                                                  *)

\* Their concatenation is a sequence of the sum of their lengths.
LEMMA PipeTyped ==
    ASSUME NEW g \in Seq(Unit), NEW h \in Seq(Unit), NEW q \in Seq(Unit)
    PROVE  /\ g \o h \o q \in Seq(Unit)
           /\ Len(g \o h \o q) = Len(g) + Len(h) + Len(q)
<1> DEFINE f == g \o h
<1>1. f \in Seq(Unit) /\ Len(f) = Len(g) + Len(h)
  BY ConcatProperties
<1> HIDE DEF f
<1>2. f \o q \in Seq(Unit) /\ Len(f \o q) = Len(f) + Len(q)
  BY <1>1, ConcatProperties
<1> QED
  BY <1>1, <1>2 DEF f

\* Concatenation is associative.
LEMMA Assoc ==
    ASSUME NEW s \in Seq(Unit), NEW t \in Seq(Unit), NEW u \in Seq(Unit)
    PROVE  (s \o t) \o u = s \o (t \o u)
  OBVIOUS

\* The client reads the head of its queue.
LEMMA PipeRead ==
    ASSUME NEW g \in Seq(Unit), NEW h \in Seq(Unit), NEW q \in Seq(Unit),
           h # <<>>
    PROVE  Append(g, Head(h)) \o Tail(h) \o q = g \o h \o q
<1> DEFINE x == Head(h)
           t == Tail(h)
           o == <<x>>
<1>1. x \in Unit /\ t \in Seq(Unit) /\ t = SubSeq(h, 2, Len(h)) /\ x = h[1]
      /\ 1 \in 1..Len(h) /\ Len(h) \in 1..Len(h)
  BY HeadTailProperties, TailIsSubSeq
<1>2. o \in Seq(Unit)
  BY <1>1
<1>3. h = o \o t
  <2>1. SubSeq(h, 1, Len(h)) = <<h[1]>> \o SubSeq(h, 1 + 1, Len(h))
    BY <1>1, SubSeqRecursiveFirst
  <2> QED
    BY <1>1, <2>1, SubSeqFull
<1>4. Append(g, x) = g \o o
  BY <1>1, AppendIsConcat
<1> HIDE DEF x, t, o
<1>5. (g \o o) \o t = g \o (o \o t)
  <2>1. o \in Seq(Unit) /\ t \in Seq(Unit)
    BY <1>1, <1>2
  <2> QED
    BY <2>1, Assoc
<1> QED
  BY <1>3, <1>4, <1>5, Zenon DEF x, t

\* The queues can be split anywhere.
LEMMA Regroup ==
    ASSUME NEW g \in Seq(Unit), NEW h \in Seq(Unit), NEW w \in Seq(Unit),
           NEW v \in Seq(Unit)
    PROVE  g \o (h \o w) \o v = g \o h \o (w \o v)
<1> DEFINE f == g \o h
<1>1. g \o (h \o w) = f \o w
  BY Assoc
<1>2. f \in Seq(Unit)
  BY ConcatProperties
<1> HIDE DEF f
<1>3. (f \o w) \o v = f \o (w \o v)
  BY <1>2, Assoc
<1> QED
  BY <1>1, <1>3, Zenon DEF f

\* The first n units of a queue, and the rest of it.
LEMMA PipeCut ==
    ASSUME NEW q \in Seq(Unit), NEW n \in 1..Len(q)
    PROVE  /\ SubSeq(q, 1, n) \in Seq(Unit) /\ Len(SubSeq(q, 1, n)) = n
           /\ SubSeq(q, n + 1, Len(q)) \in Seq(Unit)
           /\ Len(SubSeq(q, n + 1, Len(q))) = Len(q) - n
  OBVIOUS

\* A read of the relay leaves the row of queues as it is.
LEMMA PipeRelay ==
    ASSUME NEW g \in Seq(Unit), NEW h \in Seq(Unit), NEW q \in Seq(Unit),
           NEW n \in 1..Len(q)
    PROVE  g \o (h \o SubSeq(q, 1, n)) \o SubSeq(q, n + 1, Len(q))
              = g \o h \o q
<1> DEFINE w == SubSeq(q, 1, n)
           v == SubSeq(q, n + 1, Len(q))
<1>1. w \in Seq(Unit) /\ v \in Seq(Unit)
  BY PipeCut
<1>2. w \o v = q
  <2>1. SubSeq(q, 1, n) \o SubSeq(q, n + 1, Len(q)) = SubSeq(q, 1, Len(q))
    <3>1. /\ 1 \in 1..(Len(q) + 1) /\ n \in (1 - 1)..Len(q)
          /\ Len(q) \in n..Len(q)
      OBVIOUS
    <3> QED
      BY <3>1, ConcatAdjacentSubSeq
  <2> QED
    BY <2>1, SubSeqFull
<1> HIDE DEF w, v
<1>3. g \o (h \o w) \o v = g \o h \o q
  <2>1. w \in Seq(Unit) /\ v \in Seq(Unit)
    BY <1>1
  <2>2. \A a, b \in Seq(Unit) : g \o (h \o a) \o b = g \o h \o (a \o b)
    BY Regroup, Zenon
  <2> QED
    BY <1>2, <2>1, <2>2, Zenon
<1> QED
  BY <1>3 DEF w, v

\* The server sends a unit.
LEMMA PipeSend ==
    ASSUME NEW g \in Seq(Unit), NEW h \in Seq(Unit), NEW q \in Seq(Unit),
           NEW x \in Unit
    PROVE  g \o h \o Append(q, x) = Append(g \o h \o q, x)
<1> DEFINE f == g \o h
           o == <<x>>
<1>1. f \in Seq(Unit) /\ o \in Seq(Unit)
  BY ConcatProperties
<1>2. Append(q, x) = q \o o
  BY AppendIsConcat
<1>3. f \o q \in Seq(Unit)
  BY <1>1, ConcatProperties
<1>4. Append(f \o q, x) = (f \o q) \o o
  BY <1>3, AppendIsConcat
<1> HIDE DEF f, o
<1>5. (f \o q) \o o = f \o (q \o o)
  BY <1>1, Assoc, Zenon
<1> QED
  BY <1>2, <1>4, <1>5 DEF f

\* The next unit keeps the stream in order.
LEMMA StreamSend ==
    ASSUME NEW p \in Seq(Unit), NEW c \in Conn, NEW s \in Nat, NEW d \in Nat,
           PartOfStream(p, c, s, d)
    PROVE  PartOfStream(Append(p, [of |-> c, n |-> s + 1]), c, s + 1, d)
<1> DEFINE x == [of |-> c, n |-> s + 1]
           r == Append(p, x)
<1>1. x \in Unit /\ x.of = c /\ x.n = s + 1
  BY DEF Unit
<1> HIDE DEF x
<1>2. /\ Len(r) = Len(p) + 1 /\ Len(p) \in Nat
      /\ DOMAIN r = 1..(Len(p) + 1) /\ DOMAIN p = 1..Len(p)
      /\ \A k \in 1..Len(p) : r[k] = p[k]
      /\ r[Len(p) + 1] = x
  BY <1>1, AppendProperties
<1>3. ASSUME NEW k \in 1..Len(p)
      PROVE  p[k].of = c /\ p[k].n \in Nat /\ p[k].n <= s
  <2>1. p[k] \in Unit
    BY ElementOfSeq
  <2> QED
    BY <1>2, <2>1 DEF PartOfStream, Unit
<1> HIDE DEF r
<1>4. Len(r) + d = s + 1
  BY <1>2 DEF PartOfStream
<1>5. \A k \in DOMAIN r : r[k].of = c /\ r[k].n <= s + 1
  BY <1>1, <1>2, <1>3
<1>6. ASSUME NEW k \in DOMAIN r, NEW l \in DOMAIN r, k < l
      PROVE  r[k].n < r[l].n
  <2>1. CASE l = Len(p) + 1
    BY <1>1, <1>2, <1>3, <1>6, <2>1
  <2>2. CASE l # Len(p) + 1
    <3>1. k \in DOMAIN p /\ l \in DOMAIN p
      BY <1>2, <1>6, <2>2
    <3> QED
      BY <1>2, <1>6, <3>1 DEF PartOfStream
  <2> QED
    BY <2>1, <2>2
<1>7. PartOfStream(r, c, s + 1, d)
  BY <1>4, <1>5, <1>6 DEF PartOfStream
<1> QED
  BY <1>7 DEF r, x

\* What is left when n units are dropped behind f is still in order.
LEMMA StreamDrop ==
    ASSUME NEW f \in Seq(Unit), NEW q \in Seq(Unit), NEW n \in 1..Len(q),
           NEW c, NEW s \in Nat, NEW d \in Nat, PartOfStream(f \o q, c, s, d)
    PROVE  PartOfStream(f \o SubSeq(q, n + 1, Len(q)), c, s, d + n)
<1> DEFINE v == SubSeq(q, n + 1, Len(q))
           p == f \o q
           r == f \o v
<1>1. /\ v \in Seq(Unit) /\ Len(v) = Len(q) - n
      /\ \A k \in 1..(Len(q) - n) : v[k] = q[n + k]
      /\ Len(f) \in Nat /\ Len(q) \in Nat /\ n \in Nat /\ n <= Len(q)
  OBVIOUS
<1>2. /\ p \in Seq(Unit) /\ Len(p) = Len(f) + Len(q)
      /\ \A k \in 1..(Len(f) + Len(q)) :
            p[k] = IF k <= Len(f) THEN f[k] ELSE q[k - Len(f)]
  BY ConcatProperties
<1> HIDE DEF v, p
<1>3. /\ r \in Seq(Unit) /\ Len(r) = Len(f) + Len(v)
      /\ \A k \in 1..(Len(f) + Len(v)) :
            r[k] = IF k <= Len(f) THEN f[k] ELSE v[k - Len(f)]
  BY <1>1, ConcatProperties
<1> HIDE DEF r
<1> DEFINE M(k) == IF k <= Len(f) THEN k ELSE k + n
<1>4. DOMAIN p = 1..(Len(f) + Len(q)) /\ DOMAIN r = 1..(Len(f) + Len(q) - n)
  BY <1>1, <1>2, <1>3
<1>5. ASSUME NEW k \in DOMAIN r
      PROVE  M(k) \in DOMAIN p /\ r[k] = p[M(k)]
  <2>1. k \in Nat /\ k >= 1 /\ k <= Len(f) + Len(v)
    BY <1>1, <1>4
  <2>2. CASE k <= Len(f)
    <3>1. r[k] = f[k]
      BY <1>3, <2>1, <2>2
    <3>2. k \in 1..(Len(f) + Len(q)) /\ M(k) = k
      BY <1>1, <2>1, <2>2
    <3>3. p[k] = f[k]
      BY <1>2, <2>2, <3>2
    <3> QED
      BY <1>4, <3>1, <3>2, <3>3
  <2>3. CASE k > Len(f)
    <3>1. k - Len(f) \in 1..(Len(q) - n) /\ (k + n) - Len(f) = n + (k - Len(f))
      BY <1>1, <2>1, <2>3
    <3>2. r[k] = v[k - Len(f)]
      BY <1>3, <2>1, <2>3
    <3>3. k + n \in 1..(Len(f) + Len(q)) /\ ~(k + n <= Len(f)) /\ M(k) = k + n
      BY <1>1, <2>1, <2>3
    <3>4. p[k + n] = q[(k + n) - Len(f)]
      BY <1>2, <3>3
    <3> QED
      BY <1>1, <1>4, <3>1, <3>2, <3>3, <3>4
  <2> QED
    BY <2>1, <2>2, <2>3
<1>6. ASSUME NEW k \in DOMAIN r, NEW l \in DOMAIN r, k < l
      PROVE  M(k) < M(l)
  BY <1>1, <1>4, <1>6
<1> HIDE DEF M
<1>7. PartOfStream(p, c, s, d)
  BY DEF p
<1>8. Len(r) + (d + n) = s
  <2>1. Len(p) + d = s
    BY <1>7 DEF PartOfStream
  <2>2. Len(r) = Len(p) - n /\ Len(p) \in Nat /\ n \in Nat
    BY <1>1, <1>2, <1>3
  <2> QED
    BY <2>1, <2>2
<1>9. \A k \in DOMAIN r : r[k].of = c /\ r[k].n <= s
  BY <1>5, <1>7 DEF PartOfStream
<1>10. \A k, l \in DOMAIN r : k < l => r[k].n < r[l].n
  BY <1>5, <1>6, <1>7 DEF PartOfStream
<1>11. PartOfStream(r, c, s, d + n)
  BY <1>8, <1>9, <1>10 DEF PartOfStream
<1> QED
  BY <1>11 DEF r, v

\* What is known of the whole is known of the queues.
LEMMA StreamParts ==
    ASSUME NEW g \in Seq(Unit), NEW h \in Seq(Unit), NEW q \in Seq(Unit),
           NEW c, NEW s, NEW d, PartOfStream(g \o h \o q, c, s, d)
    PROVE  /\ \A k \in DOMAIN g : g[k].of = c
           /\ \A k \in DOMAIN h : h[k].of = c
<1> DEFINE f == g \o h
           p == f \o q
<1>1. /\ f \in Seq(Unit) /\ Len(f) = Len(g) + Len(h)
      /\ \A k \in 1..(Len(g) + Len(h)) :
            f[k] = IF k <= Len(g) THEN g[k] ELSE h[k - Len(g)]
  BY ConcatProperties
<1>2. \A k \in DOMAIN p : p[k].of = c
  BY DEF PartOfStream
<1> HIDE DEF f
<1>3. /\ p \in Seq(Unit) /\ Len(p) = Len(f) + Len(q)
      /\ \A k \in 1..(Len(f) + Len(q)) :
            p[k] = IF k <= Len(f) THEN f[k] ELSE q[k - Len(f)]
  <2>1. f \in Seq(Unit)
    BY <1>1
  <2> QED
    BY <2>1, ConcatProperties
<1> HIDE DEF p
<1>4. Len(g) \in Nat /\ Len(h) \in Nat /\ Len(q) \in Nat
      /\ DOMAIN p = 1..(Len(f) + Len(q))
  BY <1>3
<1>5. ASSUME NEW k \in 1..Len(f)
      PROVE  f[k].of = c
  <2>1. k \in 1..(Len(f) + Len(q)) /\ k <= Len(f)
    BY <1>1, <1>4
  <2>2. p[k] = f[k]
    BY <1>3, <2>1
  <2> QED
    BY <1>2, <1>4, <2>1, <2>2
<1>6. ASSUME NEW k \in DOMAIN g
      PROVE  g[k].of = c
  BY <1>1, <1>4, <1>5
<1>7. ASSUME NEW k \in DOMAIN h
      PROVE  h[k].of = c
  <2>1. k \in 1..Len(h)
    OBVIOUS
  <2>2. Len(g) + k \in 1..Len(f) /\ ~(Len(g) + k <= Len(g))
        /\ (Len(g) + k) - Len(g) = k
    BY <1>1, <1>4, <2>1
  <2>3. f[Len(g) + k] = h[k]
    BY <1>1, <2>2
  <2> QED
    BY <1>5, <2>2, <2>3
<1> QED
  BY <1>6, <1>7

-----------------------------------------------------------------------------
(* What the stages of a connection imply.                                  *)

\* Arithmetic on the lengths of the queues.
LEMMA SomeSent ==
    ASSUME NEW g \in Nat, NEW h \in Nat, NEW q \in Nat, NEW d \in Nat, q # 0
    PROVE  g + h + q + d # 0
  OBVIOUS

\* Data on its way to the relay belongs to a session that is bound to the
\* connection.
LEMMA CloudBound ==
    ASSUME TypeOK, NEW c \in Conn, Bound(c), Flow(c), cloud[c] # <<>>
    PROVE  session[c] # "none" /\ cloud2end[c] = c
<1>1. got[c] \in Seq(Unit) /\ host[c] \in Seq(Unit) /\ cloud[c] \in Seq(Unit)
      /\ dropped[c] \in Nat /\ sent[c] \in Nat
  BY DEF TypeOK
<1>2. Len(Pipe(c)) = Len(got[c]) + Len(host[c]) + Len(cloud[c])
  BY <1>1, PipeTyped DEF Pipe
<1>3. Len(got[c]) \in Nat /\ Len(host[c]) \in Nat /\ Len(cloud[c]) \in Nat
      /\ Len(cloud[c]) # 0
  BY <1>1
<1>4. sent[c] # 0
  <2>1. Len(Pipe(c)) + dropped[c] = sent[c]
    BY DEF Flow, PartOfStream
  <2>2. dropped[c] \in Nat
    BY <1>1
  <2>3. Len(got[c]) + Len(host[c]) + Len(cloud[c]) + dropped[c] # 0
    BY <1>3, <2>2, SomeSent
  <2> QED
    BY <1>2, <2>1, <2>3
<1> QED
  BY <1>4 DEF Bound

\* Where a request has been sent, a client has opened the socket.
LEMMA OwnedByClient ==
    ASSUME TypeOK, NEW c \in Conn, Bound(c), request[c] # "none"
    PROVE  owner[c] \in Client /\ Target[owner[c]] \in Server
  BY ClientAssumption DEF TypeOK, Bound

\* The callback of the resolution is called once, with the interfaces of the
\* client's target.
LEMMA Resolved ==
    ASSUME TypeOK, NamesOwned, NEW c \in Conn, Bound(c),
           \/ /\ StartCybertwinDownloadProcess(c)
              /\ answers'[c] # <<>>
           \/ TargetResolved(c)
    PROVE  /\ owner[c] \in Client /\ Target[owner[c]] \in Server
           /\ session[c] = "none" /\ answers[c] = <<>>
           /\ request'[c] = "asked"
           /\ answers' = [answers EXCEPT ![c] =
                 <<[name |-> Target[owner[c]],
                    ifs |-> ServerIfs[Target[owner[c]]]]>>]
           /\ answers'[c][1].ifs = ServerIfs[Target[owner[c]]]
           /\ StartDownloadProcess(c, ServerIfs[Target[owner[c]]])
<1>1. request[c] # "none" /\ answers[c] = <<>> /\ request'[c] = "asked"
  <2>1. CASE StartCybertwinDownloadProcess(c)
    BY <2>1 DEF StartCybertwinDownloadProcess, Bound, TypeOK
  <2>2. CASE TargetResolved(c)
    BY <2>2 DEF TargetResolved, Names!QueryResponse, Bound
  <2> QED
    BY <2>1, <2>2
<1>2. owner[c] \in Client /\ Target[owner[c]] \in Server
  BY <1>1, OwnedByClient
<1> DEFINE id == Target[owner[c]]
<1>3. \E i : <<id, i>> \in inserted /\ Names!CallBack(c, id, i)
  <2>1. CASE StartCybertwinDownloadProcess(c) /\ answers'[c] # <<>>
    BY <1>1, <2>1 DEF StartCybertwinDownloadProcess,
        Names!GetCybertwinInterfaceByName
  <2>2. CASE TargetResolved(c)
    BY <2>2 DEF TargetResolved, Names!QueryResponse, Bound
  <2> QED
    BY <2>1, <2>2
<1>4. Names!CallBack(c, id, ServerIfs[id])
  BY <1>2, <1>3, ServerAssumption DEF NamesOwned
<1> HIDE DEF id
<1> DEFINE r == [name |-> id, ifs |-> ServerIfs[id]]
<1>5. answers' = [answers EXCEPT ![c] = <<r>>]
  <2>1. Append(<<>>, r) = <<r>>
    OBVIOUS
  <2> QED
    BY <1>1, <1>4, <2>1 DEF Names!CallBack
<1>6. answers'[c] = <<r>> /\ answers'[c][1] = r /\ r.ifs = ServerIfs[id]
      /\ answers'[c] # <<>>
  <2>1. answers'[c] = <<r>>
    BY <1>5 DEF NamesOwned
  <2> QED
    BY <2>1
<1>7. StartDownloadProcess(c, ServerIfs[id])
  BY <1>6 DEF StartCybertwinDownloadProcess, TargetResolved
<1> QED
  BY <1>1, <1>2, <1>5, <1>6, <1>7 DEF Bound, id

-----------------------------------------------------------------------------
(* Types.                                                                  *)

\* The queues keep their types and their bounds.
Queues ==
    /\ cloud \in [Conn -> Seq(Unit)]
    /\ host \in [Conn -> Seq(Unit)]
    /\ got \in [Conn -> Seq(Unit)]
    /\ \A c \in Conn : Len(cloud[c]) <= ServerBuf /\ Len(host[c]) <= HostBuf

\* The three queues keep their types and stay within the buffers.
LEMMA QueuesStep ==
    ASSUME TypeOK, \A c \in Conn : Bound(c) /\ Flow(c), [Next]_vars
    PROVE  Queues'
<1>1. CASE UNCHANGED <<cloud, host, got>>
  BY <1>1 DEF TypeOK, Queues
<1>2. ASSUME NEW c \in Conn, RecvCallback(c)
      PROVE  Queues'
  <2>1. /\ got' = [got EXCEPT ![c] = Append(@, Head(host[c]))]
        /\ host' = [host EXCEPT ![c] = Tail(@)]
        /\ UNCHANGED cloud /\ host[c] # <<>>
    BY <1>2 DEF RecvCallback
  <2>2. /\ host[c] \in Seq(Unit) /\ got[c] \in Seq(Unit)
        /\ Len(host[c]) <= HostBuf /\ HostBuf \in Nat
    BY DownloadBounds DEF TypeOK
  <2>3. /\ Append(got[c], Head(host[c])) \in Seq(Unit)
        /\ Tail(host[c]) \in Seq(Unit) /\ Len(Tail(host[c])) <= HostBuf
    BY <2>1, <2>2
  <2> QED
    BY <2>1, <2>3 DEF TypeOK, Queues
<1>3. ASSUME NEW c \in Conn, NEW n \in 1..ServerBuf,
             DownloadSocketRecvCallback(c, n)
      PROVE  Queues'
  <2>1. /\ cloud[c] \in Seq(Unit) /\ host[c] \in Seq(Unit)
        /\ Len(cloud[c]) <= ServerBuf
        /\ HostBuf \in Nat /\ ServerBuf \in Nat
    BY DownloadBounds DEF TypeOK
  <2>2. n \in 1..Len(cloud[c]) /\ n \in Nat
    BY <1>3, <2>1 DEF DownloadSocketRecvCallback
  <2>3. cloud[c] # <<>>
    BY <2>1, <2>2
  <2>4. cloud2end[c] = c
    BY <2>3, CloudBound
  <2> DEFINE w == SubSeq(cloud[c], 1, n)
             v == SubSeq(cloud[c], n + 1, Len(cloud[c]))
  <2>5. /\ w \in Seq(Unit) /\ Len(w) = n
        /\ v \in Seq(Unit) /\ Len(v) = Len(cloud[c]) - n
    BY <2>1, <2>2, PipeCut
  <2>6. /\ cloud' = [cloud EXCEPT ![c] = v]
        /\ UNCHANGED got
        /\ \/ UNCHANGED host
           \/ /\ Len(host[c]) + n <= HostBuf
              /\ host' = [host EXCEPT ![c] = @ \o w]
    BY <1>3, <2>4 DEF DownloadSocketRecvCallback
  <2> HIDE DEF w, v
  <2>7. Len(v) <= ServerBuf
    BY <2>1, <2>2, <2>5
  <2>8. cloud' \in [Conn -> Seq(Unit)]
        /\ \A o \in Conn : Len(cloud'[o]) <= ServerBuf
    BY <2>5, <2>6, <2>7 DEF TypeOK
  <2>9. host' \in [Conn -> Seq(Unit)]
        /\ \A o \in Conn : Len(host'[o]) <= HostBuf
    <3>1. CASE UNCHANGED host
      BY <3>1 DEF TypeOK
    <3>2. CASE /\ Len(host[c]) + n <= HostBuf
               /\ host' = [host EXCEPT ![c] = @ \o w]
      <4>1. host[c] \o w \in Seq(Unit) /\ Len(host[c] \o w) <= HostBuf
        BY <2>1, <2>5, <3>2, ConcatProperties
      <4> QED
        BY <3>2, <4>1 DEF TypeOK
    <3> QED
      BY <2>6, <3>1, <3>2
  <2> QED
    BY <2>6, <2>8, <2>9 DEF Queues, TypeOK
<1>4. ASSUME NEW c \in Conn, SendData(c)
      PROVE  Queues'
  <2>1. CASE UNCHANGED cloud
    BY <1>1, <1>4, <2>1 DEF SendData
  <2>2. CASE cloud' # cloud
    <3> DEFINE x == [of |-> c, n |-> sent[c] + 1]
    <3>1. /\ Len(cloud[c]) < ServerBuf
          /\ cloud' = [cloud EXCEPT ![c] = Append(@, x)]
          /\ UNCHANGED <<host, got>>
      BY <1>4, <2>2 DEF SendData
    <3>2. cloud[c] \in Seq(Unit) /\ ServerBuf \in Nat /\ x \in Unit
      <4>1. sent[c] + 1 \in Nat
        BY DEF TypeOK
      <4>2. x \in Unit
        BY <4>1 DEF Unit
      <4> QED
        BY <4>2, DownloadBounds DEF TypeOK
    <3> HIDE DEF x
    <3>3. Append(cloud[c], x) \in Seq(Unit)
          /\ Len(Append(cloud[c], x)) <= ServerBuf
      BY <3>1, <3>2
    <3> QED
      BY <3>1, <3>3 DEF TypeOK, Queues
  <2> QED
    BY <2>1, <2>2
<1>5. ASSUME NEW c \in Conn,
             \/ ConnectSucceeded(c) \/ ConnectFailed(c) \/ LocalRecvCallback(c)
             \/ LocalNormalCloseCallback(c) \/ StartCybertwinDownloadProcess(c)
             \/ TargetResolved(c) \/ ConnectionRefused(c)
             \/ ConnCreatedCallback(c)
      PROVE  Queues'
  BY <1>1, <1>5 DEF ConnectSucceeded, ConnectFailed, LocalRecvCallback,
      LocalNormalCloseCallback, StartCybertwinDownloadProcess, TargetResolved,
      ConnectionRefused, ConnCreatedCallback, dataVars
<1>6. ASSUME \/ RegisterSuccess \/ StartCybertwin \/ LocallyListen
             \/ \E k \in Client : StartApplication(k) \/ StopApplication(k)
             \/ \E s \in Server : StartServer(s) \/ StopServer(s)
             \/ UNCHANGED vars
      PROVE  Queues'
  BY <1>1, <1>6 DEF RegisterSuccess, StartCybertwin, LocallyListen,
      StartApplication, StopApplication, StartServer, StopServer, dataVars, vars
<1> QED
  BY <1>2, <1>3, <1>4, <1>5, <1>6 DEF Next

\* The start of a client takes a socket that no client has.
LEMMA FreshSocket ==
    ASSUME NEW k \in Client, StartApplication(k)
    PROVE  NewSocket \in Conn /\ sock[NewSocket] = "none"
  BY DEF StartApplication, NewSocket

\* No step breaks the types.
LEMMA TypeStep ==
    ASSUME TypeOK, NamesOwned, \A c \in Conn : Bound(c) /\ Flow(c), [Next]_vars
    PROVE  TypeOK'
<1>1. Queues'
  BY QueuesStep
<1> USE DEF TypeOK, Queues, clientVars, relayVars, dataVars
<1>2. CASE RegisterSuccess
  BY <1>1, <1>2 DEF RegisterSuccess
<1>3. CASE StartCybertwin
  BY <1>1, <1>3 DEF StartCybertwin
<1>4. CASE LocallyListen
  BY <1>1, <1>4 DEF LocallyListen
<1>5. ASSUME NEW k \in Client, StartApplication(k)
      PROVE  TypeOK'
  <2>1. NewSocket \in Conn
    BY <1>5, FreshSocket
  <2>2. starts[k] \in Nat /\ starts[k] > 0 /\ WaitTimes \in Nat
    BY <1>5, DownloadBounds DEF StartApplication
  <2>3. starts[k] - 1 + (IF registered THEN 0 ELSE WaitTimes) \in Nat
    BY <2>2
  <2>4. starts' \in [Client -> Nat]
    BY <1>5, <2>3 DEF StartApplication
  <2>5. mSocket' \in [Client -> Conn \cup {NoConn}]
    BY <1>5, <2>1 DEF StartApplication
  <2>6. owner' \in [Conn -> Client \cup {NoClient}]
    BY <1>5, <2>1 DEF StartApplication
  <2>7. sock' \in [Conn -> {"none", "connecting", "astray", "failed", "open",
                            "closing", "closed"}]
    BY <1>5, <2>1 DEF StartApplication
  <2> QED
    BY <1>1, <1>5, <2>4, <2>5, <2>6, <2>7 DEF StartApplication
<1>6. ASSUME NEW k \in Client, StopApplication(k)
      PROVE  TypeOK'
  <2>1. stops' \in 0..MaxStops
    BY <1>6, DownloadBounds DEF StopApplication
  <2>2. sock' \in [Conn -> {"none", "connecting", "astray", "failed", "open",
                            "closing", "closed"}]
    BY <1>6 DEF StopApplication
  <2> QED
    BY <1>1, <1>6, <2>1, <2>2 DEF StopApplication
<1>7. ASSUME NEW s \in Server, StartServer(s)
      PROVE  TypeOK'
  BY <1>1, <1>7 DEF StartServer
<1>8. ASSUME NEW s \in Server, StopServer(s)
      PROVE  TypeOK'
  <2>1. stops' \in 0..MaxStops
    BY <1>8, DownloadBounds DEF StopServer
  <2> QED
    BY <1>1, <1>8, <2>1 DEF StopServer
<1>9. ASSUME NEW c \in Conn, ConnectSucceeded(c)
      PROVE  TypeOK'
  BY <1>1, <1>9 DEF ConnectSucceeded, LocalConnCreatedCallback,
      SendDownloadRequest
<1>10. ASSUME NEW c \in Conn, ConnectFailed(c)
       PROVE  TypeOK'
  BY <1>1, <1>10 DEF ConnectFailed
<1>11. ASSUME NEW c \in Conn, RecvCallback(c)
       PROVE  TypeOK'
  BY <1>1, <1>11 DEF RecvCallback
<1>12. ASSUME NEW c \in Conn, LocalRecvCallback(c)
       PROVE  TypeOK'
  BY <1>1, <1>12 DEF LocalRecvCallback
<1>13. ASSUME NEW c \in Conn, LocalNormalCloseCallback(c)
       PROVE  TypeOK'
  BY <1>1, <1>13 DEF LocalNormalCloseCallback
<1>14. ASSUME NEW c \in Conn, NEW i \in Lists, StartDownloadProcess(c, i)
       PROVE  /\ session' \in [Conn -> {"none", "connecting", "refused",
                                        "sending", "stalled", "closed"}]
              /\ peer' \in [Conn -> Lists]
              /\ cloud2end' \in [Conn -> Conn \cup {NoConn}]
  BY <1>14 DEF StartDownloadProcess
<1>15. \A s \in Server : ServerIfs[s] \in Lists
  BY DEF Lists
<1>16. ASSUME NEW c \in Conn, StartCybertwinDownloadProcess(c)
       PROVE  TypeOK'
  <2>1. CASE answers'[c] = <<>>
    BY <1>1, <1>16, <2>1 DEF StartCybertwinDownloadProcess
  <2>2. CASE answers'[c] # <<>>
    <3>1. PICK i \in Lists : StartDownloadProcess(c, i)
      BY <1>15, <1>16, <2>2, Resolved
    <3> QED
      BY <1>1, <1>14, <1>16, <3>1 DEF StartCybertwinDownloadProcess
  <2> QED
    BY <2>1, <2>2
<1>17. ASSUME NEW c \in Conn, TargetResolved(c)
       PROVE  TypeOK'
  <2>1. PICK i \in Lists : StartDownloadProcess(c, i)
    BY <1>15, <1>17, Resolved
  <2> QED
    BY <1>1, <1>14, <1>17, <2>1 DEF TargetResolved
<1>18. ASSUME NEW c \in Conn, ConnectionRefused(c)
       PROVE  TypeOK'
  BY <1>1, <1>18 DEF ConnectionRefused
<1>19. ASSUME NEW c \in Conn, NEW n \in 1..ServerBuf,
              DownloadSocketRecvCallback(c, n)
       PROVE  TypeOK'
  <2>1. dropped' \in [Conn -> Nat]
    <3>1. n \in Nat
      BY DownloadBounds
    <3>2. UNCHANGED dropped \/ dropped' = [dropped EXCEPT ![c] = @ + n]
      BY <1>19 DEF DownloadSocketRecvCallback
    <3>3. dropped[c] + n \in Nat
      BY <3>1
    <3> QED
      BY <3>2, <3>3
  <2> QED
    BY <1>1, <1>19, <2>1 DEF DownloadSocketRecvCallback
<1>20. ASSUME NEW c \in Conn, ConnCreatedCallback(c)
       PROVE  TypeOK'
  BY <1>1, <1>20 DEF ConnCreatedCallback
<1>21. ASSUME NEW c \in Conn, SendData(c)
       PROVE  TypeOK'
  <2>1. sent' \in [Conn -> Nat]
    <3>1. UNCHANGED sent \/ sent' = [sent EXCEPT ![c] = @ + 1]
      BY <1>21 DEF SendData
    <3>2. sent[c] + 1 \in Nat
      OBVIOUS
    <3> QED
      BY <3>1, <3>2
  <2>2. session' \in [Conn -> {"none", "connecting", "refused", "sending",
                               "stalled", "closed"}]
    <3>1. \/ UNCHANGED session
          \/ session' = [session EXCEPT ![c] = "closed"]
          \/ session' = [session EXCEPT ![c] = "stalled"]
      BY <1>21 DEF SendData
    <3> QED
      BY <3>1
  <2> QED
    BY <1>1, <1>21, <2>1, <2>2 DEF SendData
<1>22. CASE UNCHANGED vars
  BY <1>1, <1>22 DEF vars
<1> QED
  BY <1>2, <1>3, <1>4, <1>5, <1>6, <1>7, <1>8, <1>9, <1>10, <1>11, <1>12, <1>13,
     <1>16, <1>17, <1>18, <1>19, <1>20, <1>21, <1>22 DEF Next

-----------------------------------------------------------------------------
(* Names and stages.                                                       *)

\* Servers and the Cybertwin insert their own interfaces only, and the
\* Cybertwin asks for targets.
LEMMA NamesStep ==
    ASSUME TypeOK, NamesOwned, \A c \in Conn : Bound(c), [Next]_vars
    PROVE  NamesOwned'
<1>1. CASE UNCHANGED nameVars
  BY <1>1 DEF NamesOwned, nameVars
<1>2. CASE StartCybertwin
  BY <1>2 DEF StartCybertwin, Names!InsertCybertwinInterfaceName, NamesOwned
<1>3. ASSUME NEW s \in Server, StartServer(s)
      PROVE  NamesOwned'
  BY <1>3 DEF StartServer, Names!InsertCybertwinInterfaceName, NamesOwned
<1>4. ASSUME NEW c \in Conn, NEW id \in Server,
             answers' = [answers EXCEPT ![c] = <<[name |-> id,
                                                  ifs |-> ServerIfs[id]]>>]
      PROVE  answers' \in [Conn -> Seq([name : Server \cup {TwinId},
                                        ifs : Lists])]
  <2> DEFINE R == [name : Server \cup {TwinId}, ifs : Lists]
             x == [name |-> id, ifs |-> ServerIfs[id]]
  <2>1. x \in R
    BY DEF Lists
  <2> HIDE DEF R, x
  <2>2. <<x>> \in Seq(R)
    BY <2>1
  <2> QED
    BY <1>4, <2>2 DEF NamesOwned, R, x
<1>5. ASSUME NEW c \in Conn, StartCybertwinDownloadProcess(c)
      PROVE  NamesOwned'
  <2>1. Names!GetCybertwinInterfaceByName(c, TwinNode, Target[owner[c]])
        /\ request[c] = "scheduled"
    BY <1>5 DEF StartCybertwinDownloadProcess
  <2>2. Target[owner[c]] \in Server
    BY <2>1, OwnedByClient
  <2>3. /\ asked' = [asked EXCEPT ![c] = [node |-> TwinNode,
                                          name |-> Target[owner[c]]]]
        /\ UNCHANGED inserted
    BY <2>1 DEF Names!GetCybertwinInterfaceByName
  <2>4. asked' \in [Conn -> [node : {TwinNode}, name : Server \cup {TwinId}]
                               \cup {NoReq}]
    BY <2>2, <2>3 DEF NamesOwned
  <2>5. answers' \in [Conn -> Seq([name : Server \cup {TwinId}, ifs : Lists])]
    <3>1. CASE UNCHANGED answers
      BY <3>1 DEF NamesOwned
    <3>2. CASE answers' # answers
      <4>1. answers'[c] # <<>>
        <5>1. PICK x : answers' = [answers EXCEPT ![c] = Append(@, x)]
          BY <2>1, <3>2 DEF Names!GetCybertwinInterfaceByName, Names!CallBack
        <5>2. answers'[c] = Append(answers[c], x) /\ answers[c] = <<>>
          BY <2>1, <5>1 DEF NamesOwned, Bound
        <5> QED
          BY <5>2
      <4>2. answers' = [answers EXCEPT ![c] =
               <<[name |-> Target[owner[c]], ifs |-> ServerIfs[Target[owner[c]]]]>>]
        BY <1>5, <4>1, Resolved
      <4> QED
        BY <1>4, <2>2, <4>2
    <3> QED
      BY <3>1, <3>2
  <2> QED
    BY <2>3, <2>4, <2>5 DEF NamesOwned
<1>6. ASSUME NEW c \in Conn, TargetResolved(c)
      PROVE  NamesOwned'
  <2>1. UNCHANGED <<asked, inserted>>
    BY <1>6 DEF TargetResolved, Names!QueryResponse
  <2>2. /\ Target[owner[c]] \in Server
        /\ answers' = [answers EXCEPT ![c] =
               <<[name |-> Target[owner[c]], ifs |-> ServerIfs[Target[owner[c]]]]>>]
    BY <1>6, Resolved
  <2>3. answers' \in [Conn -> Seq([name : Server \cup {TwinId}, ifs : Lists])]
    BY <1>4, <2>2
  <2> QED
    BY <2>1, <2>3 DEF NamesOwned
<1>7. ASSUME NEW c \in Conn,
             \/ ConnectSucceeded(c) \/ ConnectFailed(c) \/ LocalRecvCallback(c)
             \/ RecvCallback(c) \/ LocalNormalCloseCallback(c)
             \/ ConnectionRefused(c) \/ ConnCreatedCallback(c) \/ SendData(c)
             \/ \E n \in 1..ServerBuf : DownloadSocketRecvCallback(c, n)
      PROVE  NamesOwned'
  BY <1>1, <1>7 DEF ConnectSucceeded, ConnectFailed, LocalRecvCallback,
      RecvCallback, LocalNormalCloseCallback, ConnectionRefused,
      ConnCreatedCallback, SendData, DownloadSocketRecvCallback
<1>8. ASSUME \/ RegisterSuccess \/ LocallyListen
             \/ \E k \in Client : StartApplication(k) \/ StopApplication(k)
             \/ \E s \in Server : StopServer(s)
             \/ UNCHANGED vars
      PROVE  NamesOwned'
  BY <1>1, <1>8 DEF RegisterSuccess, LocallyListen, StartApplication,
      StopApplication, StopServer, vars
<1> QED
  BY <1>2, <1>3, <1>5, <1>6, <1>7, <1>8 DEF Next

\* Connection c is not touched.
Untouched(c) ==
    /\ sock'[c] = sock[c] /\ owner'[c] = owner[c] /\ request'[c] = request[c]
    /\ asked'[c] = asked[c] /\ answers'[c] = answers[c]
    /\ session'[c] = session[c] /\ sent'[c] = sent[c]
    /\ cloud2end'[c] = cloud2end[c] /\ peer'[c] = peer[c]

\* A connection that a step leaves alone keeps its stages.
LEMMA BoundKept ==
    ASSUME NEW c \in Conn, Bound(c), Untouched(c)
    PROVE  Bound(c)'
  BY DEF Bound, Untouched

\* The server that a session talks to is the target of its client.
LEMMA ServerOfSession ==
    ASSUME TypeOK, NEW c \in Conn, Bound(c), session[c] # "none"
    PROVE  /\ owner[c] \in Client /\ Target[owner[c]] \in Server
           /\ ServerOf(c) = Target[owner[c]]
<1>1. request[c] # "none"
  BY DEF Bound
<1>2. owner[c] \in Client /\ Target[owner[c]] \in Server
  BY <1>1, OwnedByClient
<1>3. peer[c] = ServerIfs[Target[owner[c]]]
  BY DEF Bound
<1> QED
  BY <1>2, <1>3, ServerAssumption DEF ServerOf

\* The stages of a connection stay in step.
LEMMA BoundStep ==
    ASSUME TypeOK, TypeOK', NamesOwned, \A c \in Conn : Bound(c), [Next]_vars,
           NEW o \in Conn
    PROVE  Bound(o)'
<1> USE DEF clientVars, relayVars, dataVars, nameVars
<1>0. Bound(o)
  OBVIOUS
<1>1. CASE Untouched(o)
  BY <1>1, BoundKept
<1>2. CASE StartCybertwin
  BY <1>1, <1>2 DEF StartCybertwin, Names!InsertCybertwinInterfaceName,
      Untouched
<1>3. ASSUME NEW s \in Server, StartServer(s)
      PROVE  Bound(o)'
  BY <1>1, <1>3 DEF StartServer, Names!InsertCybertwinInterfaceName, Untouched
<1>4. ASSUME NEW k \in Client, StartApplication(k)
      PROVE  Bound(o)'
  <2>1. NewSocket \in Conn /\ sock[NewSocket] = "none"
    BY <1>4, FreshSocket
  <2>2. /\ owner' = [owner EXCEPT ![NewSocket] = k]
        /\ sock' = [sock EXCEPT ![NewSocket] = IF registered THEN "connecting"
                                               ELSE "astray"]
        /\ UNCHANGED <<request, asked, answers, session, sent, cloud2end, peer>>
    BY <1>4 DEF StartApplication
  <2>3. CASE o # NewSocket
    BY <1>1, <2>2, <2>3 DEF Untouched, TypeOK
  <2>4. CASE o = NewSocket
    <3>1. /\ owner'[o] = k /\ k # NoClient
          /\ sock'[o] \in {"connecting", "astray"}
          /\ request[o] = "none"
      BY <2>1, <2>2, <2>4, ClientAssumption DEF TypeOK, Bound
    <3>2. asked[o] = NoReq /\ answers[o] = <<>> /\ session[o] = "none"
      BY <1>0, <3>1 DEF Bound
    <3>3. sent[o] = 0
      BY <1>0, <3>2 DEF Bound
    <3> QED
      BY <2>2, <3>1, <3>2, <3>3 DEF Bound
  <2> QED
    BY <2>3, <2>4
<1>5. ASSUME NEW k \in Client, StopApplication(k)
      PROVE  Bound(o)'
  <2>1. /\ UNCHANGED <<owner, request, asked, answers, session, sent, cloud2end,
                       peer>>
        /\ \/ sock'[o] = sock[o]
           \/ sock[o] = "open" /\ sock'[o] = "closing"
           \/ sock[o] \in {"connecting", "astray"} /\ sock'[o] = "closed"
    <3> DEFINE m == mSocket[k]
    <3>1. sock' = [sock EXCEPT ![m] =
                     CASE sock[m] = "open" -> "closing"
                       [] sock[m] \in {"connecting", "astray"} -> "closed"
                       [] OTHER -> sock[m]]
      BY <1>5 DEF StopApplication
    <3> HIDE DEF m
    <3>2. CASE o # m
      BY <1>5, <3>1, <3>2 DEF StopApplication, TypeOK
    <3>3. CASE o = m
      <4>1. sock'[o] = CASE sock[o] = "open" -> "closing"
                         [] sock[o] \in {"connecting", "astray"} -> "closed"
                         [] OTHER -> sock[o]
        BY <3>1, <3>3 DEF TypeOK
      <4> QED
        BY <1>5, <4>1 DEF StopApplication
    <3> QED
      BY <3>2, <3>3
  <2> QED
    BY <1>0, <2>1 DEF Bound
<1>6. ASSUME NEW c \in Conn, ConnectSucceeded(c)
      PROVE  Bound(o)'
  <2>1. /\ UNCHANGED <<owner, asked, answers, session, sent, cloud2end, peer>>
        /\ sock[c] \in {"connecting", "astray"}
        /\ sock' = [sock EXCEPT ![c] = "open"]
        /\ request' = [request EXCEPT ![c] = "sent"]
    BY <1>6 DEF ConnectSucceeded, SendDownloadRequest
  <2>2. CASE o # c
    BY <1>1, <2>1, <2>2 DEF Untouched, TypeOK
  <2>3. CASE o = c
    <3>1. sock'[c] = "open" /\ request'[c] = "sent" /\ request[c] = "none"
      BY <2>1 DEF TypeOK, Bound
    <3> QED
      BY <1>0, <2>1, <2>3, <3>1 DEF Bound
  <2> QED
    BY <2>2, <2>3
<1>7. ASSUME NEW c \in Conn, ConnectFailed(c)
      PROVE  Bound(o)'
  <2>1. /\ UNCHANGED <<owner, request, asked, answers, session, sent, cloud2end,
                       peer>>
        /\ \/ sock'[o] = sock[o]
           \/ sock[o] \in {"connecting", "astray"} /\ sock'[o] = "failed"
    BY <1>7 DEF ConnectFailed, TypeOK
  <2> QED
    BY <1>0, <2>1 DEF Bound
<1>8. ASSUME NEW c \in Conn, LocalRecvCallback(c)
      PROVE  Bound(o)'
  <2>1. /\ UNCHANGED <<sock, owner, asked, answers, session, sent, cloud2end,
                       peer>>
        /\ \/ request'[o] = request[o]
           \/ request[o] = "sent" /\ request'[o] = "scheduled"
    BY <1>8 DEF LocalRecvCallback, TypeOK
  <2> QED
    BY <1>0, <2>1 DEF Bound
<1>9. ASSUME NEW c \in Conn, StartDownloadProcess(c, ServerIfs[Target[owner[c]]]),
             session[c] = "none",
             UNCHANGED <<sock, owner, sent>>, request'[c] = "asked",
             answers'[c] # <<>>,
             asked'[c] # NoReq => asked'[c].name = Target[owner[c]],
             o # c => /\ request'[o] = request[o] /\ asked'[o] = asked[o]
                      /\ answers'[o] = answers[o],
             sock[c] \notin {"none", "connecting", "astray"},
             owner[c] \in Client, Target[owner[c]] \in Server
      PROVE  Bound(o)'
  <2>1. /\ session'[c] \in {"connecting", "refused"} /\ cloud2end'[c] = c
        /\ peer'[c] = ServerIfs[Target[owner[c]]]
        /\ o # c => /\ session'[o] = session[o] /\ cloud2end'[o] = cloud2end[o]
                    /\ peer'[o] = peer[o]
    BY <1>9 DEF StartDownloadProcess, TypeOK
  <2>2. CASE o # c
    BY <1>1, <1>9, <2>1, <2>2 DEF Untouched
  <2>3. CASE o = c
    <3>1. sent[c] = 0 /\ 0 <= MaxPkts[Target[owner[c]]]
      BY <1>0, <1>9, <2>3, DownloadBounds DEF Bound
    <3>2. owner[c] # NoClient
      BY <1>9, ClientAssumption
    <3> QED
      BY <1>9, <2>1, <2>3, <3>1, <3>2 DEF Bound
  <2> QED
    BY <2>2, <2>3
<1>10. ASSUME NEW c \in Conn, StartCybertwinDownloadProcess(c)
       PROVE  Bound(o)'
  <2>1. /\ UNCHANGED <<sock, owner, sent>>
        /\ request[c] = "scheduled"
        /\ request' = [request EXCEPT ![c] = "asked"]
        /\ asked' = [asked EXCEPT ![c] = [node |-> TwinNode,
                                          name |-> Target[owner[c]]]]
    BY <1>10 DEF StartCybertwinDownloadProcess,
        Names!GetCybertwinInterfaceByName
  <2>2. /\ request'[c] = "asked" /\ asked'[c].name = Target[owner[c]]
        /\ o # c => request'[o] = request[o] /\ asked'[o] = asked[o]
    BY <2>1 DEF TypeOK, NamesOwned
  <2>3. o # c => answers'[o] = answers[o]
    BY <1>10 DEF StartCybertwinDownloadProcess,
        Names!GetCybertwinInterfaceByName, Names!CallBack, NamesOwned
  <2>4. sock[c] \notin {"none", "connecting", "astray"}
    BY <2>1 DEF Bound
  <2>5. CASE answers'[c] = <<>>
    <3>1. UNCHANGED <<session, peer, cloud2end>>
      BY <1>10, <2>5 DEF StartCybertwinDownloadProcess
    <3>2. session[c] = "none"
      BY <2>1 DEF Bound
    <3>3. CASE o # c
      BY <1>1, <2>1, <2>2, <2>3, <3>1, <3>3 DEF Untouched
    <3>4. CASE o = c
      BY <1>0, <2>1, <2>2, <2>4, <2>5, <3>1, <3>2, <3>4 DEF Bound
    <3> QED
      BY <3>3, <3>4
  <2>6. CASE answers'[c] # <<>>
    <3>1. /\ owner[c] \in Client /\ Target[owner[c]] \in Server
          /\ session[c] = "none"
          /\ StartDownloadProcess(c, ServerIfs[Target[owner[c]]])
      BY <1>10, <2>6, Resolved
    <3> QED
      BY <1>9, <2>1, <2>2, <2>3, <2>4, <2>6, <3>1
  <2> QED
    BY <2>5, <2>6
<1>11. ASSUME NEW c \in Conn, TargetResolved(c)
       PROVE  Bound(o)'
  <2>1. UNCHANGED <<sock, owner, sent, request, asked>> /\ asked[c] # NoReq
    BY <1>11 DEF TargetResolved, Names!QueryResponse
  <2>2. /\ request[c] = "asked" /\ asked[c].name = Target[owner[c]]
        /\ sock[c] \notin {"none", "connecting", "astray"}
    BY <2>1 DEF Bound
  <2>3. /\ owner[c] \in Client /\ Target[owner[c]] \in Server
        /\ session[c] = "none"
        /\ answers' = [answers EXCEPT ![c] =
               <<[name |-> Target[owner[c]], ifs |-> ServerIfs[Target[owner[c]]]]>>]
        /\ StartDownloadProcess(c, ServerIfs[Target[owner[c]]])
    BY <1>11, Resolved
  <2>4. answers'[c] # <<>> /\ (o # c => answers'[o] = answers[o])
    BY <2>3 DEF NamesOwned
  <2> QED
    BY <1>9, <2>1, <2>2, <2>3, <2>4
<1>12. ASSUME NEW c \in Conn, ConnectionRefused(c)
       PROVE  Bound(o)'
  <2>1. /\ UNCHANGED <<sock, owner, request, asked, answers, sent, cloud2end,
                       peer>>
        /\ \/ session'[o] = session[o]
           \/ session[o] = "connecting" /\ session'[o] = "refused"
    BY <1>12 DEF ConnectionRefused, TypeOK
  <2> QED
    BY <1>0, <2>1 DEF Bound
<1>13. ASSUME NEW c \in Conn, ConnCreatedCallback(c)
       PROVE  Bound(o)'
  <2>1. /\ UNCHANGED <<sock, owner, request, asked, answers, cloud2end, peer>>
        /\ \/ session'[o] = session[o] /\ sent'[o] = sent[o]
           \/ /\ session[o] = "connecting" /\ session'[o] = "sending"
              /\ sent'[o] = 0
    BY <1>13 DEF ConnCreatedCallback, TypeOK
  <2> QED
    BY <1>0, <2>1 DEF Bound
<1>14. ASSUME NEW c \in Conn, SendData(c)
       PROVE  Bound(o)'
  <2>1. UNCHANGED <<sock, owner, request, asked, answers, cloud2end, peer>>
        /\ session[c] = "sending"
    BY <1>14 DEF SendData
  <2>2. CASE o # c
    <3>1. session'[o] = session[o]
      <4>1. \/ UNCHANGED session
            \/ session' = [session EXCEPT ![c] = "closed"]
            \/ session' = [session EXCEPT ![c] = "stalled"]
        BY <1>14 DEF SendData
      <4>2. DOMAIN session = Conn
        BY DEF TypeOK
      <4> QED
        BY <2>2, <4>1, <4>2
    <3>2. sent'[o] = sent[o]
      <4>1. UNCHANGED sent \/ sent' = [sent EXCEPT ![c] = @ + 1]
        BY <1>14 DEF SendData
      <4>2. DOMAIN sent = Conn
        BY DEF TypeOK
      <4> QED
        BY <2>2, <4>1, <4>2
    <3> QED
      BY <1>1, <2>1, <3>1, <3>2 DEF Untouched
  <2>3. CASE o = c
    <3>1. ServerOf(c) = Target[owner[c]] /\ MaxPkts[Target[owner[c]]] \in Nat
      BY <2>1, ServerOfSession, DownloadBounds
    <3>2. session'[c] \in {"sending", "closed", "stalled"}
      BY <1>14, <2>1 DEF SendData, TypeOK
    <3>3. \/ sent'[c] = sent[c]
          \/ sent[c] < MaxPkts[Target[owner[c]]] /\ sent'[c] = sent[c] + 1
      BY <1>14, <3>1 DEF SendData, TypeOK
    <3>4. sent'[c] <= MaxPkts[Target[owner[c]]]
      <4>1. sent[c] \in Nat /\ sent[c] <= MaxPkts[Target[owner[c]]]
        BY <2>1 DEF TypeOK, Bound
      <4> QED
        BY <3>1, <3>3, <4>1
    <3> QED
      BY <1>0, <2>1, <2>3, <3>2, <3>4 DEF Bound
  <2> QED
    BY <2>2, <2>3
<1>15. ASSUME NEW c \in Conn,
              \/ RecvCallback(c) \/ LocalNormalCloseCallback(c)
              \/ \E n \in 1..ServerBuf : DownloadSocketRecvCallback(c, n)
       PROVE  Bound(o)'
  BY <1>1, <1>15 DEF RecvCallback, LocalNormalCloseCallback,
      DownloadSocketRecvCallback, Untouched
<1>16. ASSUME \/ RegisterSuccess \/ LocallyListen
              \/ \E s \in Server : StopServer(s)
              \/ UNCHANGED vars
       PROVE  Bound(o)'
  BY <1>1, <1>16 DEF RegisterSuccess, LocallyListen, StopServer, vars, Untouched
<1> QED
  BY <1>2, <1>3, <1>4, <1>5, <1>6, <1>7, <1>8, <1>10, <1>11, <1>12, <1>13, <1>14,
     <1>15, <1>16 DEF Next

-----------------------------------------------------------------------------
(* The data.                                                               *)

\* A connection whose queues a step leaves alone keeps its data.
LEMMA FlowKept ==
    ASSUME NEW c \in Conn, Flow(c), got'[c] = got[c], host'[c] = host[c],
           cloud'[c] = cloud[c], sent'[c] = sent[c], dropped'[c] = dropped[c]
    PROVE  Flow(c)'
  BY DEF Flow, Pipe

\* The queues of a connection stay a part of its own stream.
LEMMA FlowStep ==
    ASSUME TypeOK, \A c \in Conn : Bound(c) /\ Flow(c), [Next]_vars,
           NEW o \in Conn
    PROVE  Flow(o)'
<1>1. CASE UNCHANGED dataVars
  BY <1>1, FlowKept DEF dataVars
<1>2. ASSUME NEW c \in Conn
      PROVE  /\ got[c] \in Seq(Unit) /\ host[c] \in Seq(Unit)
             /\ cloud[c] \in Seq(Unit) /\ sent[c] \in Nat /\ dropped[c] \in Nat
             /\ Pipe(c) \in Seq(Unit)
  <2>1. /\ got[c] \in Seq(Unit) /\ host[c] \in Seq(Unit)
        /\ cloud[c] \in Seq(Unit) /\ sent[c] \in Nat /\ dropped[c] \in Nat
    BY DEF TypeOK
  <2>2. Pipe(c) \in Seq(Unit)
    BY <2>1, PipeTyped DEF Pipe
  <2> QED
    BY <2>1, <2>2
<1>3. ASSUME NEW c \in Conn, RecvCallback(c)
      PROVE  Flow(o)'
  <2>1. /\ got' = [got EXCEPT ![c] = Append(got[c], Head(host[c]))]
        /\ host' = [host EXCEPT ![c] = Tail(host[c])]
        /\ UNCHANGED <<cloud, sent, dropped>> /\ host[c] # <<>>
    BY <1>3 DEF RecvCallback
  <2>2. CASE o # c
    BY <2>1, <2>2, FlowKept DEF TypeOK
  <2>3. CASE o = c
    <3>1. /\ got'[c] = Append(got[c], Head(host[c]))
          /\ host'[c] = Tail(host[c])
      BY <2>1 DEF TypeOK
    <3>2. Append(got[c], Head(host[c])) \o Tail(host[c]) \o cloud[c]
            = got[c] \o host[c] \o cloud[c]
      <4>1. /\ got[c] \in Seq(Unit) /\ host[c] \in Seq(Unit)
            /\ cloud[c] \in Seq(Unit) /\ host[c] # <<>>
        BY <1>2, <2>1
      <4> QED
        BY <4>1, PipeRead, Zenon
    <3>3. Pipe(c)' = Pipe(c)
      BY <2>1, <3>1, <3>2, Zenon DEF Pipe
    <3>4. Flow(c)
      OBVIOUS
    <3>5. sent'[c] = sent[c] /\ dropped'[c] = dropped[c]
      BY <2>1
    <3> QED
      BY <2>3, <3>3, <3>4, <3>5 DEF Flow
  <2> QED
    BY <2>2, <2>3
<1>4. ASSUME NEW c \in Conn, NEW n \in 1..ServerBuf,
             DownloadSocketRecvCallback(c, n)
      PROVE  Flow(o)'
  <2>1. n \in 1..Len(cloud[c])
    BY <1>2, <1>4, DownloadBounds DEF DownloadSocketRecvCallback
  <2>2. cloud[c] # <<>>
    BY <1>2, <2>1
  <2>3. cloud2end[c] = c
    BY <2>2, CloudBound
  <2> DEFINE w == SubSeq(cloud[c], 1, n)
             v == SubSeq(cloud[c], n + 1, Len(cloud[c]))
  <2>4. /\ cloud' = [cloud EXCEPT ![c] = v]
        /\ UNCHANGED <<got, sent>>
        /\ \/ UNCHANGED dropped /\ host' = [host EXCEPT ![c] = host[c] \o w]
           \/ UNCHANGED host /\ dropped' = [dropped EXCEPT ![c] = dropped[c] + n]
    BY <1>4, <2>3 DEF DownloadSocketRecvCallback
  <2>5. CASE o # c
    BY <2>4, <2>5, FlowKept DEF TypeOK
  <2>6. CASE o = c /\ UNCHANGED dropped
               /\ host' = [host EXCEPT ![c] = host[c] \o w]
    <3>1. cloud'[c] = v /\ host'[c] = host[c] \o w
      BY <2>4, <2>6 DEF TypeOK
    <3>2. got[c] \o (host[c] \o w) \o v = got[c] \o host[c] \o cloud[c]
      <4>1. /\ got[c] \in Seq(Unit) /\ host[c] \in Seq(Unit)
            /\ cloud[c] \in Seq(Unit)
        BY <1>2
      <4>2. \A g, h, q \in Seq(Unit) : \A m \in 1..Len(q) :
               g \o (h \o SubSeq(q, 1, m)) \o SubSeq(q, m + 1, Len(q))
                  = g \o h \o q
        BY PipeRelay, Zenon
      <4>3. \A m \in 1..Len(cloud[c]) :
               got[c] \o (host[c] \o SubSeq(cloud[c], 1, m))
                        \o SubSeq(cloud[c], m + 1, Len(cloud[c]))
                  = got[c] \o host[c] \o cloud[c]
        BY <4>1, <4>2, Zenon
      <4> QED
        BY <2>1, <4>3, Zenon
    <3>3. Pipe(c)' = Pipe(c)
      BY <2>4, <3>1, <3>2, Zenon DEF Pipe
    <3>4. Flow(c)
      OBVIOUS
    <3> QED
      BY <2>4, <2>6, <3>3, <3>4 DEF Flow
  <2>7. CASE o = c /\ UNCHANGED host
               /\ dropped' = [dropped EXCEPT ![c] = dropped[c] + n]
    <3>1. cloud'[c] = v /\ dropped'[c] = dropped[c] + n
      BY <2>4, <2>7 DEF TypeOK
    <3> DEFINE f == got[c] \o host[c]
    <3>2. f \in Seq(Unit)
      BY <1>2, ConcatProperties
    <3>3. PartOfStream(f \o cloud[c], c, sent[c], dropped[c])
      BY DEF Flow, Pipe
    <3> HIDE DEF f
    <3>4. PartOfStream(f \o v, c, sent[c], dropped[c] + n)
      BY <1>2, <2>1, <3>2, <3>3, StreamDrop
    <3>5. Pipe(c)' = f \o v
      BY <2>4, <2>7, <3>1, Zenon DEF Pipe, f
    <3> QED
      BY <2>4, <2>7, <3>1, <3>4, <3>5 DEF Flow
  <2> QED
    BY <2>4, <2>5, <2>6, <2>7
<1>5. ASSUME NEW c \in Conn, ConnCreatedCallback(c)
      PROVE  Flow(o)'
  <2>1. /\ UNCHANGED <<got, host, cloud, dropped>>
        /\ session[c] = "connecting" /\ sent' = [sent EXCEPT ![c] = 0]
    BY <1>5 DEF ConnCreatedCallback
  <2>2. sent[c] = 0
    BY <2>1 DEF Bound
  <2>3. sent'[o] = sent[o]
    BY <2>1, <2>2 DEF TypeOK
  <2> QED
    BY <2>1, <2>3, FlowKept
<1>6. ASSUME NEW c \in Conn, SendData(c)
      PROVE  Flow(o)'
  <2> DEFINE x == [of |-> c, n |-> sent[c] + 1]
  <2>1. /\ UNCHANGED <<got, host, dropped>>
        /\ \/ UNCHANGED <<cloud, sent>>
           \/ /\ sent' = [sent EXCEPT ![c] = sent[c] + 1]
              /\ cloud' = [cloud EXCEPT ![c] = Append(cloud[c], x)]
    BY <1>6 DEF SendData
  <2>2. CASE UNCHANGED <<cloud, sent>>
    BY <2>1, <2>2, FlowKept
  <2>3. CASE /\ sent' = [sent EXCEPT ![c] = sent[c] + 1]
             /\ cloud' = [cloud EXCEPT ![c] = Append(cloud[c], x)]
    <3>1. CASE o # c
      BY <2>1, <2>3, <3>1, FlowKept DEF TypeOK
    <3>2. CASE o = c
      <4>1. sent'[c] = sent[c] + 1 /\ cloud'[c] = Append(cloud[c], x)
        BY <2>3 DEF TypeOK
      <4>2. x \in Unit
        BY <1>2 DEF Unit
      <4>3. PartOfStream(Append(Pipe(c), x), c, sent[c] + 1, dropped[c])
        BY <1>2, StreamSend DEF Flow
      <4> HIDE DEF x
      <4>4. got[c] \o host[c] \o Append(cloud[c], x) = Append(Pipe(c), x)
        <5>1. /\ got[c] \in Seq(Unit) /\ host[c] \in Seq(Unit)
              /\ cloud[c] \in Seq(Unit)
          BY <1>2
        <5> QED
          BY <4>2, <5>1, PipeSend, Zenon DEF Pipe
      <4>5. Pipe(c)' = Append(Pipe(c), x)
        <5>1. Pipe(c)' = got[c] \o host[c] \o Append(cloud[c], x)
          BY <2>1, <4>1, Zenon DEF Pipe
        <5> QED
          BY <4>4, <5>1, Zenon
      <4> QED
        BY <2>1, <3>2, <4>1, <4>3, <4>5 DEF Flow
    <3> QED
      BY <3>1, <3>2
  <2> QED
    BY <2>1, <2>2, <2>3
<1>7. ASSUME NEW c \in Conn,
             \/ ConnectSucceeded(c) \/ ConnectFailed(c) \/ LocalRecvCallback(c)
             \/ LocalNormalCloseCallback(c) \/ StartCybertwinDownloadProcess(c)
             \/ TargetResolved(c) \/ ConnectionRefused(c)
      PROVE  Flow(o)'
  BY <1>1, <1>7 DEF ConnectSucceeded, ConnectFailed, LocalRecvCallback,
      LocalNormalCloseCallback, StartCybertwinDownloadProcess, TargetResolved,
      ConnectionRefused
<1>8. ASSUME \/ RegisterSuccess \/ StartCybertwin \/ LocallyListen
             \/ \E k \in Client : StartApplication(k) \/ StopApplication(k)
             \/ \E s \in Server : StartServer(s) \/ StopServer(s)
             \/ UNCHANGED vars
      PROVE  Flow(o)'
  BY <1>1, <1>8 DEF RegisterSuccess, StartCybertwin, LocallyListen,
      StartApplication, StopApplication, StartServer, StopServer, vars
<1> QED
  BY <1>3, <1>4, <1>5, <1>6, <1>7, <1>8 DEF Next

-----------------------------------------------------------------------------
(* The theorems.                                                           *)

\* Initially nothing is open, asked or sent.
LEMMA InitDInv ==
    Init => DInv
<1> SUFFICES ASSUME Init
             PROVE  DInv
  OBVIOUS
<1> USE DEF Init, Names!Init
<1>1. TypeOK
  <2>1. /\ 0 \in 0..MaxStops /\ NoIfs \in Lists
        /\ 0 <= ServerBuf /\ 0 <= HostBuf
    BY DownloadBounds DEF Lists
  <2>2. <<>> \in Seq(Unit) /\ Len(<<>>) = 0
    OBVIOUS
  <2> QED
    BY <2>1, <2>2 DEF TypeOK
<1>2. NamesOwned
  BY DEF NamesOwned
<1>3. ASSUME NEW c \in Conn
      PROVE  Bound(c) /\ Flow(c)
  <2>1. Bound(c)
    BY DEF Bound
  <2>2. <<>> \in Seq(Unit) /\ Len(<<>>) = 0 /\ <<>> \o <<>> = <<>>
    BY ConcatEmptySeq
  <2>3. Pipe(c) = <<>>
    BY <2>2 DEF Pipe
  <2> QED
    BY <2>1, <2>3 DEF Flow, PartOfStream
<1> QED
  BY <1>1, <1>2, <1>3 DEF DInv

\* The strengthened invariant holds throughout.
THEOREM DInductive ==
    Spec => []DInv
<1>1. DInv /\ [Next]_vars => DInv'
  <2> SUFFICES ASSUME DInv, [Next]_vars
               PROVE  DInv'
    OBVIOUS
  <2>1. TypeOK /\ NamesOwned /\ (\A c \in Conn : Bound(c) /\ Flow(c))
    BY DEF DInv
  <2>2. TypeOK'
    BY <2>1, TypeStep
  <2>3. NamesOwned'
    BY <2>1, NamesStep
  <2>4. \A c \in Conn : Bound(c)' /\ Flow(c)'
    BY <2>1, <2>2, BoundStep, FlowStep
  <2> QED
    BY <2>2, <2>3, <2>4 DEF DInv
<1> QED
  BY InitDInv, <1>1, PTL DEF Spec

\* Types, and the bounds of the two send buffers: neither a server nor the
\* relay ever has more data under way than its socket can hold.
THEOREM TypeCorrectness ==
    Spec => []TypeOK
<1>1. DInv => TypeOK
  BY DEF DInv
<1> QED
  BY DInductive, <1>1, PTL

\* The data of a session only ever goes to the connection that asked for it.
THEOREM DownloadsStayApart ==
    Spec => []NoCrossTalk
<1>1. DInv => NoCrossTalk
  <2> SUFFICES ASSUME DInv, NEW c \in Conn
               PROVE  /\ \A k \in DOMAIN host[c] : host[c][k].of = c
                      /\ \A k \in DOMAIN got[c] : got[c][k].of = c
    BY DEF NoCrossTalk
  <2>1. got[c] \in Seq(Unit) /\ host[c] \in Seq(Unit) /\ cloud[c] \in Seq(Unit)
    BY DEF DInv, TypeOK
  <2>2. PartOfStream(got[c] \o host[c] \o cloud[c], c, sent[c], dropped[c])
    BY DEF DInv, Flow, Pipe
  <2> QED
    BY <2>1, <2>2, StreamParts
<1> QED
  BY DInductive, <1>1, PTL

\* What the client has read, followed by what is under way to it, is the
\* server's stream with exactly the dropped units missing.
THEOREM StreamsStayIntact ==
    Spec => []StreamIntact
<1>1. DInv => StreamIntact
  BY DEF DInv, Flow, PartOfStream, StreamIntact
<1> QED
  BY DInductive, <1>1, PTL

\* StartDownloadProcess connects to the server that the client named, and no
\* server sends more than its own MaxBytes.
THEOREM TargetsAreReached ==
    Spec => []ConnectsToTarget
<1>1. DInv => ConnectsToTarget
  BY DEF DInv, Bound, ConnectsToTarget
<1> QED
  BY DInductive, <1>1, PTL
=============================================================================
