--------------------------- MODULE CnrsRefinement ---------------------------
(***************************************************************************)
(* The tree of name resolution servers of module Cnrs implements the       *)
(* abstract NameService, for every set of nodes, names, lists and requests *)
(* and any number of insertions and losses, as long as no two nodes draw   *)
(* the same query id (PoolsDisjoint; the ids are random numbers that each  *)
(* node checks against its own table only).                                *)
(*                                                                         *)
(* The argument follows the one datagram that a query id has: the query on *)
(* its way up or the answer on its way down, never two of them (OneEach).  *)
(* As long as it is under way, the node that drew the id keeps the entry   *)
(* of the call that waits for it, and the datagram carries the name of     *)
(* that call (UpExpected, DownExpected).  So an id is free to be drawn     *)
(* again only when nothing of its former use is left.                      *)
(*                                                                         *)
(* That a waiting call keeps its entry (WaitingCallsHaveEntry) needs more: *)
(* the chain of superiors must not lead back to a node (Hierarchy), since  *)
(* a query that came back to its sender would overwrite the entry.         *)
(***************************************************************************)
EXTENDS CnrsProofs

PoolsDisjoint ==
    \A m, n \in Node : m # n => PoolOf[m] \cap PoolOf[n] = {}

\* In the queues u of queries and d of answers an id occurs at most once.
OneUp(u) ==
    \A m, n \in Node : \A k \in DOMAIN u[m], l \in DOMAIN u[n] :
        /\ u[m][k].method = "QUERY"
        /\ u[n][l].method = "QUERY"
        /\ u[m][k].qid = u[n][l].qid
        => m = n /\ k = l
OneDown(d) ==
    \A m, n \in Node : \A k \in DOMAIN d[m], l \in DOMAIN d[n] :
        d[m][k].qid = d[n][l].qid => m = n /\ k = l
OneWay(u, d) ==
    \A m, n \in Node : \A k \in DOMAIN u[m], l \in DOMAIN d[n] :
        u[m][k].method = "QUERY" => u[m][k].qid # d[n][l].qid
OneEach == OneUp(up) /\ OneDown(down) /\ OneWay(up, down)

\* By the tables c and the calls s, the node that drew id q waits, for name
\* id unless the entry is a relay's.
Expected(c, s, q, id) ==
    \A o \in Node :
        q \in PoolOf[o] =>
            /\ c[o][q] # NoReq
            /\ c[o][q] \in Request => s[c[o][q]].name = id

UpExpected ==
    \A n \in Node : \A k \in DOMAIN up[n] :
        up[n][k].method = "QUERY"
           => Expected(queryCache, asked, up[n][k].qid, up[n][k].name)
DownExpected ==
    \A n \in Node : \A k \in DOMAIN down[n] :
        Expected(queryCache, asked, down[n][k].qid, down[n][k].name)

\* Answers are never empty and never go to the root.
AnswersFull ==
    /\ \A n \in Node : \A k \in DOMAIN down[n] : down[n][k].ifs # NoIfs
    /\ \A n \in Node : IsRoot(n) => down[n] = <<>>

\* An entry of a call is at the node where the call was made, under an id
\* of that node, and below the root the call has not been answered.
EntriesWait ==
    \A n \in Node, q \in QueryId :
        queryCache[n][q] \in Request =>
            /\ q \in PoolOf[n]
            /\ asked[queryCache[n][q]] # NoReq
            /\ asked[queryCache[n][q]].node = n
            /\ IsRoot(n) \/ answers[queryCache[n][q]] = <<>>
OneEntry ==
    \A n \in Node, p, q \in QueryId :
        queryCache[n][p] \in Request /\ queryCache[n][p] = queryCache[n][q]
           => p = q

RInv ==
    /\ OneEach /\ UpExpected /\ DownExpected /\ AnswersFull
    /\ EntriesWait /\ OneEntry /\ AnswersMatchQuestions

-----------------------------------------------------------------------------
(* Moves of datagrams.                                                     *)

\* g are the queues f after the head of queue a was taken and x was put at
\* the end of queue b; NoNode stands for no such queue.
Moved(f, g, a, b, x) ==
    \A n \in Node : \A k \in DOMAIN g[n] :
        \/ n = b /\ k = Len(g[n]) /\ g[n][k] = x
        \/ n = a /\ k + 1 \in DOMAIN f[n] /\ g[n][k] = f[n][k + 1]
        \/ n # a /\ k \in DOMAIN f[n] /\ g[n][k] = f[n][k]

\* Queues that stay as they are.
LEMMA MovedNowhere ==
    ASSUME NEW f, NEW x
    PROVE  Moved(f, f, NoNode, NoNode, x)
  BY NodeAssumption DEF Moved

\* A datagram leaves the head of queue a.
LEMMA MovedOut ==
    ASSUME NEW S, NEW f \in [Node -> Seq(S)], NEW a \in Node, f[a] # <<>>,
           NEW g, g = [f EXCEPT ![a] = Tail(@)], NEW x
    PROVE  Moved(f, g, a, NoNode, x)
<1>1. ASSUME NEW n \in Node
      PROVE  g[n] = IF n = a THEN Tail(f[a]) ELSE f[n]
  OBVIOUS
<1>2. ASSUME NEW k \in DOMAIN Tail(f[a])
      PROVE  k + 1 \in DOMAIN f[a] /\ Tail(f[a])[k] = f[a][k + 1]
  <2>1. f[a] \in Seq(S)
    OBVIOUS
  <2> QED
    BY <2>1
<1> QED
  BY <1>1, <1>2 DEF Moved

\* What stands at a position of a sequence that was appended to.
LEMMA AppendAt ==
    ASSUME NEW S, NEW s \in Seq(S), NEW x \in S, NEW k \in DOMAIN Append(s, x)
    PROVE  \/ k = Len(Append(s, x)) /\ Append(s, x)[k] = x
           \/ k \in DOMAIN s /\ Append(s, x)[k] = s[k]
  OBVIOUS

\* A datagram enters queue b.
LEMMA MovedIn ==
    ASSUME NEW S, NEW f \in [Node -> Seq(S)], NEW b \in Node, NEW x \in S,
           NEW g, g = [f EXCEPT ![b] = Append(@, x)]
    PROVE  Moved(f, g, NoNode, b, x)
<1>1. ASSUME NEW n \in Node
      PROVE  g[n] = IF n = b THEN Append(f[b], x) ELSE f[n]
  OBVIOUS
<1>2. f[b] \in Seq(S)
  OBVIOUS
<1>3. ASSUME NEW k \in DOMAIN Append(f[b], x)
      PROVE  \/ k = Len(Append(f[b], x)) /\ Append(f[b], x)[k] = x
             \/ k \in DOMAIN f[b] /\ Append(f[b], x)[k] = f[b][k]
  BY <1>2, <1>3, AppendAt
<1> QED
  BY <1>1, <1>3, NodeAssumption DEF Moved

\* A datagram leaves queue a and another one enters queue b.
LEMMA MovedOn ==
    ASSUME NEW S, NEW f \in [Node -> Seq(S)], NEW a \in Node, f[a] # <<>>,
           NEW b \in Node, a # b, NEW x \in S,
           NEW g, g = [f EXCEPT ![a] = Tail(@), ![b] = Append(@, x)]
    PROVE  Moved(f, g, a, b, x)
<1>1. ASSUME NEW n \in Node
      PROVE  g[n] = IF n = a THEN Tail(f[a])
                    ELSE IF n = b THEN Append(f[b], x) ELSE f[n]
  OBVIOUS
<1>2. f[a] \in Seq(S) /\ f[b] \in Seq(S)
  OBVIOUS
<1>3. ASSUME NEW k \in DOMAIN Tail(f[a])
      PROVE  k + 1 \in DOMAIN f[a] /\ Tail(f[a])[k] = f[a][k + 1]
  BY <1>2
<1>4. ASSUME NEW k \in DOMAIN Append(f[b], x)
      PROVE  \/ k = Len(Append(f[b], x)) /\ Append(f[b], x)[k] = x
             \/ k \in DOMAIN f[b] /\ Append(f[b], x)[k] = f[b][k]
  BY <1>2, <1>4, AppendAt
<1> QED
  BY <1>1, <1>3, <1>4, NodeAssumption DEF Moved

\* The datagrams of id q are at most the head of queue a.
UpOnlyHead(u, a, q) ==
    \A n \in Node : \A k \in DOMAIN u[n] :
        u[n][k].method = "QUERY" /\ u[n][k].qid = q => n = a /\ k = 1
DownOnlyHead(d, a, q) ==
    \A n \in Node : \A k \in DOMAIN d[n] : d[n][k].qid = q => n = a /\ k = 1

\* A query that is sent is the only one of its id if it replaces the others.
LEMMA OneUpKept ==
    ASSUME NEW S, NEW u, NEW v \in [Node -> Seq(S)], NEW a, NEW b, NEW x,
           OneUp(u), Moved(u, v, a, b, x),
           b \in Node /\ x.method = "QUERY" => UpOnlyHead(u, a, x.qid)
    PROVE  OneUp(v)
<1> SUFFICES ASSUME NEW m \in Node, NEW n \in Node,
                    NEW k \in DOMAIN v[m], NEW l \in DOMAIN v[n],
                    v[m][k].method = "QUERY", v[n][l].method = "QUERY",
                    v[m][k].qid = v[n][l].qid
             PROVE  m = n /\ k = l
  BY DEF OneUp
<1>1. k \in Nat /\ k >= 1 /\ l \in Nat /\ l >= 1
  <2>1. v[m] \in Seq(S) /\ v[n] \in Seq(S)
    OBVIOUS
  <2> QED
    BY <2>1
<1>2. \/ m = b /\ k = Len(v[m]) /\ v[m][k] = x
      \/ m = a /\ k + 1 \in DOMAIN u[m] /\ v[m][k] = u[m][k + 1]
      \/ m # a /\ k \in DOMAIN u[m] /\ v[m][k] = u[m][k]
  BY DEF Moved
<1>3. \/ n = b /\ l = Len(v[n]) /\ v[n][l] = x
      \/ n = a /\ l + 1 \in DOMAIN u[n] /\ v[n][l] = u[n][l + 1]
      \/ n # a /\ l \in DOMAIN u[n] /\ v[n][l] = u[n][l]
  BY DEF Moved
<1>4. CASE m = b /\ k = Len(v[m]) /\ v[m][k] = x
  BY <1>1, <1>3, <1>4 DEF UpOnlyHead
<1>5. CASE n = b /\ l = Len(v[n]) /\ v[n][l] = x
  BY <1>1, <1>2, <1>5 DEF UpOnlyHead
<1>6. CASE /\ ~(m = b /\ k = Len(v[m]) /\ v[m][k] = x)
           /\ ~(n = b /\ l = Len(v[n]) /\ v[n][l] = x)
  BY <1>1, <1>2, <1>3, <1>6 DEF OneUp
<1> QED
  BY <1>4, <1>5, <1>6

\* A move keeps the ids of the answers apart when the id that enters is not
\* under way already.
LEMMA OneDownKept ==
    ASSUME NEW S, NEW d, NEW e \in [Node -> Seq(S)], NEW a, NEW b, NEW x,
           OneDown(d), Moved(d, e, a, b, x),
           b \in Node => DownOnlyHead(d, a, x.qid)
    PROVE  OneDown(e)
<1> SUFFICES ASSUME NEW m \in Node, NEW n \in Node,
                    NEW k \in DOMAIN e[m], NEW l \in DOMAIN e[n],
                    e[m][k].qid = e[n][l].qid
             PROVE  m = n /\ k = l
  BY DEF OneDown
<1>1. k \in Nat /\ k >= 1 /\ l \in Nat /\ l >= 1
  <2>1. e[m] \in Seq(S) /\ e[n] \in Seq(S)
    OBVIOUS
  <2> QED
    BY <2>1
<1>2. \/ m = b /\ k = Len(e[m]) /\ e[m][k] = x
      \/ m = a /\ k + 1 \in DOMAIN d[m] /\ e[m][k] = d[m][k + 1]
      \/ m # a /\ k \in DOMAIN d[m] /\ e[m][k] = d[m][k]
  BY DEF Moved
<1>3. \/ n = b /\ l = Len(e[n]) /\ e[n][l] = x
      \/ n = a /\ l + 1 \in DOMAIN d[n] /\ e[n][l] = d[n][l + 1]
      \/ n # a /\ l \in DOMAIN d[n] /\ e[n][l] = d[n][l]
  BY DEF Moved
<1>4. CASE m = b /\ k = Len(e[m]) /\ e[m][k] = x
  BY <1>1, <1>3, <1>4 DEF DownOnlyHead
<1>5. CASE n = b /\ l = Len(e[n]) /\ e[n][l] = x
  <2>1. DownOnlyHead(d, a, x.qid) /\ e[m][k].qid = x.qid
    BY <1>5
  <2> QED
    BY <1>1, <1>2, <1>5, <2>1 DEF DownOnlyHead
<1>6. CASE /\ ~(m = b /\ k = Len(e[m]) /\ e[m][k] = x)
           /\ ~(n = b /\ l = Len(e[n]) /\ e[n][l] = x)
  BY <1>1, <1>2, <1>3, <1>6 DEF OneDown
<1> QED
  BY <1>4, <1>5, <1>6

\* A query that is sent meets no answer of its id, and an answer no query.
LEMMA OneWayKept ==
    ASSUME NEW S, NEW u, NEW v \in [Node -> Seq(S)], NEW a, NEW b, NEW x,
           NEW T, NEW d, NEW e \in [Node -> Seq(T)], NEW c, NEW f, NEW y,
           OneWay(u, d), Moved(u, v, a, b, x), Moved(d, e, c, f, y),
           b \in Node /\ x.method = "QUERY" => DownOnlyHead(d, c, x.qid),
           f \in Node => UpOnlyHead(u, a, y.qid),
           b = NoNode \/ x.method # "QUERY" \/ f = NoNode
    PROVE  OneWay(v, e)
<1> SUFFICES ASSUME NEW m \in Node, NEW n \in Node,
                    NEW k \in DOMAIN v[m], NEW l \in DOMAIN e[n],
                    v[m][k].method = "QUERY", v[m][k].qid = e[n][l].qid
             PROVE  FALSE
  BY DEF OneWay
<1>1. k \in Nat /\ k >= 1 /\ l \in Nat /\ l >= 1
  <2>1. v[m] \in Seq(S) /\ e[n] \in Seq(T)
    OBVIOUS
  <2> QED
    BY <2>1
<1>2. \/ m = b /\ k = Len(v[m]) /\ v[m][k] = x
      \/ m = a /\ k + 1 \in DOMAIN u[m] /\ v[m][k] = u[m][k + 1]
      \/ m # a /\ k \in DOMAIN u[m] /\ v[m][k] = u[m][k]
  BY DEF Moved
<1>3. \/ n = f /\ l = Len(e[n]) /\ e[n][l] = y
      \/ n = c /\ l + 1 \in DOMAIN d[n] /\ e[n][l] = d[n][l + 1]
      \/ n # c /\ l \in DOMAIN d[n] /\ e[n][l] = d[n][l]
  BY DEF Moved
<1>4. CASE m = b /\ k = Len(v[m]) /\ v[m][k] = x
  BY <1>1, <1>3, <1>4, NodeAssumption DEF DownOnlyHead
<1>5. CASE n = f /\ l = Len(e[n]) /\ e[n][l] = y
  <2>1. UpOnlyHead(u, a, y.qid) /\ f # NoNode
    BY <1>5, NodeAssumption
  <2>2. ~(m = b /\ v[m][k] = x)
    BY <2>1, NodeAssumption
  <2>3. v[m][k].qid = y.qid
    BY <1>5
  <2>4. \A j \in DOMAIN u[m] : u[m][j].method = "QUERY" /\ u[m][j].qid = y.qid
                                 => m = a /\ j = 1
    BY <2>1 DEF UpOnlyHead
  <2>5. CASE m = a /\ k + 1 \in DOMAIN u[m] /\ v[m][k] = u[m][k + 1]
    BY <1>1, <2>3, <2>4, <2>5
  <2>6. CASE m # a /\ k \in DOMAIN u[m] /\ v[m][k] = u[m][k]
    BY <2>3, <2>4, <2>6
  <2> QED
    BY <1>2, <2>2, <2>5, <2>6
<1>6. CASE /\ ~(m = b /\ k = Len(v[m]) /\ v[m][k] = x)
           /\ ~(n = f /\ l = Len(e[n]) /\ e[n][l] = y)
  BY <1>1, <1>2, <1>3, <1>6 DEF OneWay
<1> QED
  BY <1>4, <1>5, <1>6

\* A query at the head of a queue is the only datagram of its id,
LEMMA QueryAlone ==
    ASSUME TypeOK, OneEach, NEW c \in Node, up[c] # <<>>,
           Head(up[c]).method = "QUERY", NEW a
    PROVE  /\ UpOnlyHead(up, c, Head(up[c]).qid)
           /\ DownOnlyHead(down, a, Head(up[c]).qid)
<1>1. 1 \in DOMAIN up[c] /\ Head(up[c]) = up[c][1]
  BY Delivered DEF TypeOK
<1> QED
  BY <1>1 DEF OneEach, OneUp, OneWay, UpOnlyHead, DownOnlyHead

\* and so is an answer.
LEMMA AnswerAlone ==
    ASSUME TypeOK, OneEach, NEW n \in Node, down[n] # <<>>, NEW a
    PROVE  /\ UpOnlyHead(up, a, Head(down[n]).qid)
           /\ DownOnlyHead(down, n, Head(down[n]).qid)
<1>1. 1 \in DOMAIN down[n] /\ Head(down[n]) = down[n][1]
  BY Delivered DEF TypeOK
<1> QED
  BY <1>1 DEF OneEach, OneDown, OneWay, UpOnlyHead, DownOnlyHead

-----------------------------------------------------------------------------
(* What the moves keep.                                                    *)

\* The datagrams under way are expected if those that stay where they are
\* and the one that is sent are.
LEMMA UpExpectedKept ==
    ASSUME TypeOK', NEW a, NEW b, NEW x, Moved(up, up', a, b, x),
           b \in Node /\ x.method = "QUERY"
              => Expected(queryCache', asked', x.qid, x.name),
           \A n \in Node : \A k \in DOMAIN up[n] :
              up[n][k].method = "QUERY" /\ ~(n = a /\ k = 1)
                 => Expected(queryCache', asked', up[n][k].qid, up[n][k].name)
    PROVE  UpExpected'
<1> SUFFICES ASSUME NEW n \in Node, NEW k \in DOMAIN up'[n],
                    up'[n][k].method = "QUERY"
             PROVE  Expected(queryCache', asked', up'[n][k].qid, up'[n][k].name)
  BY DEF UpExpected
<1>1. k \in Nat /\ k >= 1
  <2>1. up'[n] \in Seq(RequestMsg)
    BY DEF TypeOK
  <2> QED
    BY <2>1
<1>2. CASE n = b /\ k = Len(up'[n]) /\ up'[n][k] = x
  BY <1>2
<1>3. CASE n = a /\ k + 1 \in DOMAIN up[n] /\ up'[n][k] = up[n][k + 1]
  BY <1>1, <1>3
<1>4. CASE n # a /\ k \in DOMAIN up[n] /\ up'[n][k] = up[n][k]
  BY <1>4
<1> QED
  BY <1>2, <1>3, <1>4 DEF Moved

\* Answers stay expected across a move, but for the one that leaves.
LEMMA DownExpectedKept ==
    ASSUME TypeOK', NEW a, NEW b, NEW x, Moved(down, down', a, b, x),
           b \in Node => Expected(queryCache', asked', x.qid, x.name),
           \A n \in Node : \A k \in DOMAIN down[n] :
              ~(n = a /\ k = 1)
                 => Expected(queryCache', asked', down[n][k].qid,
                             down[n][k].name)
    PROVE  DownExpected'
<1> SUFFICES ASSUME NEW n \in Node, NEW k \in DOMAIN down'[n]
             PROVE  Expected(queryCache', asked', down'[n][k].qid,
                             down'[n][k].name)
  BY DEF DownExpected
<1>1. k \in Nat /\ k >= 1
  <2>1. down'[n] \in Seq(ResponseMsg)
    BY DEF TypeOK
  <2> QED
    BY <2>1
<1>2. CASE n = b /\ k = Len(down'[n]) /\ down'[n][k] = x
  BY <1>2
<1>3. CASE n = a /\ k + 1 \in DOMAIN down[n] /\ down'[n][k] = down[n][k + 1]
  BY <1>1, <1>3
<1>4. CASE n # a /\ k \in DOMAIN down[n] /\ down'[n][k] = down[n][k]
  BY <1>4
<1> QED
  BY <1>2, <1>3, <1>4 DEF Moved

\* An answer that is sent has interfaces and an inferior to go to.
LEMMA AnswersFullKept ==
    ASSUME TypeOK', AnswersFull, NEW a, NEW b, NEW x,
           Moved(down, down', a, b, x),
           b \in Node => x.ifs # NoIfs /\ ~IsRoot(b)
    PROVE  AnswersFull'
<1>1. ASSUME NEW n \in Node, NEW k \in DOMAIN down'[n]
      PROVE  /\ down'[n][k].ifs # NoIfs
             /\ ~IsRoot(n)
  <2>1. CASE n = b /\ k = Len(down'[n]) /\ down'[n][k] = x
    BY <2>1
  <2>2. CASE n = a /\ k + 1 \in DOMAIN down[n] /\ down'[n][k] = down[n][k + 1]
    BY <2>2 DEF AnswersFull
  <2>3. CASE n # a /\ k \in DOMAIN down[n] /\ down'[n][k] = down[n][k]
    BY <2>3 DEF AnswersFull
  <2> QED
    BY <1>1, <2>1, <2>2, <2>3 DEF Moved
<1>2. ASSUME NEW n \in Node, IsRoot(n)
      PROVE  down'[n] = <<>>
  <2>1. down'[n] \in Seq(ResponseMsg)
    BY DEF TypeOK
  <2>2. ~(\E k \in DOMAIN down'[n] : TRUE)
    BY <1>1, <1>2
  <2> QED
    BY <2>1, <2>2
<1> QED
  BY <1>1, <1>2 DEF AnswersFull, IsRoot

\* One datagram for each id, after a step that sends at most one.
LEMMA OneEachKept ==
    ASSUME TypeOK', OneEach,
           NEW a, NEW b, NEW x, Moved(up, up', a, b, x),
           NEW c, NEW d, NEW y, Moved(down, down', c, d, y),
           b \in Node /\ x.method = "QUERY"
              => UpOnlyHead(up, a, x.qid) /\ DownOnlyHead(down, c, x.qid),
           d \in Node
              => UpOnlyHead(up, a, y.qid) /\ DownOnlyHead(down, c, y.qid),
           b = NoNode \/ x.method # "QUERY" \/ d = NoNode
    PROVE  OneEach'
<1>1. up' \in [Node -> Seq(RequestMsg)] /\ down' \in [Node -> Seq(ResponseMsg)]
  BY DEF TypeOK
<1>2. OneUp(up) /\ OneDown(down) /\ OneWay(up, down)
  BY DEF OneEach
<1>3. OneUp(up')
  BY <1>1, <1>2, OneUpKept
<1>4. OneDown(down')
  BY <1>1, <1>2, OneDownKept
<1>5. OneWay(up', down')
  BY <1>1, <1>2, OneWayKept
<1> QED
  BY <1>3, <1>4, <1>5 DEF OneEach, OneUp, OneDown, OneWay

\* A sequence without positions is empty.
LEMMA EmptySeq ==
    ASSUME NEW S, NEW s \in Seq(S), ~(\E k \in DOMAIN s : TRUE)
    PROVE  s = <<>>
<1>1. Len(s) \in Nat /\ DOMAIN s = 1..Len(s)
  OBVIOUS
<1>2. Len(s) = 0
  <2>1. 1 \notin 1..Len(s)
    BY <1>1
  <2> QED
    BY <1>1, <2>1
<1> QED
  BY <1>2

-----------------------------------------------------------------------------
(* The steps.                                                              *)

\* Steps that neither send a query or an answer nor touch a table or a call:
\* insertions, reports and losses.
LEMMA QuietStep ==
    ASSUME TypeOK', RInv, UNCHANGED <<queryCache, asked, answers>>,
           NEW a, NEW b, NEW x, Moved(up, up', a, b, x),
           b \in Node => x.method # "QUERY",
           NEW c, Moved(down, down', c, NoNode, x)
    PROVE  RInv'
<1>1. NoNode \notin Node
  BY NodeAssumption
<1>2. OneEach'
  <2>1. b = NoNode \/ x.method # "QUERY" \/ NoNode = NoNode
    OBVIOUS
  <2>2. OneEach
    BY DEF RInv
  <2> QED
    BY <1>1, <2>1, <2>2, OneEachKept
<1>3. UpExpected'
  <2>1. \A n \in Node : \A k \in DOMAIN up[n] :
           up[n][k].method = "QUERY"
              => Expected(queryCache', asked', up[n][k].qid, up[n][k].name)
    BY DEF RInv, UpExpected
  <2> QED
    BY <2>1, UpExpectedKept
<1>4. DownExpected'
  <2>1. \A n \in Node : \A k \in DOMAIN down[n] :
           Expected(queryCache', asked', down[n][k].qid, down[n][k].name)
    BY DEF RInv, DownExpected
  <2> QED
    BY <1>1, <2>1, DownExpectedKept
<1>5. AnswersFull'
  BY <1>1, AnswersFullKept DEF RInv
<1>6. EntriesWait' /\ OneEntry' /\ AnswersMatchQuestions'
  BY DEF RInv, EntriesWait, OneEntry, AnswersMatchQuestions, IsRoot
<1> QED
  BY <1>2, <1>3, <1>4, <1>5, <1>6 DEF RInv

\* A call is answered for the first time, with its own name.
LEMMA AnsweredOnce ==
    ASSUME AnswersMatchQuestions, NEW r \in Request, asked'[r] # NoReq,
           \A s \in Request : s # r => /\ answers'[s] = answers[s]
                                      /\ asked'[s] = asked[s],
           Len(answers'[r]) <= 1,
           \A k \in DOMAIN answers'[r] : answers'[r][k].name = asked'[r].name
    PROVE  AnswersMatchQuestions'
<1>1. ASSUME NEW s \in Request
      PROVE  /\ Len(answers'[s]) <= 1
             /\ \A k \in DOMAIN answers'[s] :
                   asked'[s] # NoReq /\ answers'[s][k].name = asked'[s].name
  <2>1. CASE s = r
    BY <2>1
  <2>2. CASE s # r
    BY <2>2 DEF AnswersMatchQuestions
  <2> QED
    BY <2>1, <2>2
<1> QED
  BY <1>1 DEF AnswersMatchQuestions

\* A call of GetCybertwinInterfaceByName.  An id that is free in the node's
\* table has no datagram left anywhere.
LEMMA GetStep ==
    ASSUME PoolsDisjoint, TypeOK, TypeOK', RInv, NEW n \in Node, NEW id \in Name,
           NEW r \in Request, GetCybertwinInterfaceByName(r, n, id)
    PROVE  RInv'
<1>1. /\ asked[r] = NoReq
      /\ asked' = [asked EXCEPT ![r] = [node |-> n, name |-> id]]
      /\ UNCHANGED down
  BY DEF GetCybertwinInterfaceByName
<1>2. /\ asked'[r] = [node |-> n, name |-> id]
      /\ asked'[r].name = id
      /\ \A s \in Request : s # r => asked'[s] = asked[s]
  BY <1>1 DEF TypeOK
<1>3. answers[r] = <<>>
  <2>1. answers[r] \in Seq(Answer)
    BY DEF TypeOK
  <2>2. ~(\E k \in DOMAIN answers[r] : TRUE)
    BY <1>1 DEF RInv, AnswersMatchQuestions
  <2> QED
    BY <2>1, <2>2, EmptySeq
<1>4. \A o \in Node, q \in QueryId : queryCache[o][q] # r
  BY <1>1 DEF RInv, EntriesWait
<1>5. asked'[r] # NoReq
  BY <1>2, RequestAssumption
<1>6. ASSUME NEW q, NEW x, Expected(queryCache, asked, q, x),
             \A o \in Node : q \in PoolOf[o] =>
                \/ queryCache[o][q] = NoReq
                \/ queryCache'[o][q] = queryCache[o][q]
      PROVE  Expected(queryCache', asked', q, x)
  BY <1>2, <1>4, <1>6, PoolAssumption DEF Expected
<1>7. CASE itemCache[n][id] # NoIfs
  <2>1. /\ Inform(r, id, itemCache[n][id])
        /\ UNCHANGED <<queryCache, up>>
    BY <1>7 DEF GetCybertwinInterfaceByName
  <2>2. /\ answers'[r] = Append(<<>>, [name |-> id, ifs |-> itemCache[n][id]])
        /\ \A s \in Request : s # r => answers'[s] = answers[s]
    BY <1>3, <2>1 DEF Inform, TypeOK
  <2>3. Len(answers'[r]) <= 1 /\ \A k \in DOMAIN answers'[r] :
                                   answers'[r][k].name = id
    BY <2>2
  <2>4. AnswersMatchQuestions'
    BY <1>2, <1>5, <2>2, <2>3, AnsweredOnce DEF RInv
  <2>5. EntriesWait' /\ OneEntry'
    BY <1>2, <1>4, <2>1, <2>2 DEF RInv, EntriesWait, OneEntry, IsRoot
  <2>6. UpExpected' /\ DownExpected'
    BY <1>1, <1>6, <2>1 DEF RInv, UpExpected, DownExpected
  <2> QED
    BY <1>1, <2>1, <2>4, <2>5, <2>6 DEF RInv, OneEach, OneUp, OneDown, OneWay,
        AnswersFull, IsRoot
<1>8. CASE itemCache[n][id] = NoIfs
  <2>1. PICK q \in PoolOf[n] :
           /\ queryCache[n][q] = NoReq
           /\ queryCache' = [queryCache EXCEPT ![n][q] = r]
           /\ IF IsRoot(n)
              THEN Inform(r, id, NoIfs) /\ UNCHANGED up
              ELSE /\ up' = [up EXCEPT ![n] = Append(@, Query(id, q))]
                   /\ UNCHANGED answers
    BY <1>8 DEF GetCybertwinInterfaceByName
  <2>2. q \in QueryId
    BY PoolAssumption
  <2>3. \A o \in Node, p \in QueryId :
           queryCache'[o][p] = IF o = n /\ p = q THEN r ELSE queryCache[o][p]
    <3>1. queryCache' = [queryCache EXCEPT ![n][q] = r]
      BY <2>1
    <3> QED
      BY <2>2, <3>1 DEF TypeOK
  <2>4. ASSUME NEW p, NEW x, Expected(queryCache, asked, p, x)
        PROVE  Expected(queryCache', asked', p, x) /\ p # q
    <3>1. p # q
      BY <2>1, <2>4 DEF Expected
    <3> QED
      BY <1>6, <2>3, <2>4, <3>1, PoolAssumption
  <2>5. OneEntry'
    BY <1>4, <2>3 DEF RInv, OneEntry
  <2>6. DownExpected' /\ AnswersFull'
    BY <1>1, <2>4 DEF RInv, DownExpected, AnswersFull, IsRoot
  <2>7. CASE IsRoot(n)
    <3>1. Inform(r, id, NoIfs) /\ UNCHANGED up
      BY <2>1, <2>7
    <3>2. /\ answers'[r] = Append(<<>>, [name |-> id, ifs |-> NoIfs])
          /\ \A s \in Request : s # r => answers'[s] = answers[s]
      BY <1>3, <3>1 DEF Inform, TypeOK
    <3>3. Len(answers'[r]) <= 1 /\ \A k \in DOMAIN answers'[r] :
                                     answers'[r][k].name = id
      BY <3>2
    <3>4. AnswersMatchQuestions'
      BY <1>2, <1>5, <3>2, <3>3, AnsweredOnce DEF RInv
    <3>5. EntriesWait'
      BY <1>2, <1>4, <1>5, <2>3, <2>7, <3>2 DEF RInv, EntriesWait, IsRoot
    <3>6. UpExpected'
      BY <2>4, <3>1 DEF RInv, UpExpected
    <3> QED
      BY <1>1, <2>5, <2>6, <3>1, <3>4, <3>5, <3>6 DEF RInv, OneEach, OneUp,
          OneDown, OneWay
  <2>8. CASE ~IsRoot(n)
    <3>1. /\ up' = [up EXCEPT ![n] = Append(@, Query(id, q))]
          /\ UNCHANGED answers
      BY <2>1, <2>8
    <3> DEFINE x == Query(id, q)
    <3>2. x \in RequestMsg /\ x.method = "QUERY" /\ x.qid = q /\ x.name = id
      BY <2>2, MessagesTyped DEF Query
    <3>3. up \in [Node -> Seq(RequestMsg)]
      BY DEF TypeOK
    <3> HIDE DEF x
    <3>4. Moved(up, up', NoNode, n, x)
      BY <3>1, <3>2, <3>3, MovedIn DEF x
    <3>5. Moved(down, down', NoNode, NoNode, x)
      BY <1>1, MovedNowhere
    <3>6. UpOnlyHead(up, NoNode, q) /\ DownOnlyHead(down, NoNode, q)
      BY <2>4 DEF RInv, UpExpected, DownExpected, UpOnlyHead, DownOnlyHead
    <3>7. OneEach'
      <4>1. NoNode \notin Node /\ OneEach
        BY NodeAssumption DEF RInv
      <4> QED
        BY <3>2, <3>4, <3>5, <3>6, <4>1, OneEachKept
    <3>8. Expected(queryCache', asked', q, id)
      BY <1>2, <2>3, PoolAssumption, RequestAssumption
         DEF Expected, PoolsDisjoint
    <3>9. UpExpected'
      <4>1. \A o \in Node : \A k \in DOMAIN up[o] :
               up[o][k].method = "QUERY"
                 => Expected(queryCache', asked', up[o][k].qid, up[o][k].name)
        BY <2>4 DEF RInv, UpExpected
      <4> QED
        BY <3>2, <3>4, <3>8, <4>1, UpExpectedKept
    <3>10. EntriesWait'
      BY <1>2, <1>3, <1>4, <1>5, <2>3, <3>1 DEF RInv, EntriesWait, IsRoot
    <3>11. AnswersMatchQuestions'
      BY <1>2, <1>3, <1>5, <3>1 DEF RInv, AnswersMatchQuestions
    <3> QED
      BY <2>5, <2>6, <3>7, <3>9, <3>10, <3>11 DEF RInv
  <2> QED
    BY <2>7, <2>8
<1> QED
  BY <1>7, <1>8

\* A query of node c at its superior: the only datagram of its id is replaced
\* by the answer or by the query that is passed on.
LEMMA ProcessQueryStep ==
    ASSUME TypeOK, TypeOK', RootSilent, RInv, NEW c \in Node, ProcessQuery(c)
    PROVE  RInv'
<1> DEFINE n == Superior[c]
           m == Head(up[c])
           id == m.name
           q == m.qid
<1>1. /\ up[c] # <<>> /\ m.method = "QUERY"
      /\ UNCHANGED <<itemCache, asked, answers>>
  BY DEF ProcessQuery, appVars
<1>2. m \in RequestMsg /\ 1 \in DOMAIN up[c] /\ m = up[c][1]
  BY <1>1, Delivered DEF TypeOK
<1>3. id \in Name /\ q \in QueryId
  BY <1>1, <1>2, RequestFields
<1>4. n \in Node /\ n # c /\ ~IsRoot(c) /\ NoNode \notin Node
  BY <1>1, Addressed, NodeAssumption
<1>5. Expected(queryCache, asked, q, id)
  BY <1>1, <1>2 DEF RInv, UpExpected
<1>6. UpOnlyHead(up, c, q) /\ DownOnlyHead(down, NoNode, q)
  BY <1>1, QueryAlone DEF RInv
<1>7. up \in [Node -> Seq(RequestMsg)] /\ down \in [Node -> Seq(ResponseMsg)]
  BY DEF TypeOK
<1>8. CASE itemCache[n][id] # NoIfs
  <2> DEFINE x == Response(id, q, itemCache[n][id])
  <2>1. /\ down' = [down EXCEPT ![c] = Append(@, x)]
        /\ up' = [up EXCEPT ![c] = Tail(@)]
        /\ UNCHANGED queryCache
    BY <1>8 DEF ProcessQuery
  <2>2. x \in ResponseMsg /\ x.name = id /\ x.qid = q /\ x.ifs # NoIfs
    <3>1. itemCache[n][id] \in Ifs \cup {NoIfs}
      BY <1>3, <1>4 DEF TypeOK
    <3> QED
      BY <1>3, <1>8, <3>1, MessagesTyped DEF Response
  <2> HIDE DEF x, n, m
  <2>3. Moved(up, up', c, NoNode, x) /\ Moved(down, down', NoNode, c, x)
    BY <1>1, <1>7, <2>1, <2>2, MovedOut, MovedIn
  <2>4. OneEach'
    BY <1>4, <1>6, <2>2, <2>3, OneEachKept DEF RInv
  <2>5. UpExpected'
    <3>1. \A o \in Node : \A k \in DOMAIN up[o] :
             up[o][k].method = "QUERY"
               => Expected(queryCache', asked', up[o][k].qid, up[o][k].name)
      BY <1>1, <2>1 DEF RInv, UpExpected
    <3> QED
      BY <1>4, <2>3, <3>1, UpExpectedKept
  <2>6. DownExpected'
    <3>1. \A o \in Node : \A k \in DOMAIN down[o] :
             Expected(queryCache', asked', down[o][k].qid, down[o][k].name)
      BY <1>1, <2>1 DEF RInv, DownExpected
    <3>2. Expected(queryCache', asked', x.qid, x.name)
      BY <1>1, <1>5, <2>1, <2>2
    <3> QED
      BY <2>3, <3>1, <3>2, DownExpectedKept
  <2>7. AnswersFull'
    BY <1>4, <2>2, <2>3, AnswersFullKept DEF RInv
  <2>8. EntriesWait' /\ OneEntry' /\ AnswersMatchQuestions'
    BY <1>1, <2>1 DEF RInv, EntriesWait, OneEntry, AnswersMatchQuestions, IsRoot
  <2> QED
    BY <2>4, <2>5, <2>6, <2>7, <2>8 DEF RInv
<1>9. CASE itemCache[n][id] = NoIfs
  <2> DEFINE x == Query(id, q)
  <2>1. /\ queryCache' = [queryCache EXCEPT ![n][q] = Relay]
        /\ up' = IF IsRoot(n) THEN [up EXCEPT ![c] = Tail(@)]
                 ELSE [up EXCEPT ![c] = Tail(@), ![n] = Append(@, x)]
        /\ UNCHANGED down
    BY <1>9 DEF ProcessQuery
  <2>2. x \in RequestMsg /\ x.method = "QUERY" /\ x.name = id /\ x.qid = q
    BY <1>3, MessagesTyped DEF Query
  <2>3. \A o \in Node, p \in QueryId :
           queryCache'[o][p] = IF o = n /\ p = q THEN Relay ELSE queryCache[o][p]
    <3>1. queryCache' = [queryCache EXCEPT ![n][q] = Relay]
      BY <2>1
    <3> HIDE DEF n, q
    <3> QED
      BY <1>3, <1>4, <3>1 DEF TypeOK
  <2> HIDE DEF x, n, m
  <2>4. Moved(down, down', NoNode, NoNode, x)
    BY <2>1, MovedNowhere
  <2>5. PICK b \in {NoNode, n} : Moved(up, up', c, b, x)
    <3>1. CASE IsRoot(n)
      <4>1. up' = [up EXCEPT ![c] = Tail(@)]
        BY <2>1, <3>1
      <4> QED
        BY <1>1, <1>7, <4>1, MovedOut
    <3>2. CASE ~IsRoot(n)
      <4>1. up' = [up EXCEPT ![c] = Tail(@), ![n] = Append(@, x)]
        BY <2>1, <3>2
      <4> QED
        BY <1>1, <1>4, <1>7, <2>2, <4>1, MovedOn
    <3> QED
      BY <3>1, <3>2
  <2>6. ASSUME NEW p, NEW y, Expected(queryCache, asked, p, y)
        PROVE  Expected(queryCache', asked', p, y)
    BY <1>1, <2>3, <2>6, PoolAssumption, RequestAssumption DEF Expected
  <2>7. OneEach'
    BY <1>4, <1>6, <2>2, <2>4, <2>5, OneEachKept DEF RInv
  <2>8. UpExpected'
    <3>1. \A o \in Node : \A k \in DOMAIN up[o] :
             up[o][k].method = "QUERY"
               => Expected(queryCache', asked', up[o][k].qid, up[o][k].name)
      BY <2>6 DEF RInv, UpExpected
    <3>2. Expected(queryCache', asked', x.qid, x.name)
      BY <1>5, <2>2, <2>6
    <3> QED
      BY <2>5, <3>1, <3>2, UpExpectedKept
  <2>9. DownExpected' /\ AnswersFull'
    BY <2>1, <2>6 DEF RInv, DownExpected, AnswersFull, IsRoot
  <2>10. EntriesWait' /\ OneEntry' /\ AnswersMatchQuestions'
    BY <1>1, <2>3, RequestAssumption DEF RInv, EntriesWait, OneEntry,
        AnswersMatchQuestions, IsRoot
  <2> QED
    BY <2>7, <2>8, <2>9, <2>10 DEF RInv
<1> QED
  BY <1>8, <1>9

\* An answer arrives at n: it is passed down, or the call that waits for its
\* id at n, if there is one, is told.
LEMMA ResponseStep ==
    ASSUME PoolsDisjoint, TypeOK, TypeOK', ClientsBelow, RInv,
           NEW n \in Node, QueryResponseHandler(n)
    PROVE  RInv'
<1> DEFINE m == Head(down[n])
           q == m.qid
           client == queryClientCache[n][q]
           waiter == queryCache[n][q]
<1>1. down[n] # <<>> /\ UNCHANGED <<up, asked>>
  BY DEF QueryResponseHandler
<1>2. m \in ResponseMsg /\ 1 \in DOMAIN down[n] /\ m = down[n][1]
  BY <1>1, Delivered DEF TypeOK
<1>3. m.name \in Name /\ q \in QueryId /\ m.ifs \in Ifs \cup {NoIfs}
  BY <1>2 DEF ResponseMsg
<1>4. m.ifs # NoIfs /\ ~IsRoot(n)
  BY <1>1, <1>2 DEF RInv, AnswersFull
<1>5. Expected(queryCache, asked, q, m.name)
  BY <1>2 DEF RInv, DownExpected
<1>6. UpOnlyHead(up, NoNode, q) /\ DownOnlyHead(down, n, q)
  BY <1>1, AnswerAlone DEF RInv
<1>7. down \in [Node -> Seq(ResponseMsg)] /\ NoNode \notin Node
  BY NodeAssumption DEF TypeOK
<1>8. client \in Node \cup {NoNode}
  BY <1>3 DEF TypeOK
<1>9. Moved(up, up', NoNode, NoNode, m)
  BY <1>1, MovedNowhere
<1>10. CASE client # NoNode
  <2>1. /\ down' = [down EXCEPT ![n] = Tail(@), ![client] = Append(@, m)]
        /\ UNCHANGED <<queryCache, answers>>
    BY <1>10 DEF QueryResponseHandler
  <2>2. client \in Node /\ Superior[client] = n
    BY <1>3, <1>8, <1>10 DEF ClientsBelow
  <2>3. client # n /\ ~IsRoot(client)
    BY <2>2, NodeAssumption DEF IsRoot
  <2> HIDE DEF client, m
  <2>4. Moved(down, down', n, client, m)
    BY <1>1, <1>2, <1>7, <2>1, <2>2, <2>3, MovedOn
  <2>5. OneEach'
    BY <1>6, <1>7, <1>9, <2>4, OneEachKept DEF RInv
  <2>6. UpExpected'
    BY <1>1, <2>1 DEF RInv, UpExpected
  <2>7. DownExpected'
    <3>1. \A o \in Node : \A k \in DOMAIN down[o] :
             Expected(queryCache', asked', down[o][k].qid, down[o][k].name)
      BY <1>1, <2>1 DEF RInv, DownExpected
    <3>2. Expected(queryCache', asked', m.qid, m.name)
      BY <1>1, <1>5, <2>1
    <3> QED
      BY <2>4, <3>1, <3>2, DownExpectedKept
  <2>8. AnswersFull'
    BY <1>4, <2>3, <2>4, AnswersFullKept DEF RInv
  <2>9. EntriesWait' /\ OneEntry' /\ AnswersMatchQuestions'
    BY <1>1, <2>1 DEF RInv, EntriesWait, OneEntry, AnswersMatchQuestions, IsRoot
  <2> QED
    BY <2>5, <2>6, <2>7, <2>8, <2>9 DEF RInv
<1>11. CASE client = NoNode
  <2>1. /\ down' = [down EXCEPT ![n] = Tail(@)]
        /\ queryCache' = [queryCache EXCEPT ![n][q] = NoReq]
        /\ IF waiter \in Request THEN Inform(waiter, m.name, m.ifs)
           ELSE UNCHANGED answers
    BY <1>11 DEF QueryResponseHandler
  <2>2. \A o \in Node, p \in QueryId :
           queryCache'[o][p] = IF o = n /\ p = q THEN NoReq ELSE queryCache[o][p]
    <3>1. queryCache' = [queryCache EXCEPT ![n][q] = NoReq]
      BY <2>1
    <3> HIDE DEF q
    <3> QED
      BY <1>3, <3>1 DEF TypeOK
  <2>3. waiter \in Request => /\ asked[waiter] # NoReq
                              /\ asked[waiter].name = m.name
                              /\ asked[waiter].node = n
                              /\ answers[waiter] = <<>>
    BY <1>3, <1>4, <1>5 DEF RInv, EntriesWait, Expected
  <2>4. \A o \in Node, p \in QueryId :
           queryCache'[o][p] \in Request => queryCache'[o][p] # waiter
    BY <1>3, <2>2, <2>3, RequestAssumption DEF RInv, EntriesWait, OneEntry
  <2> HIDE DEF client, waiter, m
  <2>5. ASSUME NEW p, NEW y, Expected(queryCache, asked, p, y), p # q
        PROVE  Expected(queryCache', asked', p, y)
    BY <1>1, <2>2, <2>5, PoolAssumption DEF Expected
  <2>6. Moved(down, down', n, NoNode, m)
    BY <1>1, <1>7, <2>1, MovedOut
  <2>7. OneEach'
    BY <1>6, <1>7, <1>9, <2>6, OneEachKept DEF RInv
  <2>8. UpExpected'
    <3>1. \A o \in Node : \A k \in DOMAIN up[o] :
             up[o][k].method = "QUERY" => up[o][k].qid # q
      BY <1>6, <1>7 DEF UpOnlyHead
    <3> QED
      BY <1>1, <2>5, <3>1 DEF RInv, UpExpected
  <2>9. DownExpected'
    <3>1. \A o \in Node : \A k \in DOMAIN down[o] :
             ~(o = n /\ k = 1)
               => Expected(queryCache', asked', down[o][k].qid, down[o][k].name)
      BY <1>6, <2>5 DEF RInv, DownExpected, DownOnlyHead
    <3> QED
      BY <1>7, <2>6, <3>1, DownExpectedKept
  <2>10. AnswersFull'
    BY <1>7, <2>6, AnswersFullKept DEF RInv
  <2>11. OneEntry'
    BY <2>2, RequestAssumption DEF RInv, OneEntry
  <2>12. CASE waiter \notin Request
    <3>1. EntriesWait' /\ AnswersMatchQuestions'
      BY <1>1, <2>1, <2>2, <2>12, RequestAssumption DEF RInv, EntriesWait,
          AnswersMatchQuestions, IsRoot
    <3> QED
      BY <2>7, <2>8, <2>9, <2>10, <2>11, <3>1 DEF RInv
  <2>13. CASE waiter \in Request
    <3>1. /\ answers'[waiter] = Append(<<>>, [name |-> m.name, ifs |-> m.ifs])
          /\ \A s \in Request : s # waiter => answers'[s] = answers[s]
      BY <2>1, <2>3, <2>13 DEF Inform, TypeOK
    <3>2. Len(answers'[waiter]) <= 1 /\ \A k \in DOMAIN answers'[waiter] :
                                           answers'[waiter][k].name = m.name
      BY <3>1
    <3>3. AnswersMatchQuestions'
      BY <1>1, <2>3, <2>13, <3>1, <3>2, AnsweredOnce DEF RInv
    <3>4. EntriesWait'
      BY <1>1, <2>2, <2>4, <2>13, <3>1, RequestAssumption DEF RInv, EntriesWait,
          IsRoot
    <3> QED
      BY <2>7, <2>8, <2>9, <2>10, <2>11, <3>3, <3>4 DEF RInv
  <2> QED
    BY <2>12, <2>13
<1> QED
  BY <1>10, <1>11


\* Initially there is no datagram, no entry and no answer.
LEMMA InitRInv ==
    Init => RInv
<1> SUFFICES ASSUME Init
             PROVE  RInv
  OBVIOUS
<1>1. OneEach /\ UpExpected /\ DownExpected /\ AnswersFull
  BY DEF Init, OneEach, OneUp, OneDown, OneWay, UpExpected, DownExpected,
         AnswersFull
<1>2. EntriesWait /\ OneEntry
  BY RequestAssumption DEF Init, EntriesWait, OneEntry
<1>3. AnswersMatchQuestions
  BY DEF Init, AnswersMatchQuestions
<1> QED
  BY <1>1, <1>2, <1>3 DEF RInv

\* Every step keeps what the refinement rests on.
LEMMA StepRInv ==
    ASSUME PoolsDisjoint, IInv, IInv', RInv, [Next]_vars
    PROVE  RInv'
<1>1. /\ TypeOK /\ TypeOK' /\ RootSilent /\ ClientsBelow
      /\ up \in [Node -> Seq(RequestMsg)] /\ down \in [Node -> Seq(ResponseMsg)]
      /\ NoNode \notin Node
  BY NodeAssumption DEF IInv, TypeOK
<1>2. ASSUME NEW n \in AppNode, NEW id \in Name, NEW i \in Ifs,
             AppInsert(n, id, i)
      PROVE  RInv'
  <2>1. UNCHANGED <<up, down, queryCache, asked, answers>>
    BY <1>2 DEF AppInsert, netVars, appVars
  <2>2. /\ Moved(up, up', NoNode, NoNode, 0)
        /\ Moved(down, down', NoNode, NoNode, 0)
    BY <2>1, MovedNowhere
  <2> QED
    BY <1>1, <2>1, <2>2, QuietStep
<1>3. ASSUME NEW n \in AppNode, NEW id \in Name, NEW r \in Request,
             GetCybertwinInterfaceByName(r, n, id)
      PROVE  RInv'
  BY <1>1, <1>3, GetStep, NodeAssumption
<1>4. ASSUME NEW n \in Node, ReportName2Superior(n)
      PROVE  RInv'
  <2> DEFINE x == Insert(Head(reports[n]).name, Head(reports[n]).ifs)
  <2>1. /\ reports[n] # <<>>
        /\ up' = [up EXCEPT ![n] = Append(@, x)]
        /\ UNCHANGED <<down, queryCache, asked, answers>>
    BY <1>4 DEF ReportName2Superior, cacheVars, appVars
  <2>2. Head(reports[n]) \in Record
    BY <1>1, <2>1, Delivered DEF TypeOK
  <2>3. x \in RequestMsg /\ x.method = "INSERT"
    BY <2>2, MessagesTyped DEF Record, Insert
  <2> HIDE DEF x
  <2>4. /\ Moved(up, up', NoNode, n, x)
        /\ Moved(down, down', NoNode, NoNode, x)
    BY <1>1, <2>1, <2>3, MovedIn, MovedNowhere
  <2> QED
    BY <1>1, <2>1, <2>3, <2>4, QuietStep
<1>5. ASSUME NEW n \in Node, ProcessInsert(n)
      PROVE  RInv'
  <2>1. /\ up[n] # <<>> /\ up' = [up EXCEPT ![n] = Tail(@)]
        /\ UNCHANGED <<down, queryCache, asked, answers>>
    BY <1>5 DEF ProcessInsert, appVars
  <2>2. /\ Moved(up, up', n, NoNode, 0)
        /\ Moved(down, down', NoNode, NoNode, 0)
    BY <1>1, <2>1, MovedOut, MovedNowhere
  <2> QED
    BY <1>1, <2>1, <2>2, QuietStep
<1>6. ASSUME NEW n \in Node, ProcessQuery(n)
      PROVE  RInv'
  BY <1>1, <1>6, ProcessQueryStep
<1>7. ASSUME NEW n \in Node, QueryResponseHandler(n)
      PROVE  RInv'
  BY <1>1, <1>7, ResponseStep
<1>8. ASSUME NEW n \in Node, Lose(n)
      PROVE  RInv'
  <2>1. UNCHANGED <<queryCache, asked, answers>>
    BY <1>8 DEF Lose, cacheVars, appVars
  <2>2. CASE /\ up[n] # <<>> /\ up' = [up EXCEPT ![n] = Tail(@)]
             /\ UNCHANGED down
    <3>1. /\ Moved(up, up', n, NoNode, 0)
          /\ Moved(down, down', NoNode, NoNode, 0)
      BY <1>1, <2>2, MovedOut, MovedNowhere
    <3> QED
      BY <1>1, <2>1, <3>1, QuietStep
  <2>3. CASE /\ down[n] # <<>> /\ down' = [down EXCEPT ![n] = Tail(@)]
             /\ UNCHANGED up
    <3>1. /\ Moved(up, up', NoNode, NoNode, 0)
          /\ Moved(down, down', n, NoNode, 0)
      BY <1>1, <2>3, MovedOut, MovedNowhere
    <3> QED
      BY <1>1, <2>1, <3>1, QuietStep
  <2> QED
    BY <1>8, <2>2, <2>3 DEF Lose
<1>9. CASE UNCHANGED vars
  <2>1. UNCHANGED <<up, down, queryCache, asked, answers>>
    BY <1>9 DEF vars, cacheVars, netVars, appVars
  <2>2. /\ Moved(up, up', NoNode, NoNode, 0)
        /\ Moved(down, down', NoNode, NoNode, 0)
    BY <2>1, MovedNowhere
  <2> QED
    BY <1>1, <2>1, <2>2, QuietStep
<1> QED
  BY <1>2, <1>3, <1>4, <1>5, <1>6, <1>7, <1>8, <1>9 DEF Next

-----------------------------------------------------------------------------
(* The theorems.                                                           *)

\* In every reachable state each query id has one datagram at most, somebody
\* waits for it, and the tables of the servers match the calls: the invariant
\* that the following theorems rest on.
THEOREM RInductive ==
    ASSUME PoolsDisjoint
    PROVE  Spec => [](IInv /\ RInv)
<1>1. IInv /\ IInv' /\ RInv /\ [Next]_vars => RInv'
  BY StepRInv
<1> QED
  BY InitRInv, Inductive, <1>1, PTL DEF Spec

\* If no two nodes draw the same query id, the callback passed to
\* GetCybertwinInterfaceByName runs at most once and with the name it asked,
\* for every tree and any losses.
THEOREM AnswersGoHome ==
    ASSUME PoolsDisjoint
    PROVE  Spec => []AnswersMatchQuestions
<1>1. RInv => AnswersMatchQuestions
  BY DEF RInv
<1> QED
  BY RInductive, <1>1, PTL

-----------------------------------------------------------------------------
(* The refinement.                                                         *)

\* A call of Cnrs is a call of NameService: a hit is an inserted list, and
\* only the root answers at once with an empty one.
LEMMA GetRefines ==
    ASSUME IInv, NEW n \in Node, NEW id \in Name, NEW r \in Request,
           GetCybertwinInterfaceByName(r, n, id)
    PROVE  Service!GetCybertwinInterfaceByName(r, n, id)
<1>1. /\ asked[r] = NoReq
      /\ asked' = [asked EXCEPT ![r] = [node |-> n, name |-> id]]
      /\ UNCHANGED inserted
  BY DEF GetCybertwinInterfaceByName
<1>2. CASE itemCache[n][id] # NoIfs
  <2>1. Inform(r, id, itemCache[n][id])
    BY <1>2 DEF GetCybertwinInterfaceByName
  <2>2. itemCache[n][id] \in Ifs /\ <<id, itemCache[n][id]>> \in inserted
    BY <1>2 DEF IInv, TypeOK, Authentic, Genuine
  <2>3. \E i \in Ifs : <<id, i>> \in inserted /\ Service!CallBack(r, id, i)
    BY <2>1, <2>2 DEF Inform, Service!CallBack
  <2> QED
    BY <1>1, <2>3 DEF Service!GetCybertwinInterfaceByName
<1>3. CASE itemCache[n][id] = NoIfs /\ IsRoot(n)
  <2>1. Inform(r, id, NoIfs)
    BY <1>3 DEF GetCybertwinInterfaceByName
  <2> QED
    BY <1>1, <1>3, <2>1 DEF Service!GetCybertwinInterfaceByName,
        Service!CallBack, Inform
<1>4. CASE itemCache[n][id] = NoIfs /\ ~IsRoot(n)
  <2>1. UNCHANGED answers
    BY <1>4 DEF GetCybertwinInterfaceByName
  <2> QED
    BY <1>1, <1>4, <2>1 DEF Service!GetCybertwinInterfaceByName
<1> QED
  BY <1>2, <1>3, <1>4

\* An answer of the superior is, for NameService, the answer to the call that
\* waits at the node, or nothing: the call still waits, and the answer has
\* its name and an inserted list.
LEMMA ResponseRefines ==
    ASSUME IInv, RInv, NEW n \in Node, QueryResponseHandler(n)
    PROVE  \/ UNCHANGED <<asked, answers, inserted>>
           \/ \E r \in Request : Service!QueryResponse(r)
<1> DEFINE m == Head(down[n])
           q == m.qid
           client == queryClientCache[n][q]
           waiter == queryCache[n][q]
<1>1. down[n] # <<>> /\ UNCHANGED <<asked, inserted>>
  BY DEF QueryResponseHandler
<1>2. m \in ResponseMsg /\ 1 \in DOMAIN down[n] /\ m = down[n][1]
  BY <1>1, Delivered DEF IInv, TypeOK
<1>3. m.name \in Name /\ q \in QueryId /\ m.ifs \in Ifs \cup {NoIfs}
  BY <1>2 DEF ResponseMsg
<1>4. m.ifs \in Ifs /\ ~IsRoot(n) /\ <<m.name, m.ifs>> \in inserted
  BY <1>1, <1>2, <1>3 DEF RInv, AnswersFull, IInv, Authentic, Genuine
<1>5. CASE client = NoNode /\ waiter \in Request
  <2>1. Inform(waiter, m.name, m.ifs)
    BY <1>5 DEF QueryResponseHandler
  <2>2. /\ asked[waiter] # NoReq
        /\ asked[waiter].name = m.name
        /\ answers[waiter] = <<>>
    BY <1>2, <1>3, <1>4, <1>5 DEF RInv, DownExpected, EntriesWait, Expected
  <2> HIDE DEF m, client, waiter
  <2>3. Service!QueryResponse(waiter)
    BY <1>1, <1>4, <2>1, <2>2 DEF Service!QueryResponse, Service!CallBack,
        Inform
  <2> QED
    BY <1>5, <2>3
<1>6. CASE ~(client = NoNode /\ waiter \in Request)
  BY <1>1, <1>6 DEF QueryResponseHandler
<1> QED
  BY <1>5, <1>6

\* Every other step of Cnrs is an insertion or changes nothing a caller sees.
LEMMA StepRefines ==
    ASSUME IInv, RInv, [Next]_vars
    PROVE  [Service!Next]_(Service!vars)
<1>1. ASSUME NEW n \in AppNode, NEW id \in Name, NEW i \in Ifs,
             AppInsert(n, id, i)
      PROVE  Service!Next
  BY <1>1 DEF AppInsert, appVars, Service!Next,
      Service!InsertCybertwinInterfaceName
<1>2. ASSUME NEW n \in AppNode, NEW id \in Name, NEW r \in Request,
             GetCybertwinInterfaceByName(r, n, id)
      PROVE  Service!Next
  <2>1. n \in Node
    BY NodeAssumption
  <2>2. Service!GetCybertwinInterfaceByName(r, n, id)
    BY <1>2, <2>1, GetRefines
  <2> QED
    BY <2>1, <2>2 DEF Service!Next
<1>3. ASSUME NEW n \in Node, QueryResponseHandler(n)
      PROVE  Service!Next \/ UNCHANGED <<asked, answers, inserted>>
  BY <1>3, ResponseRefines DEF Service!Next
<1>4. ASSUME NEW n \in Node,
             \/ ReportName2Superior(n) \/ ProcessInsert(n)
             \/ ProcessQuery(n) \/ Lose(n)
      PROVE  UNCHANGED <<asked, answers, inserted>>
  BY <1>4 DEF ReportName2Superior, ProcessInsert, ProcessQuery, Lose, appVars
<1>5. CASE UNCHANGED vars
  BY <1>5 DEF vars, appVars, Service!vars
<1> QED
  BY <1>1, <1>2, <1>3, <1>4, <1>5 DEF Next, Service!vars

\* The tree of nodes, with its caches, reports, relayed queries and lost
\* datagrams, keeps the promises of NameService to the callers of
\* InsertCybertwinInterfaceName and GetCybertwinInterfaceByName, if no two
\* nodes draw the same query id: the step simulation behind
\* ImplementsNameService, for every tree.
THEOREM RefinesNameService ==
    ASSUME PoolsDisjoint
    PROVE  Spec => ImplementsNameService
<1>1. Init => Service!Init
  BY DEF Init, Service!Init
<1>2. IInv /\ RInv /\ [Next]_vars => [Service!Next]_(Service!vars)
  BY StepRefines
<1> QED
  BY RInductive, <1>1, <1>2, PTL DEF Spec, ImplementsNameService, Service!Spec

-----------------------------------------------------------------------------
(* The entries of calls that wait.                                         *)

\* The superiors form a hierarchy: no chain of them leads back to a node.
Hierarchy(level) ==
    /\ level \in [Node -> Nat]
    /\ \A n \in Node : ~IsRoot(n) => level[Superior[n]] < level[n]

\* A query that is under way has not gone further up than it was asked: it
\* never comes back to the node that drew its id.
Ascending(level) ==
    \A n, o \in Node : \A k \in DOMAIN up[n] :
        up[n][k].method = "QUERY" /\ up[n][k].qid \in PoolOf[o]
           => level[n] <= level[o]

EntryHeld ==
    \A r \in Request :
        asked[r] # NoReq /\ ~IsRoot(asked[r].node) /\ answers[r] = <<>>
           => \E q \in QueryId : queryCache[asked[r].node][q] = r

\* A query in a node's queue was there before, or the node drew its id, or an
\* inferior sent it.
QueriesFromBelow ==
    \A n \in Node : \A k \in DOMAIN up'[n] :
        up'[n][k].method = "QUERY" =>
            \/ \E j \in DOMAIN up[n] : up[n][j] = up'[n][k]
            \/ up'[n][k].qid \in PoolOf[n]
            \/ \E c \in Node : /\ ~IsRoot(c) /\ Superior[c] = n
                               /\ \E j \in DOMAIN up[c] :
                                     /\ up[c][j].method = "QUERY"
                                     /\ up[c][j].qid = up'[n][k].qid

\* A query that a server sends up came from an inferior or is new.
LEMMA QueriesRise ==
    ASSUME IInv, [Next]_vars
    PROVE  QueriesFromBelow
<1>1. /\ TypeOK /\ RootSilent
      /\ up \in [Node -> Seq(RequestMsg)]
  BY DEF IInv, TypeOK
<1>2. ASSUME NEW x, OnlyNew(up, up', x), x.method # "QUERY"
      PROVE  QueriesFromBelow
  BY <1>2 DEF OnlyNew, QueriesFromBelow
<1>3. CASE UNCHANGED up
  BY <1>3 DEF QueriesFromBelow
<1>4. ASSUME NEW n \in AppNode, NEW id \in Name, NEW r \in Request,
             GetCybertwinInterfaceByName(r, n, id)
      PROVE  QueriesFromBelow
  <2>1. CASE UNCHANGED up
    BY <1>3, <2>1
  <2>2. CASE \E q \in PoolOf[n] : up' = [up EXCEPT ![n] = Append(@, Query(id, q))]
    <3>1. n \in Node
      BY NodeAssumption
    <3>2. PICK q \in PoolOf[n] : up' = [up EXCEPT ![n] = Append(@, Query(id, q))]
      BY <2>2
    <3> DEFINE x == Query(id, q)
    <3>3. x \in RequestMsg /\ x.qid = q
      BY <3>1, MessagesTyped, PoolAssumption DEF Query
    <3> HIDE DEF x
    <3>4. \A o \in Node : o # n => up'[o] = up[o]
      BY <1>1, <3>2
    <3>5. OnlyNew(up, up', x)
      BY <1>1, <3>1, <3>2, <3>3, SentAt DEF x
    <3> QED
      BY <3>3, <3>4, <3>5 DEF OnlyNew, QueriesFromBelow
  <2> QED
    BY <1>4, <2>1, <2>2 DEF GetCybertwinInterfaceByName
<1>5. ASSUME NEW n \in Node, ReportName2Superior(n)
      PROVE  QueriesFromBelow
  <2> DEFINE x == Insert(Head(reports[n]).name, Head(reports[n]).ifs)
  <2>1. reports[n] # <<>> /\ up' = [up EXCEPT ![n] = Append(@, x)]
    BY <1>5 DEF ReportName2Superior
  <2>2. Head(reports[n]) \in Record
    BY <1>1, <2>1, Delivered DEF TypeOK
  <2>3. x \in RequestMsg /\ x.method # "QUERY"
    BY <2>2, MessagesTyped DEF Record, Insert
  <2> HIDE DEF x
  <2>4. OnlyNew(up, up', x)
    BY <1>1, <2>1, <2>3, SentAt
  <2> QED
    BY <1>2, <2>3, <2>4
<1>6. ASSUME NEW n \in Node, up[n] # <<>>, up' = [up EXCEPT ![n] = Tail(@)]
      PROVE  QueriesFromBelow
  <2>1. OnlyNew(up, up', [method |-> "INSERT"])
    BY <1>1, <1>6, DeliveredAt
  <2> QED
    BY <1>2, <2>1
<1>7. ASSUME NEW c \in Node, ProcessQuery(c)
      PROVE  QueriesFromBelow
  <2> DEFINE n == Superior[c]
             x == Query(Head(up[c]).name, Head(up[c]).qid)
  <2>1. up[c] # <<>> /\ Head(up[c]).method = "QUERY"
    BY <1>7 DEF ProcessQuery
  <2>2. CASE up' = [up EXCEPT ![c] = Tail(@)]
    BY <1>6, <2>1, <2>2
  <2>3. CASE up' = [up EXCEPT ![c] = Tail(@), ![n] = Append(@, x)]
    <3>1. Head(up[c]) \in RequestMsg /\ 1 \in DOMAIN up[c] /\ Head(up[c]) = up[c][1]
      BY <1>1, <2>1, Delivered
    <3>2. x \in RequestMsg /\ x.qid = up[c][1].qid
      BY <2>1, <3>1, RequestFields, MessagesTyped DEF Query
    <3>3. n \in Node /\ n # c /\ ~IsRoot(c)
      BY <1>1, <2>1, Addressed
    <3> HIDE DEF x
    <3>4. OnlyNew(up, up', x)
      <4> HIDE DEF n
      <4> QED
        BY <1>1, <2>1, <2>3, <3>2, <3>3, Relayed
    <3>5. /\ \A o \in Node : o # n /\ o # c => up'[o] = up[o]
          /\ up'[c] = Tail(up[c])
      <4> HIDE DEF n
      <4> QED
        BY <1>1, <2>3, <3>3
    <3>6. \A k \in DOMAIN up'[c] : \E j \in DOMAIN up[c] : up[c][j] = up'[c][k]
      BY <1>1, <2>1, <3>5, Delivered
    <3>7. \A k \in DOMAIN up'[n] :
             \/ \E j \in DOMAIN up[n] : up[n][j] = up'[n][k]
             \/ up'[n][k].qid = up[c][1].qid
      BY <3>2, <3>3, <3>4 DEF OnlyNew
    <3>8. \E d \in Node : /\ ~IsRoot(d) /\ Superior[d] = n
                          /\ \E j \in DOMAIN up[d] :
                                /\ up[d][j].method = "QUERY"
                                /\ up[d][j].qid = up[c][1].qid
      BY <2>1, <3>1, <3>3
    <3> HIDE DEF n
    <3>9. ASSUME NEW o \in Node, NEW k \in DOMAIN up'[o], o # n
          PROVE  \E j \in DOMAIN up[o] : up[o][j] = up'[o][k]
      BY <3>5, <3>6, <3>9
    <3> QED
      BY <3>7, <3>8, <3>9 DEF QueriesFromBelow
  <2> QED
    BY <1>7, <2>2, <2>3 DEF ProcessQuery
<1>8. CASE \E n \in AppNode, id \in Name, i \in Ifs : AppInsert(n, id, i)
  BY <1>3, <1>8 DEF AppInsert, netVars
<1>9. CASE \E n \in Node : ProcessInsert(n) \/ QueryResponseHandler(n) \/ Lose(n)
  BY <1>3, <1>6, <1>9 DEF ProcessInsert, QueryResponseHandler, Lose
<1>10. CASE UNCHANGED vars
  BY <1>3, <1>10 DEF vars, netVars
<1> QED
  BY <1>4, <1>5, <1>7, <1>8, <1>9, <1>10 DEF Next

\* Queries never sink: a query is found at the level of its sender or above.
LEMMA AscendingStep ==
    ASSUME PoolsDisjoint, NEW level, Hierarchy(level), Ascending(level),
           QueriesFromBelow
    PROVE  Ascending(level)'
<1> SUFFICES ASSUME NEW n \in Node, NEW o \in Node, NEW k \in DOMAIN up'[n],
                    up'[n][k].method = "QUERY", up'[n][k].qid \in PoolOf[o]
             PROVE  level[n] <= level[o]
  BY DEF Ascending
<1>1. level[n] \in Nat /\ level[o] \in Nat
  BY DEF Hierarchy
<1>2. CASE \E j \in DOMAIN up[n] : up[n][j] = up'[n][k]
  BY <1>2 DEF Ascending
<1>3. CASE up'[n][k].qid \in PoolOf[n]
  BY <1>1, <1>3 DEF PoolsDisjoint
<1>4. ASSUME NEW c \in Node, ~IsRoot(c), Superior[c] = n,
             NEW j \in DOMAIN up[c], up[c][j].method = "QUERY",
             up[c][j].qid = up'[n][k].qid
      PROVE  level[n] <= level[o]
  <2>1. level[c] \in Nat /\ level[n] < level[c] /\ level[c] <= level[o]
    BY <1>4 DEF Hierarchy, Ascending
  <2> QED
    BY <1>1, <2>1
<1> QED
  BY <1>2, <1>3, <1>4 DEF QueriesFromBelow

\* No step takes the entry of a call that waits: an answer that removes it is
\* the call's own, and a relay writes above the node that drew the id.
LEMMA EntryHeldStep ==
    ASSUME NEW level, Hierarchy(level), Ascending(level), IInv, RInv,
           EntryHeld, [Next]_vars
    PROVE  EntryHeld'
<1>1. TypeOK /\ RootSilent
  BY DEF IInv
<1>2. CASE UNCHANGED <<queryCache, asked, answers>>
  BY <1>2 DEF EntryHeld, IsRoot
<1>3. ASSUME NEW n \in AppNode, NEW id \in Name, NEW r \in Request,
             GetCybertwinInterfaceByName(r, n, id)
      PROVE  EntryHeld'
  <2>1. /\ asked[r] = NoReq /\ n \in Node
        /\ asked' = [asked EXCEPT ![r] = [node |-> n, name |-> id]]
    BY <1>3, NodeAssumption DEF GetCybertwinInterfaceByName
  <2>2. /\ asked'[r].node = n
        /\ \A s \in Request : s # r => asked'[s] = asked[s]
    BY <1>1, <2>1 DEF TypeOK
  <2>3. \A s \in Request : s # r /\ answers'[s] = <<>> => answers[s] = <<>>
    BY <1>1, <1>3 DEF GetCybertwinInterfaceByName, Inform, TypeOK
  <2>4. CASE itemCache[n][id] # NoIfs
    <3>1. UNCHANGED queryCache /\ Inform(r, id, itemCache[n][id])
      BY <1>3, <2>4 DEF GetCybertwinInterfaceByName
    <3>2. answers'[r] # <<>>
      <4>1. /\ answers[r] \in Seq(Answer)
            /\ answers'[r] = Append(answers[r],
                                    [name |-> id, ifs |-> itemCache[n][id]])
        BY <1>1, <3>1 DEF Inform, TypeOK
      <4> QED
        BY <4>1
    <3> QED
      BY <2>2, <2>3, <3>1, <3>2 DEF EntryHeld, IsRoot
  <2>5. CASE itemCache[n][id] = NoIfs
    <3>1. PICK q \in PoolOf[n] :
             /\ queryCache[n][q] = NoReq
             /\ queryCache' = [queryCache EXCEPT ![n][q] = r]
      BY <1>3, <2>5 DEF GetCybertwinInterfaceByName
    <3>2. q \in QueryId
      BY <2>1, PoolAssumption
    <3>3. \A o \in Node, p \in QueryId :
             queryCache'[o][p] = IF o = n /\ p = q THEN r ELSE queryCache[o][p]
      BY <1>1, <2>1, <3>1, <3>2 DEF TypeOK
    <3>4. ASSUME NEW s \in Request, s # r, asked[s] # NoReq,
                 NEW p \in QueryId, queryCache[asked[s].node][p] = s
          PROVE  queryCache'[asked[s].node][p] = s
      <4>1. asked[s].node \in Node
        BY <1>1, <3>4 DEF TypeOK, Question
      <4> QED
        BY <3>1, <3>3, <3>4, <4>1, RequestAssumption
    <3>5. queryCache'[n][q] = r
      BY <2>1, <3>2, <3>3
    <3> QED
      BY <2>2, <2>3, <3>2, <3>4, <3>5 DEF EntryHeld, IsRoot
  <2> QED
    BY <2>4, <2>5
<1>4. ASSUME NEW c \in Node, ProcessQuery(c)
      PROVE  EntryHeld'
  <2> DEFINE n == Superior[c]
             q == Head(up[c]).qid
  <2>1. /\ up[c] # <<>> /\ Head(up[c]).method = "QUERY"
        /\ UNCHANGED <<asked, answers>>
    BY <1>4 DEF ProcessQuery, appVars
  <2>2. n \in Node /\ ~IsRoot(c)
    BY <1>1, <2>1, Addressed
  <2>3. /\ 1 \in DOMAIN up[c] /\ Head(up[c]) = up[c][1]
        /\ Head(up[c]) \in RequestMsg
    BY <1>1, <2>1, Delivered DEF TypeOK
  <2>4. q \in QueryId
    BY <2>1, <2>3, RequestFields
  <2>5. q \notin PoolOf[n]
    <3>1. /\ level[n] \in Nat /\ level[c] \in Nat /\ level[n] < level[c]
          /\ q \in PoolOf[n] => level[c] <= level[n]
      BY <2>1, <2>2, <2>3 DEF Hierarchy, Ascending
    <3> QED
      BY <3>1
  <2>6. queryCache[n][q] \notin Request
    BY <2>2, <2>4, <2>5 DEF RInv, EntriesWait
  <2>7. CASE UNCHANGED queryCache
    BY <1>2, <2>1, <2>7
  <2>8. CASE queryCache' = [queryCache EXCEPT ![n][q] = Relay]
    <3>1. \A o \in Node, p \in QueryId :
             queryCache'[o][p] = IF o = n /\ p = q THEN Relay
                                 ELSE queryCache[o][p]
      <4> HIDE DEF n, q
      <4> QED
        BY <1>1, <2>2, <2>4, <2>8 DEF TypeOK
    <3> HIDE DEF n, q
    <3>2. ASSUME NEW s \in Request, asked[s] # NoReq, NEW p \in QueryId,
                 queryCache[asked[s].node][p] = s
          PROVE  queryCache'[asked[s].node][p] = s
      <4>1. asked[s].node \in Node
        BY <1>1, <3>2 DEF TypeOK, Question
      <4> QED
        BY <2>6, <3>1, <3>2, <4>1
    <3> QED
      BY <2>1, <3>2 DEF EntryHeld, IsRoot
  <2> QED
    BY <1>4, <2>7, <2>8 DEF ProcessQuery
<1>5. ASSUME NEW n \in Node, QueryResponseHandler(n)
      PROVE  EntryHeld'
  <2> DEFINE m == Head(down[n])
             q == m.qid
             client == queryClientCache[n][q]
             waiter == queryCache[n][q]
  <2>1. down[n] # <<>> /\ UNCHANGED asked
    BY <1>5 DEF QueryResponseHandler
  <2>2. q \in QueryId
    <3>1. m \in ResponseMsg
      BY <1>1, <2>1, Delivered DEF TypeOK
    <3> QED
      BY <3>1 DEF ResponseMsg
  <2>3. CASE client # NoNode
    BY <1>2, <1>5, <2>1, <2>3 DEF QueryResponseHandler
  <2>4. CASE client = NoNode
    <3>1. /\ queryCache' = [queryCache EXCEPT ![n][q] = NoReq]
          /\ IF waiter \in Request THEN Inform(waiter, m.name, m.ifs)
             ELSE UNCHANGED answers
      BY <1>5, <2>4 DEF QueryResponseHandler
    <3>2. \A o \in Node, p \in QueryId :
             queryCache'[o][p] = IF o = n /\ p = q THEN NoReq
                                 ELSE queryCache[o][p]
      <4>1. queryCache' = [queryCache EXCEPT ![n][q] = NoReq]
        BY <3>1
      <4> HIDE DEF q
      <4> QED
        BY <1>1, <2>2, <4>1 DEF TypeOK
    <3>3. \A s \in Request : answers'[s] = <<>> => s # waiter /\ answers[s] = <<>>
      <4>1. CASE waiter \in Request
        <5>1. /\ answers[waiter] \in Seq(Answer)
              /\ answers'[waiter] = Append(answers[waiter],
                                           [name |-> m.name, ifs |-> m.ifs])
              /\ \A s \in Request : s # waiter => answers'[s] = answers[s]
          BY <1>1, <3>1, <4>1 DEF Inform, TypeOK
        <5> HIDE DEF m, waiter
        <5>2. answers'[waiter] # <<>>
          BY <5>1
        <5> QED
          BY <5>1, <5>2
      <4>2. CASE waiter \notin Request
        BY <3>1, <4>2
      <4> QED
        BY <4>1, <4>2
    <3>4. ASSUME NEW s \in Request, s # waiter, asked[s] # NoReq,
                 NEW p \in QueryId, queryCache[asked[s].node][p] = s
          PROVE  queryCache'[asked[s].node][p] = s
      <4>1. asked[s].node \in Node
        BY <1>1, <3>4 DEF TypeOK, Question
      <4> QED
        BY <3>2, <3>4, <4>1
    <3> HIDE DEF waiter
    <3> QED
      BY <2>1, <3>3, <3>4 DEF EntryHeld, IsRoot
  <2> QED
    BY <2>3, <2>4
<1>6. ASSUME NEW n \in Node, ReportName2Superior(n) \/ ProcessInsert(n) \/ Lose(n)
      PROVE  EntryHeld'
  BY <1>2, <1>6 DEF ReportName2Superior, ProcessInsert, Lose, cacheVars, appVars
<1>7. CASE \E n \in AppNode, id \in Name, i \in Ifs : AppInsert(n, id, i)
  BY <1>2, <1>7 DEF AppInsert, appVars
<1>8. CASE UNCHANGED vars
  BY <1>2, <1>8 DEF vars, cacheVars, appVars
<1> QED
  BY <1>3, <1>4, <1>5, <1>6, <1>7, <1>8 DEF Next

\* If no two nodes draw the same query id and no chain of superiors leads back
\* to a node, a call made below the root holds an entry of m_queryCache
\* exactly as long as it waits.
THEOREM EntriesOutliveTheWait ==
    ASSUME PoolsDisjoint, NEW level, Hierarchy(level)
    PROVE  Spec => []WaitingCallsHaveEntry
<1> DEFINE Inv == Ascending(level) /\ EntryHeld
<1>1. Init => Inv
  BY DEF Init, Ascending, EntryHeld
<1>2. IInv /\ RInv /\ Inv /\ [Next]_vars => Inv'
  BY AscendingStep, EntryHeldStep, QueriesRise
<1>3. IInv /\ RInv /\ Inv => WaitingCallsHaveEntry
  <2> SUFFICES ASSUME IInv, RInv, Inv, NEW r \in Request, asked[r] # NoReq,
                      ~IsRoot(asked[r].node)
               PROVE  answers[r] = <<>>
                        <=> \E q \in QueryId : queryCache[asked[r].node][q] = r
    BY DEF WaitingCallsHaveEntry
  <2>1. asked[r].node \in Node
    BY DEF IInv, TypeOK, Question
  <2>2. ASSUME NEW q \in QueryId, queryCache[asked[r].node][q] = r
        PROVE  answers[r] = <<>>
    BY <2>1, <2>2 DEF RInv, EntriesWait
  <2> QED
    BY <2>2 DEF EntryHeld
<1> HIDE DEF Inv
<1> QED
  BY RInductive, <1>1, <1>2, <1>3, PTL DEF Spec
=============================================================================
