----------------------------- MODULE CnrsProofs -----------------------------
(***************************************************************************)
(* Type correctness and authenticity of the name resolution service of     *)
(* module Cnrs, for every tree, every set of names, interface lists and    *)
(* requests, every choice of query ids (colliding ones included), and any  *)
(* number of insertions and losses.                                        *)
(*                                                                         *)
(* The inductive invariant adds three facts to the ones claimed:           *)
(*   - ClientsBelow: m_queryClientCache names inferiors of the node only,  *)
(*     so an answer is passed down and never back to the node itself;      *)
(*   - RootSilent: the root reports nothing and has no superior to send    *)
(*     to, so that a datagram always has a receiving node;                 *)
(*   - ReportedGenuine: an insertion on its way up was made by an          *)
(*     application.  Authentic alone is not inductive: it says nothing of  *)
(*     the datagrams that ProcessInsert turns into cache entries.          *)
(***************************************************************************)
EXTENDS Cnrs, TLAPS

ClientsBelow ==
    \A n \in Node, q \in QueryId :
        queryClientCache[n][q] # NoNode => Superior[queryClientCache[n][q]] = n

RootSilent ==
    \A n \in Node : IsRoot(n) => up[n] = <<>> /\ reports[n] = <<>>

ReportedGenuine ==
    \A n \in Node : \A k \in DOMAIN up[n] :
        up[n][k].method = "INSERT" => Genuine(up[n][k].name, up[n][k].ifs)

-----------------------------------------------------------------------------
(* Queues.                                                                 *)

\* From f to g, the queues of the nodes gain no datagram but x.
OnlyNew(f, g, x) ==
    \A n \in Node : \A k \in DOMAIN g[n] :
        g[n][k] = x \/ \E j \in DOMAIN f[n] : g[n][k] = f[n][j]

\* What is left of a queue after a delivery was in it before.
LEMMA Delivered ==
    ASSUME NEW S, NEW s \in Seq(S), s # <<>>
    PROVE  /\ Tail(s) \in Seq(S)
           /\ Head(s) \in S
           /\ 1 \in DOMAIN s /\ Head(s) = s[1]
           /\ \A k \in DOMAIN Tail(s) : \E j \in DOMAIN s : Tail(s)[k] = s[j]
<1>1. /\ Tail(s) \in Seq(S)
      /\ Head(s) \in S
      /\ 1 \in DOMAIN s /\ Head(s) = s[1]
  OBVIOUS
<1>2. ASSUME NEW k \in DOMAIN Tail(s)
      PROVE  \E j \in DOMAIN s : Tail(s)[k] = s[j]
  <2>1. k \in Nat /\ k + 1 \in DOMAIN s /\ Tail(s)[k] = s[k + 1]
    OBVIOUS
  <2> QED
    BY <2>1
<1> QED
  BY <1>1, <1>2

\* What is in a queue after a datagram is sent is that datagram or was there.
LEMMA Sent ==
    ASSUME NEW S, NEW s \in Seq(S), NEW x \in S
    PROVE  /\ Append(s, x) \in Seq(S)
           /\ \A k \in DOMAIN Append(s, x) :
                 Append(s, x)[k] = x \/ \E j \in DOMAIN s : Append(s, x)[k] = s[j]
<1>1. Append(s, x) \in Seq(S)
  OBVIOUS
<1>2. ASSUME NEW k \in DOMAIN Append(s, x)
      PROVE  Append(s, x)[k] = x \/ \E j \in DOMAIN s : Append(s, x)[k] = s[j]
  <2>1. k = Len(s) + 1 \/ k \in DOMAIN s
    OBVIOUS
  <2>2. CASE k = Len(s) + 1
    BY <2>2
  <2>3. CASE k \in DOMAIN s
    <3>1. Append(s, x)[k] = s[k]
      BY <2>3
    <3> QED
      BY <2>3, <3>1
  <2> QED
    BY <2>1, <2>2, <2>3
<1> QED
  BY <1>1, <1>2

\* The same for the queues of all nodes: a delivery at node a,
LEMMA DeliveredAt ==
    ASSUME NEW S, NEW f \in [Node -> Seq(S)], NEW a \in Node, f[a] # <<>>,
           NEW g, g = [f EXCEPT ![a] = Tail(@)]
    PROVE  /\ g \in [Node -> Seq(S)]
           /\ \A x : OnlyNew(f, g, x)
<1>1. /\ Tail(f[a]) \in Seq(S)
      /\ \A k \in DOMAIN Tail(f[a]) :
            \E j \in DOMAIN f[a] : Tail(f[a])[k] = f[a][j]
  BY Delivered
<1>2. ASSUME NEW n \in Node
      PROVE  g[n] = IF n = a THEN Tail(f[a]) ELSE f[n]
  OBVIOUS
<1>3. g \in [Node -> Seq(S)]
  BY <1>1, <1>2
<1>4. ASSUME NEW n \in Node, NEW k \in DOMAIN g[n]
      PROVE  \E j \in DOMAIN f[n] : g[n][k] = f[n][j]
  BY <1>1, <1>2, <1>4
<1> QED
  BY <1>3, <1>4 DEF OnlyNew

\* a datagram x sent at node b,
LEMMA SentAt ==
    ASSUME NEW S, NEW f \in [Node -> Seq(S)], NEW b \in Node, NEW x \in S,
           NEW g, g = [f EXCEPT ![b] = Append(@, x)]
    PROVE  OnlyNew(f, g, x)
<1>1. /\ Append(f[b], x) \in Seq(S)
      /\ \A k \in DOMAIN Append(f[b], x) :
            \/ Append(f[b], x)[k] = x
            \/ \E j \in DOMAIN f[b] : Append(f[b], x)[k] = f[b][j]
  BY Sent
<1>2. ASSUME NEW n \in Node
      PROVE  g[n] = IF n = b THEN Append(f[b], x) ELSE f[n]
  OBVIOUS
<1>3. ASSUME NEW n \in Node, NEW k \in DOMAIN g[n]
      PROVE  g[n][k] = x \/ \E j \in DOMAIN f[n] : g[n][k] = f[n][j]
  BY <1>1, <1>2, <1>3
<1> QED
  BY <1>3 DEF OnlyNew

\* and a relay, which takes one datagram at a and sends x at b: its type,
LEMMA RelayedTyped ==
    ASSUME NEW S, NEW f \in [Node -> Seq(S)], NEW a \in Node, f[a] # <<>>,
           NEW b \in Node, a # b, NEW x \in S,
           NEW g, g = [f EXCEPT ![a] = Tail(@), ![b] = Append(@, x)]
    PROVE  g \in [Node -> Seq(S)]
<1>1. Tail(f[a]) \in Seq(S) /\ Append(f[b], x) \in Seq(S)
  BY Delivered, Sent
<1> QED
  BY <1>1

\* and what it adds.
LEMMA Relayed ==
    ASSUME NEW S, NEW f \in [Node -> Seq(S)], NEW a \in Node, f[a] # <<>>,
           NEW b \in Node, a # b, NEW x \in S,
           NEW g, g = [f EXCEPT ![a] = Tail(@), ![b] = Append(@, x)]
    PROVE  OnlyNew(f, g, x)
<1>1. \A k \in DOMAIN Tail(f[a]) :
         \E j \in DOMAIN f[a] : Tail(f[a])[k] = f[a][j]
  BY Delivered
<1>2. \A k \in DOMAIN Append(f[b], x) :
         \/ Append(f[b], x)[k] = x
         \/ \E j \in DOMAIN f[b] : Append(f[b], x)[k] = f[b][j]
  BY Sent
<1>3. ASSUME NEW n \in Node
      PROVE  g[n] = IF n = a THEN Tail(f[a])
                    ELSE IF n = b THEN Append(f[b], x) ELSE f[n]
  OBVIOUS
<1>4. ASSUME NEW n \in Node, NEW k \in DOMAIN g[n]
      PROVE  g[n][k] = x \/ \E j \in DOMAIN f[n] : g[n][k] = f[n][j]
  <2>1. CASE n = a
    BY <1>1, <1>3, <1>4, <2>1
  <2>2. CASE n = b
    BY <1>2, <1>3, <1>4, <2>2
  <2>3. CASE n # a /\ n # b
    BY <1>3, <1>4, <2>3
  <2> QED
    BY <2>1, <2>2, <2>3
<1> QED
  BY <1>4 DEF OnlyNew

\* The fields of a request, by its method.
LEMMA RequestFields ==
    ASSUME NEW m \in RequestMsg
    PROVE  /\ m.name \in Name
           /\ m.method = "QUERY" => m.qid \in QueryId
           /\ m.method = "INSERT" => m.ifs \in Ifs
<1>1. CASE m \in [method : {"QUERY"}, name : Name, qid : QueryId]
  BY <1>1
<1>2. CASE m \in [method : {"INSERT"}, name : Name, ifs : Ifs]
  BY <1>2
<1> QED
  BY <1>1, <1>2 DEF RequestMsg

\* The messages the handlers build are messages.
LEMMA MessagesTyped ==
    /\ \A id \in Name, q \in QueryId :
          /\ Query(id, q) \in RequestMsg
          /\ Query(id, q).method = "QUERY"
    /\ \A id \in Name, i \in Ifs :
          /\ Insert(id, i) \in RequestMsg
          /\ Insert(id, i).name = id /\ Insert(id, i).ifs = i
    /\ \A id \in Name, q \in QueryId, i \in Ifs \cup {NoIfs} :
          /\ Response(id, q, i) \in ResponseMsg
          /\ Response(id, q, i).name = id /\ Response(id, q, i).ifs = i
  BY DEF Query, Insert, Response, RequestMsg, ResponseMsg

\* A datagram going up has a node to arrive at.
LEMMA Addressed ==
    ASSUME TypeOK, RootSilent, NEW n \in Node,
           up[n] # <<>> \/ reports[n] # <<>>
    PROVE  ~IsRoot(n) /\ Superior[n] \in Node /\ Superior[n] # n
  BY NodeAssumption DEF RootSilent, IsRoot

-----------------------------------------------------------------------------
(* Types.                                                                  *)

\* Storing an interface list keeps the cache and the scheduled reports typed.
LEMMA InsertTyped ==
    ASSUME TypeOK, NEW n \in Node, NEW id \in Name, NEW i \in Ifs,
           InsertCybertwinInterfaceName(n, id, i)
    PROVE  /\ itemCache' \in [Node -> [Name -> Ifs \cup {NoIfs}]]
           /\ reports' \in [Node -> Seq(Record)]
           /\ unreported' \in SUBSET Name
<1>1. Append(reports[n], [name |-> id, ifs |-> i]) \in Seq(Record)
  BY Sent DEF TypeOK, Record
<1>2. CASE itemCache[n][id] = i
  BY <1>2 DEF TypeOK, InsertCybertwinInterfaceName, reportVars
<1>3. CASE itemCache[n][id] # i
  <2>1. itemCache' = [itemCache EXCEPT ![n][id] = i]
    BY <1>3 DEF InsertCybertwinInterfaceName
  <2>2. itemCache' \in [Node -> [Name -> Ifs \cup {NoIfs}]]
    BY <2>1 DEF TypeOK
  <2>3. reports' \in [Node -> Seq(Record)] /\ unreported' \in SUBSET Name
    BY <1>1, <1>3 DEF TypeOK, InsertCybertwinInterfaceName
  <2> QED
    BY <2>2, <2>3
<1> QED
  BY <1>2, <1>3

\* Calling back a local request keeps the answers typed.
LEMMA InformTyped ==
    ASSUME TypeOK, NEW r \in Request, NEW id \in Name,
           NEW i \in Ifs \cup {NoIfs}, Inform(r, id, i)
    PROVE  answers' \in [Request -> Seq(Answer)]
<1>1. Append(answers[r], [name |-> id, ifs |-> i]) \in Seq(Answer)
  BY Sent DEF TypeOK, Answer
<1> QED
  BY <1>1 DEF TypeOK, Inform

\* No step breaks the types.
LEMMA TypeStep ==
    TypeOK /\ RootSilent /\ ClientsBelow /\ [Next]_vars => TypeOK'
<1> SUFFICES ASSUME TypeOK, RootSilent, ClientsBelow, [Next]_vars
             PROVE  TypeOK'
  OBVIOUS
<1>1. ASSUME NEW n \in AppNode, NEW id \in Name, NEW i \in Ifs,
             AppInsert(n, id, i)
      PROVE  TypeOK'
  <2>1. n \in Node
    BY NodeAssumption
  <2>2. /\ itemCache' \in [Node -> [Name -> Ifs \cup {NoIfs}]]
        /\ reports' \in [Node -> Seq(Record)]
        /\ unreported' \in SUBSET Name
    BY <1>1, <2>1, InsertTyped DEF AppInsert
  <2> QED
    BY <1>1, <2>2 DEF TypeOK, AppInsert, netVars, appVars
<1>2. ASSUME NEW n \in AppNode, NEW id \in Name, NEW r \in Request,
             GetCybertwinInterfaceByName(r, n, id)
      PROVE  TypeOK'
  <2>1. n \in Node
    BY NodeAssumption
  <2>2. asked' \in [Request -> Question \cup {NoReq}]
    BY <1>2, <2>1 DEF TypeOK, GetCybertwinInterfaceByName, Question
  <2>3. CASE itemCache[n][id] # NoIfs
    <3>1. Inform(r, id, itemCache[n][id]) /\ UNCHANGED <<queryCache, up>>
      BY <1>2, <2>3 DEF GetCybertwinInterfaceByName
    <3>2. itemCache[n][id] \in Ifs \cup {NoIfs}
      BY <2>1 DEF TypeOK
    <3>3. answers' \in [Request -> Seq(Answer)]
      BY <3>1, <3>2, InformTyped
    <3> QED
      BY <1>2, <2>2, <3>1, <3>3 DEF TypeOK, GetCybertwinInterfaceByName,
          reportVars
  <2>4. CASE itemCache[n][id] = NoIfs
    <3>1. PICK q \in PoolOf[n] :
             /\ queryCache' = [queryCache EXCEPT ![n][q] = r]
             /\ IF IsRoot(n)
                THEN Inform(r, id, NoIfs) /\ UNCHANGED up
                ELSE /\ up' = [up EXCEPT ![n] = Append(@, Query(id, q))]
                     /\ UNCHANGED answers
      BY <1>2, <2>4 DEF GetCybertwinInterfaceByName
    <3>2. q \in QueryId
      BY <2>1, PoolAssumption
    <3>3. queryCache' \in [Node -> [QueryId -> Request \cup {Relay, NoReq}]]
      BY <2>1, <3>1, <3>2 DEF TypeOK
    <3>4. Append(up[n], Query(id, q)) \in Seq(RequestMsg)
      BY <2>1, <3>2, Sent, MessagesTyped DEF TypeOK
    <3>5. up' \in [Node -> Seq(RequestMsg)]
      BY <2>1, <3>1, <3>4 DEF TypeOK
    <3>6. answers' \in [Request -> Seq(Answer)]
      <4>1. CASE IsRoot(n)
        BY <3>1, <4>1, InformTyped
      <4>2. CASE ~IsRoot(n)
        BY <3>1, <4>2 DEF TypeOK
      <4> QED
        BY <4>1, <4>2
    <3> QED
      BY <1>2, <2>2, <3>3, <3>5, <3>6 DEF TypeOK, GetCybertwinInterfaceByName,
          reportVars
  <2> QED
    BY <2>3, <2>4
<1>3. ASSUME NEW n \in Node, ReportName2Superior(n)
      PROVE  TypeOK'
  <2>1. reports[n] # <<>> /\ reports[n] \in Seq(Record)
    BY <1>3 DEF ReportName2Superior, TypeOK
  <2>2. Head(reports[n]) \in Record /\ Tail(reports[n]) \in Seq(Record)
    BY <2>1, Delivered
  <2>3. Insert(Head(reports[n]).name, Head(reports[n]).ifs) \in RequestMsg
    BY <2>2, MessagesTyped DEF Record
  <2>4. Append(up[n], Insert(Head(reports[n]).name, Head(reports[n]).ifs))
           \in Seq(RequestMsg)
    BY <2>3, Sent DEF TypeOK
  <2>5. /\ up' \in [Node -> Seq(RequestMsg)]
        /\ reports' \in [Node -> Seq(Record)]
    BY <1>3, <2>2, <2>4 DEF TypeOK, ReportName2Superior
  <2> QED
    BY <1>3, <2>5 DEF TypeOK, ReportName2Superior, cacheVars, appVars
<1>4. ASSUME NEW n \in Node, ProcessInsert(n)
      PROVE  TypeOK'
  <2>1. up[n] # <<>> /\ up[n] \in Seq(RequestMsg)
    BY <1>4 DEF ProcessInsert, TypeOK
  <2>2. Head(up[n]) \in RequestMsg /\ Tail(up[n]) \in Seq(RequestMsg)
    BY <2>1, Delivered
  <2>3. Head(up[n]).name \in Name /\ Head(up[n]).ifs \in Ifs
    BY <1>4, <2>2, RequestFields DEF ProcessInsert
  <2>4. Superior[n] \in Node
    BY <2>1, Addressed
  <2>5. /\ itemCache' \in [Node -> [Name -> Ifs \cup {NoIfs}]]
        /\ reports' \in [Node -> Seq(Record)]
        /\ unreported' \in SUBSET Name
    BY <1>4, <2>3, <2>4, InsertTyped DEF ProcessInsert
  <2>6. up' \in [Node -> Seq(RequestMsg)]
    BY <1>4, <2>2 DEF TypeOK, ProcessInsert
  <2> QED
    BY <1>4, <2>5, <2>6 DEF TypeOK, ProcessInsert, appVars
<1>5. ASSUME NEW c \in Node, ProcessQuery(c)
      PROVE  TypeOK'
  <2> DEFINE n == Superior[c]
             id == Head(up[c]).name
             q == Head(up[c]).qid
  <2>1. up[c] # <<>> /\ up[c] \in Seq(RequestMsg)
    BY <1>5 DEF ProcessQuery, TypeOK
  <2>2. Head(up[c]) \in RequestMsg /\ Tail(up[c]) \in Seq(RequestMsg)
    BY <2>1, Delivered
  <2>3. id \in Name /\ q \in QueryId
    BY <1>5, <2>2, RequestFields DEF ProcessQuery
  <2>4. n \in Node /\ n # c
    BY <2>1, Addressed
  <2>5. CASE itemCache[n][id] # NoIfs
    <3>1. /\ down' = [down EXCEPT ![c] = Append(@, Response(id, q,
                                                       itemCache[n][id]))]
          /\ up' = [up EXCEPT ![c] = Tail(@)]
          /\ UNCHANGED <<queryCache, queryClientCache>>
      BY <1>5, <2>5 DEF ProcessQuery
    <3>2. itemCache[n][id] \in Ifs \cup {NoIfs}
      BY <2>3, <2>4 DEF TypeOK
    <3>3. Append(down[c], Response(id, q, itemCache[n][id])) \in Seq(ResponseMsg)
      BY <2>3, <3>2, Sent, MessagesTyped DEF TypeOK
    <3>4. /\ down' \in [Node -> Seq(ResponseMsg)]
          /\ up' \in [Node -> Seq(RequestMsg)]
      BY <2>2, <3>1, <3>3 DEF TypeOK
    <3> QED
      BY <1>5, <3>1, <3>4 DEF TypeOK, ProcessQuery, appVars, reportVars
  <2>6. CASE itemCache[n][id] = NoIfs
    <3>1. /\ queryClientCache' = [queryClientCache EXCEPT ![n][q] = c]
          /\ queryCache' = [queryCache EXCEPT ![n][q] = Relay]
          /\ up' = IF IsRoot(n) THEN [up EXCEPT ![c] = Tail(@)]
                   ELSE [up EXCEPT ![c] = Tail(@),
                                   ![n] = Append(@, Query(id, q))]
          /\ UNCHANGED down
      BY <1>5, <2>6 DEF ProcessQuery
    <3>2. /\ queryClientCache' \in [Node -> [QueryId -> Node \cup {NoNode}]]
          /\ queryCache' \in [Node -> [QueryId -> Request \cup {Relay, NoReq}]]
      BY <2>3, <2>4, <3>1 DEF TypeOK
    <3>3. up \in [Node -> Seq(RequestMsg)] /\ Query(id, q) \in RequestMsg
      BY <2>3, MessagesTyped DEF TypeOK
    <3>4. up' \in [Node -> Seq(RequestMsg)]
      <4>1. CASE IsRoot(n)
        <5>1. up' = [up EXCEPT ![c] = Tail(@)]
          BY <3>1, <4>1
        <5> QED
          BY <2>1, <3>3, <5>1, DeliveredAt
      <4>2. CASE ~IsRoot(n)
        <5>1. up' = [up EXCEPT ![c] = Tail(@), ![n] = Append(@, Query(id, q))]
          BY <3>1, <4>2
        <5> HIDE DEF n, id, q
        <5> QED
          BY <2>1, <2>4, <3>3, <5>1, RelayedTyped
      <4> QED
        BY <4>1, <4>2
    <3> QED
      BY <1>5, <3>1, <3>2, <3>4 DEF TypeOK, ProcessQuery, appVars, reportVars
  <2> QED
    BY <2>5, <2>6
<1>6. ASSUME NEW n \in Node, QueryResponseHandler(n)
      PROVE  TypeOK'
  <2> DEFINE m == Head(down[n])
             client == queryClientCache[n][m.qid]
             waiter == queryCache[n][m.qid]
  <2>1. down[n] # <<>> /\ down[n] \in Seq(ResponseMsg)
    BY <1>6 DEF QueryResponseHandler, TypeOK
  <2>2. m \in ResponseMsg /\ Tail(down[n]) \in Seq(ResponseMsg)
    BY <2>1, Delivered
  <2>3. m.name \in Name /\ m.qid \in QueryId /\ m.ifs \in Ifs \cup {NoIfs}
    BY <2>2 DEF ResponseMsg
  <2>4. client \in Node \cup {NoNode} /\ client # n
    <3>1. client \in Node \cup {NoNode}
      BY <2>3 DEF TypeOK
    <3>2. client # NoNode => Superior[client] = n
      BY <2>3 DEF ClientsBelow
    <3> QED
      BY <3>1, <3>2, NodeAssumption
  <2>5. itemCache' \in [Node -> [Name -> Ifs \cup {NoIfs}]]
    BY <1>6, <2>3 DEF TypeOK, QueryResponseHandler
  <2>6. /\ queryCache' \in [Node -> [QueryId -> Request \cup {Relay, NoReq}]]
        /\ queryClientCache' \in [Node -> [QueryId -> Node \cup {NoNode}]]
    BY <1>6, <2>3 DEF TypeOK, QueryResponseHandler
  <2>7. down' \in [Node -> Seq(ResponseMsg)]
    <3>1. down' = IF client = NoNode THEN [down EXCEPT ![n] = Tail(@)]
                  ELSE [down EXCEPT ![n] = Tail(@), ![client] = Append(@, m)]
      BY <1>6 DEF QueryResponseHandler
    <3>2. down \in [Node -> Seq(ResponseMsg)]
      BY DEF TypeOK
    <3> HIDE DEF m, client, waiter
    <3>3. CASE client = NoNode
      <4>1. down' = [down EXCEPT ![n] = Tail(@)]
        BY <3>1, <3>3
      <4> QED
        BY <2>1, <3>2, <4>1, DeliveredAt
    <3>4. CASE client # NoNode
      <4>1. down' = [down EXCEPT ![n] = Tail(@), ![client] = Append(@, m)]
        BY <3>1, <3>4
      <4> QED
        BY <2>1, <2>2, <2>4, <3>2, <3>4, <4>1, RelayedTyped
    <3> QED
      BY <3>3, <3>4
  <2>8. answers' \in [Request -> Seq(Answer)]
    <3>1. CASE client = NoNode /\ waiter \in Request
      <4>1. Inform(waiter, m.name, m.ifs)
        BY <1>6, <3>1 DEF QueryResponseHandler
      <4> QED
        BY <2>3, <3>1, <4>1, InformTyped
    <3>2. CASE ~(client = NoNode /\ waiter \in Request)
      BY <1>6, <3>2 DEF QueryResponseHandler, TypeOK
    <3> QED
      BY <3>1, <3>2
  <2> QED
    BY <1>6, <2>5, <2>6, <2>7, <2>8 DEF TypeOK, QueryResponseHandler,
        reportVars
<1>7. ASSUME NEW n \in Node, Lose(n)
      PROVE  TypeOK'
  <2>1. up[n] # <<>> => Tail(up[n]) \in Seq(RequestMsg)
    BY Delivered DEF TypeOK
  <2>2. down[n] # <<>> => Tail(down[n]) \in Seq(ResponseMsg)
    BY Delivered DEF TypeOK
  <2>3. /\ up' \in [Node -> Seq(RequestMsg)]
        /\ down' \in [Node -> Seq(ResponseMsg)]
    BY <1>7, <2>1, <2>2 DEF TypeOK, Lose
  <2> QED
    BY <1>7, <2>3 DEF TypeOK, Lose, cacheVars, appVars, reportVars
<1>8. CASE UNCHANGED vars
  BY <1>8 DEF TypeOK, vars, cacheVars, netVars, appVars, reportVars
<1> QED
  BY <1>1, <1>2, <1>3, <1>4, <1>5, <1>6, <1>7, <1>8 DEF Next

-----------------------------------------------------------------------------
(* The root, and the inferiors that wait.                                  *)

\* InsertCybertwinInterfaceName schedules no report at the root.
LEMMA InsertSilent ==
    ASSUME TypeOK, RootSilent, NEW n \in Node, NEW id \in Name, NEW i \in Ifs,
           InsertCybertwinInterfaceName(n, id, i)
    PROVE  \A x \in Node : IsRoot(x) => reports'[x] = <<>>
  BY DEF TypeOK, RootSilent, InsertCybertwinInterfaceName, reportVars

\* No step makes the root send upwards.
LEMMA SilentStep ==
    TypeOK /\ RootSilent /\ ClientsBelow /\ [Next]_vars => RootSilent'
<1> SUFFICES ASSUME TypeOK, RootSilent, ClientsBelow, [Next]_vars
             PROVE  \A x \in Node :
                       IsRoot(x) => up'[x] = <<>> /\ reports'[x] = <<>>
  BY DEF RootSilent, IsRoot
<1>1. ASSUME NEW n \in AppNode, NEW id \in Name, NEW i \in Ifs,
             AppInsert(n, id, i), NEW x \in Node, IsRoot(x)
      PROVE  up'[x] = <<>> /\ reports'[x] = <<>>
  <2>1. n \in Node
    BY NodeAssumption
  <2>2. reports'[x] = <<>>
    BY <1>1, <2>1, InsertSilent DEF AppInsert
  <2> QED
    BY <1>1, <2>2 DEF AppInsert, RootSilent, netVars
<1>2. ASSUME NEW n \in AppNode, NEW id \in Name, NEW r \in Request,
             GetCybertwinInterfaceByName(r, n, id), NEW x \in Node, IsRoot(x)
      PROVE  up'[x] = <<>> /\ reports'[x] = <<>>
  BY <1>2, NodeAssumption DEF GetCybertwinInterfaceByName, RootSilent, TypeOK,
      reportVars
<1>3. ASSUME NEW n \in Node, ReportName2Superior(n), NEW x \in Node, IsRoot(x)
      PROVE  up'[x] = <<>> /\ reports'[x] = <<>>
  <2>1. x # n
    BY <1>3, Addressed DEF ReportName2Superior
  <2> QED
    BY <1>3, <2>1 DEF ReportName2Superior, RootSilent, TypeOK
<1>4. ASSUME NEW n \in Node, ProcessInsert(n), NEW x \in Node, IsRoot(x)
      PROVE  up'[x] = <<>> /\ reports'[x] = <<>>
  <2>1. x # n /\ Superior[n] \in Node
    BY <1>4, Addressed DEF ProcessInsert
  <2>2. Head(up[n]) \in RequestMsg
    BY <1>4, Delivered DEF ProcessInsert, TypeOK
  <2>3. Head(up[n]).name \in Name /\ Head(up[n]).ifs \in Ifs
    BY <1>4, <2>2, RequestFields DEF ProcessInsert
  <2>4. reports'[x] = <<>>
    BY <1>4, <2>1, <2>3, InsertSilent DEF ProcessInsert
  <2> QED
    BY <1>4, <2>1, <2>4 DEF ProcessInsert, RootSilent, TypeOK
<1>5. ASSUME NEW c \in Node, ProcessQuery(c), NEW x \in Node, IsRoot(x)
      PROVE  up'[x] = <<>> /\ reports'[x] = <<>>
  <2>1. x # c
    BY <1>5, Addressed DEF ProcessQuery
  <2> QED
    BY <1>5, <2>1 DEF ProcessQuery, RootSilent, TypeOK, reportVars
<1>6. ASSUME NEW n \in Node, QueryResponseHandler(n), NEW x \in Node, IsRoot(x)
      PROVE  up'[x] = <<>> /\ reports'[x] = <<>>
  BY <1>6 DEF QueryResponseHandler, RootSilent, reportVars
<1>7. ASSUME NEW n \in Node, Lose(n), NEW x \in Node, IsRoot(x)
      PROVE  up'[x] = <<>> /\ reports'[x] = <<>>
  BY <1>7 DEF Lose, RootSilent, TypeOK, reportVars
<1>8. CASE UNCHANGED vars
  BY <1>8 DEF RootSilent, vars, netVars, reportVars
<1> QED
  BY <1>1, <1>2, <1>3, <1>4, <1>5, <1>6, <1>7, <1>8 DEF Next

\* Only ProcessQuery remembers an inferior, at the inferior's superior.
LEMMA ClientsStep ==
    TypeOK /\ RootSilent /\ ClientsBelow /\ [Next]_vars => ClientsBelow'
<1> SUFFICES ASSUME TypeOK, RootSilent, ClientsBelow, [Next]_vars
             PROVE  ClientsBelow'
  OBVIOUS
<1>1. ASSUME NEW c \in Node, ProcessQuery(c)
      PROVE  ClientsBelow'
  <2>1. Superior[c] \in Node
    BY <1>1, Addressed DEF ProcessQuery
  <2>2. \/ UNCHANGED queryClientCache
        \/ queryClientCache' = [queryClientCache EXCEPT
                                  ![Superior[c]][Head(up[c]).qid] = c]
    BY <1>1 DEF ProcessQuery
  <2>3. CASE UNCHANGED queryClientCache
    BY <2>3 DEF ClientsBelow
  <2>4. ASSUME NEW n \in Node, NEW q \in QueryId,
               queryClientCache' = [queryClientCache EXCEPT
                                      ![Superior[c]][Head(up[c]).qid] = c],
               queryClientCache'[n][q] # NoNode
        PROVE  Superior[queryClientCache'[n][q]] = n
    <3>1. CASE n = Superior[c] /\ q = Head(up[c]).qid
      BY <2>4, <3>1 DEF TypeOK
    <3>2. CASE ~(n = Superior[c] /\ q = Head(up[c]).qid)
      <4>1. queryClientCache'[n][q] = queryClientCache[n][q]
        BY <2>4, <3>2 DEF TypeOK
      <4> QED
        BY <2>4, <4>1 DEF ClientsBelow
    <3> QED
      BY <3>1, <3>2
  <2> QED
    BY <2>2, <2>3, <2>4 DEF ClientsBelow
<1>2. ASSUME NEW n \in Node, QueryResponseHandler(n)
      PROVE  ClientsBelow'
  <2>1. queryClientCache' = [queryClientCache EXCEPT
                               ![n][Head(down[n]).qid] = NoNode]
    BY <1>2 DEF QueryResponseHandler
  <2> QED
    BY <2>1 DEF ClientsBelow, TypeOK
<1>3. CASE UNCHANGED queryClientCache
  BY <1>3 DEF ClientsBelow
<1>4. \/ \E n \in Node : ProcessQuery(n) \/ QueryResponseHandler(n)
      \/ UNCHANGED queryClientCache
  BY DEF Next, vars, cacheVars, AppInsert, GetCybertwinInterfaceByName,
         ReportName2Superior, ProcessInsert, Lose
<1> QED
  BY <1>1, <1>2, <1>3, <1>4

-----------------------------------------------------------------------------
(* Authenticity.                                                           *)

\* Storing a genuine list keeps cache and reports genuine.
LEMMA InsertGenuine ==
    ASSUME TypeOK, Authentic, NEW n \in Node, NEW id \in Name, NEW i \in Ifs,
           InsertCybertwinInterfaceName(n, id, i),
           inserted \subseteq inserted', <<id, i>> \in inserted'
    PROVE  /\ \A x \in Node, y \in Name : Genuine(y, itemCache[x][y])'
           /\ \A x \in Node : \A k \in DOMAIN reports'[x] :
                 Genuine(reports[x][k].name, reports[x][k].ifs)'
<1>1. \A y, j : Genuine(y, j) => j = NoIfs \/ <<y, j>> \in inserted'
  BY DEF Genuine
<1>2. CASE itemCache[n][id] = i
  BY <1>1, <1>2 DEF InsertCybertwinInterfaceName, Authentic, Genuine,
      reportVars
<1>3. CASE itemCache[n][id] # i
  <2>1. itemCache' = [itemCache EXCEPT ![n][id] = i]
    BY <1>3 DEF InsertCybertwinInterfaceName
  <2>2. ASSUME NEW x \in Node, NEW y \in Name
        PROVE  Genuine(y, itemCache[x][y])'
    <3>1. \/ x = n /\ y = id /\ itemCache'[x][y] = i
          \/ itemCache'[x][y] = itemCache[x][y]
      BY <2>1 DEF TypeOK
    <3> QED
      BY <1>1, <3>1 DEF Authentic, Genuine
  <2>3. ASSUME NEW x \in Node, NEW k \in DOMAIN reports'[x]
        PROVE  Genuine(reports[x][k].name, reports[x][k].ifs)'
    <3> DEFINE rec == [name |-> id, ifs |-> i]
    <3>1. rec \in Record /\ rec.name = id /\ rec.ifs = i
      BY DEF Record
    <3>2. \/ UNCHANGED reports
          \/ reports' = [reports EXCEPT ![n] = Append(@, rec)]
      BY <1>3 DEF InsertCybertwinInterfaceName
    <3>3. reports \in [Node -> Seq(Record)]
      BY DEF TypeOK
    <3> HIDE DEF rec
    <3>4. \/ reports'[x][k] = rec
          \/ \E j \in DOMAIN reports[x] : reports'[x][k] = reports[x][j]
      <4>1. CASE UNCHANGED reports
        BY <2>3, <4>1
      <4>2. CASE reports' = [reports EXCEPT ![n] = Append(@, rec)]
        <5>1. OnlyNew(reports, reports', rec)
          BY <3>1, <3>3, <4>2, SentAt
        <5> QED
          BY <2>3, <5>1 DEF OnlyNew
      <4> QED
        BY <3>2, <4>1, <4>2
    <3> QED
      BY <1>1, <3>1, <3>4 DEF Authentic, Genuine
  <2> QED
    BY <2>2, <2>3
<1> QED
  BY <1>2, <1>3

\* Calling back with a genuine list keeps the answers genuine.
LEMMA InformGenuine ==
    ASSUME TypeOK, Authentic, NEW r \in Request, NEW id \in Name,
           NEW i \in Ifs \cup {NoIfs}, Inform(r, id, i),
           Genuine(id, i), UNCHANGED inserted
    PROVE  \A s \in Request : \A k \in DOMAIN answers'[s] :
              Genuine(answers[s][k].name, answers[s][k].ifs)'
<1> DEFINE a == [name |-> id, ifs |-> i]
<1>1. a \in Answer /\ a.name = id /\ a.ifs = i
  BY DEF Answer
<1>2. answers \in [Request -> Seq(Answer)]
      /\ answers' = [answers EXCEPT ![r] = Append(@, a)]
  BY DEF TypeOK, Inform
<1> HIDE DEF a
<1>3. ASSUME NEW s \in Request, NEW k \in DOMAIN answers'[s]
      PROVE  Genuine(answers[s][k].name, answers[s][k].ifs)'
  <2>1. CASE s # r
    BY <1>2, <1>3, <2>1 DEF Authentic, Genuine
  <2>2. CASE s = r
    <3>1. answers'[s] = Append(answers[r], a) /\ answers[r] \in Seq(Answer)
      BY <1>2, <2>2
    <3>2. answers'[s][k] = a \/ \E j \in DOMAIN answers[r] :
                                   answers'[s][k] = answers[r][j]
      BY <1>1, <1>3, <3>1, Sent
    <3> QED
      BY <1>1, <3>2 DEF Authentic, Genuine
  <2> QED
    BY <2>1, <2>2
<1> QED
  BY <1>3

\* Datagrams going up stay genuine if the new one is a query or genuine.
LEMMA UpKept ==
    ASSUME ReportedGenuine, UNCHANGED inserted, NEW m, OnlyNew(up, up', m),
           m.method = "INSERT" => Genuine(m.name, m.ifs)
    PROVE  ReportedGenuine'
<1>1. ASSUME NEW x \in Node, NEW k \in DOMAIN up'[x],
             up'[x][k].method = "INSERT"
      PROVE  Genuine(up'[x][k].name, up'[x][k].ifs)
  <2>1. CASE up'[x][k] = m
    BY <1>1, <2>1
  <2>2. ASSUME NEW j \in DOMAIN up[x], up'[x][k] = up[x][j]
        PROVE  Genuine(up'[x][k].name, up'[x][k].ifs)
    BY <1>1, <2>2 DEF ReportedGenuine
  <2> QED
    BY <1>1, <2>1, <2>2 DEF OnlyNew
<1> QED
  BY <1>1 DEF ReportedGenuine, Genuine

DownGenuine ==
    \A n \in Node : \A k \in DOMAIN down[n] :
        Genuine(down[n][k].name, down[n][k].ifs)

\* Answers going down stay genuine if the new one is.
LEMMA DownKept ==
    ASSUME Authentic, UNCHANGED inserted, NEW m, OnlyNew(down, down', m),
           Genuine(m.name, m.ifs)
    PROVE  DownGenuine'
<1>1. ASSUME NEW x \in Node, NEW k \in DOMAIN down'[x]
      PROVE  Genuine(down'[x][k].name, down'[x][k].ifs)
  <2>1. CASE down'[x][k] = m
    BY <2>1
  <2>2. ASSUME NEW j \in DOMAIN down[x], down'[x][k] = down[x][j]
        PROVE  Genuine(down'[x][k].name, down'[x][k].ifs)
    BY <2>2 DEF Authentic
  <2> QED
    BY <1>1, <2>1, <2>2 DEF OnlyNew
<1> QED
  BY <1>1 DEF DownGenuine, Genuine

\* Every step keeps what is cached, under way or answered genuine.
LEMMA GenuineStep ==
    /\ TypeOK /\ RootSilent /\ ClientsBelow /\ ReportedGenuine /\ Authentic
    /\ [Next]_vars
    => ReportedGenuine' /\ Authentic'
<1> SUFFICES ASSUME TypeOK, RootSilent, ClientsBelow, ReportedGenuine,
                    Authentic, [Next]_vars
             PROVE  ReportedGenuine' /\ Authentic'
  OBVIOUS
<1>1. ASSUME NEW n \in AppNode, NEW id \in Name, NEW i \in Ifs,
             AppInsert(n, id, i)
      PROVE  ReportedGenuine' /\ Authentic'
  <2>1. n \in Node
    BY NodeAssumption
  <2>2. inserted \subseteq inserted' /\ <<id, i>> \in inserted'
    BY <1>1 DEF AppInsert
  <2>3. /\ \A x \in Node, y \in Name : Genuine(y, itemCache[x][y])'
        /\ \A x \in Node : \A k \in DOMAIN reports'[x] :
              Genuine(reports[x][k].name, reports[x][k].ifs)'
    BY <1>1, <2>1, <2>2, InsertGenuine DEF AppInsert
  <2>4. UNCHANGED <<up, down, answers>>
    BY <1>1 DEF AppInsert, netVars, appVars
  <2>5. \A y, j : Genuine(y, j) => j = NoIfs \/ <<y, j>> \in inserted'
    BY <2>2 DEF Genuine
  <2>6. ReportedGenuine'
    BY <2>4, <2>5 DEF ReportedGenuine, Genuine
  <2>7. Authentic'
    BY <2>3, <2>4, <2>5 DEF Authentic, Genuine
  <2> QED
    BY <2>6, <2>7
<1>2. ASSUME NEW n \in AppNode, NEW id \in Name, NEW r \in Request,
             GetCybertwinInterfaceByName(r, n, id)
      PROVE  ReportedGenuine' /\ Authentic'
  <2>1. n \in Node
    BY NodeAssumption
  <2>2. UNCHANGED <<itemCache, down, reports, inserted>>
    BY <1>2 DEF GetCybertwinInterfaceByName, reportVars
  <2>3. /\ itemCache[n][id] \in Ifs \cup {NoIfs}
        /\ Genuine(id, itemCache[n][id]) /\ Genuine(id, NoIfs)
    BY <2>1 DEF TypeOK, Authentic, Genuine
  <2>4. \/ UNCHANGED answers
        \/ \E i \in {itemCache[n][id], NoIfs} : Inform(r, id, i)
    BY <1>2 DEF GetCybertwinInterfaceByName
  <2>5. \A s \in Request : \A k \in DOMAIN answers'[s] :
           Genuine(answers[s][k].name, answers[s][k].ifs)'
    <3>1. CASE UNCHANGED answers
      BY <2>2, <3>1 DEF Authentic, Genuine
    <3>2. CASE \E i \in {itemCache[n][id], NoIfs} : Inform(r, id, i)
      BY <2>2, <2>3, <3>2, InformGenuine
    <3> QED
      BY <2>4, <3>1, <3>2
  <2>6. Authentic'
    BY <2>2, <2>5 DEF Authentic, Genuine
  <2>7. \/ UNCHANGED up
        \/ \E q \in PoolOf[n] :
              up' = [up EXCEPT ![n] = Append(@, Query(id, q))]
    BY <1>2 DEF GetCybertwinInterfaceByName
  <2>8. CASE UNCHANGED up
    BY <2>2, <2>6, <2>8 DEF ReportedGenuine, Genuine
  <2>9. ASSUME NEW q \in PoolOf[n],
               up' = [up EXCEPT ![n] = Append(@, Query(id, q))]
        PROVE  ReportedGenuine'
    <3>1. Query(id, q) \in RequestMsg /\ Query(id, q).method = "QUERY"
      BY <2>1, PoolAssumption, MessagesTyped
    <3>2. up \in [Node -> Seq(RequestMsg)]
      BY DEF TypeOK
    <3>3. OnlyNew(up, up', Query(id, q))
      BY <2>1, <2>9, <3>1, <3>2, SentAt
    <3> QED
      BY <2>2, <3>1, <3>3, UpKept
  <2> QED
    BY <2>6, <2>7, <2>8, <2>9
<1>3. ASSUME NEW n \in Node, ReportName2Superior(n)
      PROVE  ReportedGenuine' /\ Authentic'
  <2> DEFINE rec == Head(reports[n])
             m == Insert(rec.name, rec.ifs)
  <2>1. reports[n] # <<>> /\ reports \in [Node -> Seq(Record)]
        /\ up \in [Node -> Seq(RequestMsg)]
    BY <1>3 DEF ReportName2Superior, TypeOK
  <2>2. rec \in Record /\ Genuine(rec.name, rec.ifs)
    <3>1. rec \in Record /\ 1 \in DOMAIN reports[n] /\ rec = reports[n][1]
      BY <2>1, Delivered
    <3> QED
      BY <3>1 DEF Authentic
  <2>3. m \in RequestMsg /\ m.name = rec.name /\ m.ifs = rec.ifs
    BY <2>2, MessagesTyped DEF Record
  <2>4. /\ reports' = [reports EXCEPT ![n] = Tail(@)]
        /\ up' = [up EXCEPT ![n] = Append(@, m)]
        /\ UNCHANGED <<itemCache, down, answers, inserted>>
    BY <1>3 DEF ReportName2Superior, cacheVars, appVars
  <2> HIDE DEF m, rec
  <2>5. OnlyNew(up, up', m)
    BY <2>1, <2>3, <2>4, SentAt
  <2>6. OnlyNew(reports, reports', rec)
    BY <2>1, <2>4, DeliveredAt
  <2>7. ReportedGenuine'
    BY <2>2, <2>3, <2>4, <2>5, UpKept
  <2>8. \A x \in Node : \A k \in DOMAIN reports'[x] :
           Genuine(reports'[x][k].name, reports'[x][k].ifs)
    <3>1. ASSUME NEW x \in Node, NEW k \in DOMAIN reports'[x]
          PROVE  Genuine(reports'[x][k].name, reports'[x][k].ifs)
      <4>1. \/ reports'[x][k] = rec
            \/ \E j \in DOMAIN reports[x] : reports'[x][k] = reports[x][j]
        BY <2>6, <3>1 DEF OnlyNew
      <4> QED
        BY <2>2, <4>1 DEF Authentic
    <3> QED
      BY <3>1
  <2>9. Authentic'
    BY <2>4, <2>8 DEF Authentic, Genuine
  <2> QED
    BY <2>7, <2>9
<1>4. ASSUME NEW n \in Node, ProcessInsert(n)
      PROVE  ReportedGenuine' /\ Authentic'
  <2> DEFINE m == Head(up[n])
  <2>1. up[n] # <<>> /\ up \in [Node -> Seq(RequestMsg)]
    BY <1>4 DEF ProcessInsert, TypeOK
  <2>2. Superior[n] \in Node
    BY <2>1, Addressed
  <2>3. m \in RequestMsg /\ 1 \in DOMAIN up[n] /\ m = up[n][1]
    BY <2>1, Delivered
  <2>4. m.name \in Name /\ m.ifs \in Ifs /\ Genuine(m.name, m.ifs)
    BY <1>4, <2>3, RequestFields DEF ProcessInsert, ReportedGenuine
  <2>5. <<m.name, m.ifs>> \in inserted
    BY <2>4, IfsAssumption DEF Genuine
  <2>6. /\ up' = [up EXCEPT ![n] = Tail(@)]
        /\ InsertCybertwinInterfaceName(Superior[n], m.name, m.ifs)
        /\ UNCHANGED <<down, answers, inserted>>
    BY <1>4 DEF ProcessInsert, appVars
  <2> HIDE DEF m
  <2>7. /\ \A x \in Node, y \in Name : Genuine(y, itemCache[x][y])'
        /\ \A x \in Node : \A k \in DOMAIN reports'[x] :
              Genuine(reports[x][k].name, reports[x][k].ifs)'
    BY <2>2, <2>4, <2>5, <2>6, InsertGenuine
  <2>8. OnlyNew(up, up', m)
    BY <2>1, <2>6, DeliveredAt
  <2>9. ReportedGenuine'
    BY <2>4, <2>6, <2>8, UpKept
  <2>10. Authentic'
    BY <2>6, <2>7 DEF Authentic, Genuine
  <2> QED
    BY <2>9, <2>10
<1>5. ASSUME NEW c \in Node, ProcessQuery(c)
      PROVE  ReportedGenuine' /\ Authentic'
  <2> DEFINE n == Superior[c]
             id == Head(up[c]).name
             q == Head(up[c]).qid
             hit == itemCache[n][id]
  <2>1. up[c] # <<>> /\ up \in [Node -> Seq(RequestMsg)]
        /\ down \in [Node -> Seq(ResponseMsg)]
    BY <1>5 DEF ProcessQuery, TypeOK
  <2>2. n \in Node /\ n # c
    BY <2>1, Addressed
  <2>3. id \in Name /\ q \in QueryId
    <3>1. Head(up[c]) \in RequestMsg
      BY <2>1, Delivered
    <3> QED
      BY <1>5, <3>1, RequestFields DEF ProcessQuery
  <2>4. /\ Query(id, q) \in RequestMsg /\ Query(id, q).method = "QUERY"
        /\ Response(id, q, hit) \in ResponseMsg
        /\ Response(id, q, hit).name = id /\ Response(id, q, hit).ifs = hit
    <3>1. hit \in Ifs \cup {NoIfs}
      BY <2>2, <2>3 DEF TypeOK
    <3> QED
      BY <2>3, <3>1, MessagesTyped
  <2>5. Genuine(id, hit)
    BY <2>2, <2>3 DEF Authentic
  <2>6. /\ \/ up' = [up EXCEPT ![c] = Tail(@)]
           \/ up' = [up EXCEPT ![c] = Tail(@), ![n] = Append(@, Query(id, q))]
        /\ \/ UNCHANGED down
           \/ down' = [down EXCEPT ![c] = Append(@, Response(id, q, hit))]
        /\ UNCHANGED <<itemCache, reports, answers, inserted>>
    BY <1>5 DEF ProcessQuery, appVars, reportVars
  <2> HIDE DEF n, id, q, hit
  <2>7. OnlyNew(up, up', Query(id, q))
    <3>1. CASE up' = [up EXCEPT ![c] = Tail(@)]
      BY <2>1, <3>1, DeliveredAt
    <3>2. CASE up' = [up EXCEPT ![c] = Tail(@), ![n] = Append(@, Query(id, q))]
      BY <2>1, <2>2, <2>4, <3>2, Relayed
    <3> QED
      BY <2>6, <3>1, <3>2
  <2>8. OnlyNew(down, down', Response(id, q, hit))
    <3>1. CASE UNCHANGED down
      BY <3>1 DEF OnlyNew
    <3>2. CASE down' = [down EXCEPT ![c] = Append(@, Response(id, q, hit))]
      BY <2>1, <2>4, <3>2, SentAt
    <3> QED
      BY <2>6, <3>1, <3>2
  <2>9. ReportedGenuine'
    BY <2>4, <2>6, <2>7, UpKept
  <2>10. DownGenuine'
    BY <2>4, <2>5, <2>6, <2>8, DownKept
  <2>11. Authentic'
    BY <2>6, <2>10 DEF Authentic, Genuine, DownGenuine
  <2> QED
    BY <2>9, <2>11
<1>6. ASSUME NEW n \in Node, QueryResponseHandler(n)
      PROVE  ReportedGenuine' /\ Authentic'
  <2> DEFINE m == Head(down[n])
             client == queryClientCache[n][m.qid]
             waiter == queryCache[n][m.qid]
  <2>1. down[n] # <<>> /\ down \in [Node -> Seq(ResponseMsg)]
    BY <1>6 DEF QueryResponseHandler, TypeOK
  <2>2. m \in ResponseMsg /\ 1 \in DOMAIN down[n] /\ m = down[n][1]
    BY <2>1, Delivered
  <2>3. /\ m.name \in Name /\ m.qid \in QueryId /\ m.ifs \in Ifs \cup {NoIfs}
        /\ Genuine(m.name, m.ifs)
    BY <2>2 DEF ResponseMsg, Authentic
  <2>4. client # NoNode => client \in Node /\ client # n
    BY <2>3, NodeAssumption DEF ClientsBelow, TypeOK
  <2>5. /\ \/ UNCHANGED itemCache
           \/ itemCache' = [itemCache EXCEPT ![n][m.name] = m.ifs]
        /\ \/ down' = [down EXCEPT ![n] = Tail(@)]
           \/ /\ client # NoNode
              /\ down' = [down EXCEPT ![n] = Tail(@), ![client] = Append(@, m)]
        /\ \/ UNCHANGED answers
           \/ waiter \in Request /\ Inform(waiter, m.name, m.ifs)
        /\ UNCHANGED <<reports, up, inserted>>
    BY <1>6 DEF QueryResponseHandler, reportVars
  <2> HIDE DEF m, client, waiter
  <2>6. \A x \in Node, y \in Name : Genuine(y, itemCache[x][y])'
    <3>1. ASSUME NEW x \in Node, NEW y \in Name
          PROVE  \/ itemCache'[x][y] = itemCache[x][y]
                 \/ y = m.name /\ itemCache'[x][y] = m.ifs
      <4>1. CASE itemCache' = [itemCache EXCEPT ![n][m.name] = m.ifs]
        BY <2>3, <4>1 DEF TypeOK
      <4> QED
        BY <2>5, <4>1
    <3> QED
      BY <2>3, <2>5, <3>1 DEF Authentic, Genuine
  <2>7. OnlyNew(down, down', m)
    <3>1. CASE down' = [down EXCEPT ![n] = Tail(@)]
      BY <2>1, <3>1, DeliveredAt
    <3>2. CASE /\ client # NoNode
               /\ down' = [down EXCEPT ![n] = Tail(@), ![client] = Append(@, m)]
      BY <2>1, <2>2, <2>4, <3>2, Relayed
    <3> QED
      BY <2>5, <3>1, <3>2
  <2>8. \A s \in Request : \A k \in DOMAIN answers'[s] :
           Genuine(answers[s][k].name, answers[s][k].ifs)'
    <3>1. CASE UNCHANGED answers
      BY <2>5, <3>1 DEF Authentic, Genuine
    <3>2. CASE waiter \in Request /\ Inform(waiter, m.name, m.ifs)
      BY <2>3, <2>5, <3>2, InformGenuine
    <3> QED
      BY <2>5, <3>1, <3>2
  <2>9. ReportedGenuine'
    BY <2>5 DEF ReportedGenuine, Genuine
  <2>10. Authentic'
    <3>1. DownGenuine'
      BY <2>3, <2>5, <2>7, DownKept
    <3> QED
      BY <2>5, <2>6, <2>8, <3>1 DEF Authentic, Genuine, DownGenuine
  <2> QED
    BY <2>9, <2>10
<1>7. ASSUME NEW n \in Node, Lose(n)
      PROVE  ReportedGenuine' /\ Authentic'
  <2>1. /\ up \in [Node -> Seq(RequestMsg)]
        /\ down \in [Node -> Seq(ResponseMsg)]
    BY DEF TypeOK
  <2>2. UNCHANGED <<itemCache, reports, answers, inserted>>
    BY <1>7 DEF Lose, cacheVars, appVars, reportVars
  <2>3. CASE /\ up[n] # <<>>
             /\ up' = [up EXCEPT ![n] = Tail(@)]
             /\ UNCHANGED down
    <3> DEFINE m == Head(up[n])
    <3>1. m.method = "INSERT" => Genuine(m.name, m.ifs)
      BY <2>1, <2>3, Delivered DEF ReportedGenuine
    <3>2. OnlyNew(up, up', m)
      BY <2>1, <2>3, DeliveredAt
    <3>3. ReportedGenuine'
      BY <2>2, <3>1, <3>2, UpKept
    <3> QED
      BY <2>2, <2>3, <3>3 DEF Authentic, Genuine
  <2>4. CASE /\ down[n] # <<>>
             /\ down' = [down EXCEPT ![n] = Tail(@)]
             /\ UNCHANGED up
    <3> DEFINE m == Head(down[n])
    <3>1. Genuine(m.name, m.ifs)
      BY <2>1, <2>4, Delivered DEF Authentic
    <3>2. OnlyNew(down, down', m)
      BY <2>1, <2>4, DeliveredAt
    <3>3. DownGenuine'
      BY <2>2, <3>1, <3>2, DownKept
    <3>4. Authentic'
      BY <2>2, <3>3 DEF Authentic, Genuine, DownGenuine
    <3>5. ReportedGenuine'
      BY <2>2, <2>4 DEF ReportedGenuine, Genuine
    <3> QED
      BY <3>4, <3>5
  <2> QED
    BY <1>7, <2>3, <2>4 DEF Lose
<1>8. CASE UNCHANGED vars
  BY <1>8 DEF ReportedGenuine, Authentic, Genuine, vars, cacheVars, netVars,
              appVars, reportVars
<1> QED
  BY <1>1, <1>2, <1>3, <1>4, <1>5, <1>6, <1>7, <1>8 DEF Next

-----------------------------------------------------------------------------
(* The theorems.                                                           *)

IInv == TypeOK /\ RootSilent /\ ClientsBelow /\ ReportedGenuine /\ Authentic

\* Initially nothing is cached, scheduled, under way or answered.
LEMMA InitIInv ==
    Init => IInv
<1> SUFFICES ASSUME Init
             PROVE  IInv
  OBVIOUS
<1>1. TypeOK
  BY DEF Init, TypeOK
<1>2. RootSilent /\ ClientsBelow /\ ReportedGenuine
  BY DEF Init, RootSilent, ClientsBelow, ReportedGenuine
<1>3. Authentic
  BY DEF Init, Authentic, Genuine
<1> QED
  BY <1>1, <1>2, <1>3 DEF IInv

\* The strengthened invariant holds throughout.
THEOREM Inductive ==
    Spec => []IInv
<1>1. IInv /\ [Next]_vars => IInv'
  BY TypeStep, SilentStep, ClientsStep, GenuineStep DEF IInv
<1> QED
  BY InitIInv, <1>1, PTL DEF Spec

\* Caches, schedules, datagrams and answers keep their types: no handler of
\* CybertwinNameResolutionService is entered for a node that does not exist.
THEOREM TypeCorrectness ==
    Spec => []TypeOK
<1>1. IInv => TypeOK
  BY DEF IInv
<1> QED
  BY Inductive, <1>1, PTL

\* No node caches, reports or answers an interface list that was not inserted
\* for the name, for any tree, any choice of query ids and any losses.
THEOREM AlwaysAuthentic ==
    Spec => []Authentic
<1>1. IInv => Authentic
  BY DEF IInv
<1> QED
  BY Inductive, <1>1, PTL

=============================================================================
