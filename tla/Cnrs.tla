-------------------------------- MODULE Cnrs --------------------------------
(***************************************************************************)
(* The Cybertwin name resolution service                                   *)
(* (src/cybertwin/model/networks/cybertwin-name-resolution-service.cc).    *)
(*                                                                         *)
(* The nodes form a tree: every node but the root has a superior.  A node  *)
(* keeps the names it has heard of in itemCache, reports insertions to its *)
(* superior and asks it about names it misses.  Requests and answers are   *)
(* UDP datagrams: those of one link arrive in the order they were sent, or *)
(* are lost; nothing is ever sent again.                                   *)
(***************************************************************************)
EXTENDS Integers, Sequences, FiniteSets

CONSTANTS
    Node,
    Superior,    \* the superior of a node, NoNode for the root
    NoNode,
    AppNode,     \* the nodes whose applications insert and query names
    Name,        \* cybertwin ids
    Ifs,         \* non-empty interface lists
    NoIfs,       \* the empty list; in itemCache: no entry
    Request,     \* calls of GetCybertwinInterfaceByName, by their callbacks
    Relay,       \* QueryResponseCallback, stored for a query of another node
    NoReq,       \* no entry in m_queryCache
    QueryId,
    PoolOf,      \* the ids a node's GetQueryID can draw
    MaxInserts,  \* bound on insertions by applications
    MaxLosses    \* bound on lost datagrams

ASSUME NodeAssumption ==
    /\ NoNode \notin Node
    /\ Superior \in [Node -> Node \cup {NoNode}]
    /\ \A n \in Node : Superior[n] # n
    /\ AppNode \subseteq Node
ASSUME IfsAssumption == NoIfs \notin Ifs
ASSUME RequestAssumption ==
    /\ Relay \notin Request /\ NoReq \notin Request /\ Relay # NoReq
    /\ NoReq \notin [node : Node, name : Name]
ASSUME PoolAssumption == PoolOf \in [Node -> SUBSET QueryId]
ASSUME BoundsAssumption == MaxInserts \in Nat /\ MaxLosses \in Nat

VARIABLES
    itemCache,         \* [Node]: names and their interfaces
    queryCache,        \* [Node]: m_queryCache, who waits for a query id
    queryClientCache,  \* [Node]: m_queryClientCache, the inferior that asked
    reports,           \* [Node]: ReportName2Superior calls scheduled (FIFO)
    unreported,        \* names a node below the root stored but did not report
    up,                \* [Node]: datagrams from the node to its superior
    down,              \* [Node]: datagrams from the superior to the node
    asked,             \* [Request]: the node and name of the call, or NoReq
    answers,           \* [Request]: what the callback was called with
    inserted,          \* <<name, ifs>> pairs applications inserted
    inserts, losses    \* how many so far

cacheVars == <<itemCache, queryCache, queryClientCache>>
reportVars == <<reports, unreported>>
netVars == <<up, down>>
appVars == <<asked, answers>>
vars == <<cacheVars, reportVars, netVars, appVars, inserted, inserts, losses>>

IsRoot(n) == Superior[n] = NoNode

\* What the service as a whole promises.
Service == INSTANCE NameService WITH Top <- {n \in Node : IsRoot(n)}

Record == [name : Name, ifs : Ifs]
Question == [node : Node, name : Name]
Answer == [name : Name, ifs : Ifs \cup {NoIfs}]

\* CNRS_QUERY, CNRS_INSERT; CNRS_QUERY_OK and CNRS_QUERY_FAIL are an answer
\* with and without interfaces.
Query(id, q) == [method |-> "QUERY", name |-> id, qid |-> q]
Insert(id, i) == [method |-> "INSERT", name |-> id, ifs |-> i]
Response(id, q, i) == [name |-> id, qid |-> q, ifs |-> i]

RequestMsg == [method : {"QUERY"}, name : Name, qid : QueryId]
                 \cup [method : {"INSERT"}, name : Name, ifs : Ifs]
ResponseMsg == [name : Name, qid : QueryId, ifs : Ifs \cup {NoIfs}]

TypeOK ==
    /\ itemCache \in [Node -> [Name -> Ifs \cup {NoIfs}]]
    /\ queryCache \in [Node -> [QueryId -> Request \cup {Relay, NoReq}]]
    /\ queryClientCache \in [Node -> [QueryId -> Node \cup {NoNode}]]
    /\ reports \in [Node -> Seq(Record)]
    /\ unreported \in SUBSET Name
    /\ up \in [Node -> Seq(RequestMsg)]
    /\ down \in [Node -> Seq(ResponseMsg)]
    /\ asked \in [Request -> Question \cup {NoReq}]
    /\ answers \in [Request -> Seq(Answer)]
    /\ inserted \in SUBSET (Name \X Ifs)
    /\ inserts \in Nat
    /\ losses \in Nat

Init ==
    /\ itemCache = [n \in Node |-> [x \in Name |-> NoIfs]]
    /\ queryCache = [n \in Node |-> [q \in QueryId |-> NoReq]]
    /\ queryClientCache = [n \in Node |-> [q \in QueryId |-> NoNode]]
    /\ reports = [n \in Node |-> <<>>]
    /\ unreported = {}
    /\ up = [n \in Node |-> <<>>]
    /\ down = [n \in Node |-> <<>>]
    /\ asked = [r \in Request |-> NoReq]
    /\ answers = [r \in Request |-> <<>>]
    /\ inserted = {}
    /\ inserts = 0
    /\ losses = 0

-----------------------------------------------------------------------------
(* Insertion.                                                              *)

\* A new value is stored and reported, unless m_isCNRSRoot says that this is
\* the root.  The flag is copied from the node's, which is only ever set, to
\* TRUE at the root: below the root it was never initialised and may read as
\* either.  (A report that the root schedules before InitSuperior has run
\* finds no superior and does nothing.)
InsertCybertwinInterfaceName(n, id, i) ==
    IF itemCache[n][id] = i
    THEN UNCHANGED <<itemCache, reportVars>>
    ELSE /\ itemCache' = [itemCache EXCEPT ![n][id] = i]
         /\ \/ /\ ~IsRoot(n)
               /\ reports' = [reports EXCEPT
                                ![n] = Append(@, [name |-> id, ifs |-> i])]
               /\ UNCHANGED unreported
            \/ /\ unreported' = IF IsRoot(n) THEN unreported
                                ELSE unreported \cup {id}
               /\ UNCHANGED reports

\* A Cybertwin or a download server publishes its interfaces.
AppInsert(n, id, i) ==
    /\ inserts < MaxInserts
    /\ inserts' = inserts + 1
    /\ inserted' = inserted \cup {<<id, i>>}
    /\ InsertCybertwinInterfaceName(n, id, i)
    /\ UNCHANGED <<queryCache, queryClientCache, netVars, appVars, losses>>

\* Faulty variant: the list is gone when the scheduled report runs.
ReportName2Superior_Emptied(n) ==
    /\ reports[n] # <<>>
    /\ reports' = [reports EXCEPT ![n] = Tail(@)]
    /\ up' = [up EXCEPT ![n] = Append(@, Insert(Head(reports[n]).name, NoIfs))]
    /\ UNCHANGED <<cacheVars, unreported, down, appVars, inserted, inserts,
                   losses>>

ReportName2Superior(n) ==
    /\ reports[n] # <<>>
    /\ reports' = [reports EXCEPT ![n] = Tail(@)]
    /\ up' = [up EXCEPT ![n] = Append(@, Insert(Head(reports[n]).name,
                                                Head(reports[n]).ifs))]
    /\ UNCHANGED <<cacheVars, unreported, down, appVars, inserted, inserts,
                   losses>>

\* Faulty variant: an insertion of an inferior is stored, not reported on.
ProcessInsert_NoReport(c) ==
    /\ up[c] # <<>>
    /\ Head(up[c]).method = "INSERT"
    /\ up' = [up EXCEPT ![c] = Tail(@)]
    /\ itemCache' = [itemCache EXCEPT
                       ![Superior[c]][Head(up[c]).name] = Head(up[c]).ifs]
    /\ UNCHANGED <<queryCache, queryClientCache, reportVars, down, appVars,
                   inserted, inserts, losses>>

\* The answer goes through a socket that is not connected: it is never sent.
ProcessInsert(c) ==
    /\ up[c] # <<>>
    /\ Head(up[c]).method = "INSERT"
    /\ up' = [up EXCEPT ![c] = Tail(@)]
    /\ InsertCybertwinInterfaceName(Superior[c], Head(up[c]).name,
                                    Head(up[c]).ifs)
    /\ UNCHANGED <<queryCache, queryClientCache, down, appVars, inserted,
                   inserts, losses>>

-----------------------------------------------------------------------------
(* Resolution.                                                             *)

\* The callback of a local request runs.
Inform(r, id, i) ==
    answers' = [answers EXCEPT ![r] = Append(@, [name |-> id, ifs |-> i])]

\* Faulty variant: the superior is asked after a hit too.
GetCybertwinInterfaceByName_NoElse(r, n, id) ==
    /\ asked[r] = NoReq
    /\ asked' = [asked EXCEPT ![r] = [node |-> n, name |-> id]]
    /\ answers' = IF itemCache[n][id] = NoIfs THEN answers
                  ELSE [answers EXCEPT ![r] = Append(@,
                          [name |-> id, ifs |-> itemCache[n][id]])]
    /\ \E q \in PoolOf[n] :
          /\ queryCache[n][q] = NoReq
          /\ queryCache' = [queryCache EXCEPT ![n][q] = r]
          /\ up' = IF IsRoot(n) THEN up
                   ELSE [up EXCEPT ![n] = Append(@, Query(id, q))]
    /\ UNCHANGED <<itemCache, queryClientCache, reportVars, down, inserted,
                   inserts, losses>>

\* A hit calls back at once.  A miss draws an id that m_queryCache does not
\* hold and asks the superior; at the root it calls back with an empty list
\* and leaves the entry in m_queryCache.
GetCybertwinInterfaceByName(r, n, id) ==
    /\ asked[r] = NoReq
    /\ asked' = [asked EXCEPT ![r] = [node |-> n, name |-> id]]
    /\ \/ /\ itemCache[n][id] # NoIfs
          /\ Inform(r, id, itemCache[n][id])
          /\ UNCHANGED <<queryCache, up>>
       \/ /\ itemCache[n][id] = NoIfs
          /\ \E q \in PoolOf[n] :
                /\ queryCache[n][q] = NoReq
                /\ queryCache' = [queryCache EXCEPT ![n][q] = r]
                /\ IF IsRoot(n)
                   THEN Inform(r, id, NoIfs) /\ UNCHANGED up
                   ELSE /\ up' = [up EXCEPT ![n] = Append(@, Query(id, q))]
                        /\ UNCHANGED answers
    /\ UNCHANGED <<itemCache, queryClientCache, reportVars, down, inserted,
                   inserts, losses>>

\* Faulty variant: any entry of itemCache counts as a hit.
ProcessQuery_AnyEntry(c) ==
    /\ up[c] # <<>>
    /\ Head(up[c]).method = "QUERY"
    /\ up' = [up EXCEPT ![c] = Tail(@)]
    /\ \E x \in Name :
          /\ itemCache[Superior[c]][x] # NoIfs
          /\ down' = [down EXCEPT
                        ![c] = Append(@, Response(Head(up[c]).name,
                                                  Head(up[c]).qid,
                                                  itemCache[Superior[c]][x]))]
    /\ UNCHANGED <<cacheVars, reportVars, appVars, inserted, inserts, losses>>

\* Node c asks its superior n.  A hit is answered from the cache.  A miss is
\* remembered under the id of the inferior's choosing and passed on with it;
\* at the root QuerySuperiorFail only calls QueryResponseCallback, which
\* does nothing, and the entries stay.
ProcessQuery(c) ==
    /\ up[c] # <<>>
    /\ Head(up[c]).method = "QUERY"
    /\ LET n == Superior[c]
           id == Head(up[c]).name
           q == Head(up[c]).qid
       IN  IF itemCache[n][id] # NoIfs
           THEN /\ down' = [down EXCEPT
                              ![c] = Append(@, Response(id, q,
                                                        itemCache[n][id]))]
                /\ up' = [up EXCEPT ![c] = Tail(@)]
                /\ UNCHANGED <<queryCache, queryClientCache>>
           ELSE /\ queryClientCache' = [queryClientCache EXCEPT ![n][q] = c]
                /\ queryCache' = [queryCache EXCEPT ![n][q] = Relay]
                /\ up' = IF IsRoot(n) THEN [up EXCEPT ![c] = Tail(@)]
                         ELSE [up EXCEPT ![c] = Tail(@),
                                         ![n] = Append(@, Query(id, q))]
                /\ UNCHANGED down
    /\ UNCHANGED <<itemCache, reportVars, appVars, inserted, inserts, losses>>

\* Faulty variant: m_queryCache is looked up before m_queryClientCache.
QueryResponseHandler_LocalFirst(n) ==
    /\ down[n] # <<>>
    /\ LET m == Head(down[n])
           client == queryClientCache[n][m.qid]
           waiter == queryCache[n][m.qid]
       IN  /\ itemCache' = IF m.ifs = NoIfs THEN itemCache
                           ELSE [itemCache EXCEPT ![n][m.name] = m.ifs]
           /\ down' = IF waiter # NoReq \/ client = NoNode
                      THEN [down EXCEPT ![n] = Tail(@)]
                      ELSE [down EXCEPT ![n] = Tail(@),
                                        ![client] = Append(@, m)]
           /\ queryCache' = [queryCache EXCEPT ![n][m.qid] = NoReq]
           /\ IF waiter \in Request THEN Inform(waiter, m.name, m.ifs)
              ELSE UNCHANGED answers
    /\ UNCHANGED <<queryClientCache, reportVars, up, asked, inserted, inserts,
                   losses>>

\* Faulty variant: the entry of a local call is left in m_queryCache.
QueryResponseHandler_KeepEntry(n) ==
    /\ down[n] # <<>>
    /\ LET m == Head(down[n])
           client == queryClientCache[n][m.qid]
           waiter == queryCache[n][m.qid]
       IN  /\ itemCache' = IF m.ifs = NoIfs THEN itemCache
                           ELSE [itemCache EXCEPT ![n][m.name] = m.ifs]
           /\ down' = IF client = NoNode THEN [down EXCEPT ![n] = Tail(@)]
                      ELSE [down EXCEPT ![n] = Tail(@),
                                        ![client] = Append(@, m)]
           /\ queryClientCache' = [queryClientCache EXCEPT
                                     ![n][m.qid] = NoNode]
           /\ IF client = NoNode /\ waiter \in Request
              THEN Inform(waiter, m.name, m.ifs)
              ELSE UNCHANGED answers
    /\ UNCHANGED <<queryCache, reportVars, up, asked, inserted, inserts,
                   losses>>

\* An answer of the superior is cached, then passed to the inferior that
\* asked or, if there is none, to the local request that waits for the id.
QueryResponseHandler(n) ==
    /\ down[n] # <<>>
    /\ LET m == Head(down[n])
           client == queryClientCache[n][m.qid]
           waiter == queryCache[n][m.qid]
       IN  /\ itemCache' = IF m.ifs = NoIfs THEN itemCache
                           ELSE [itemCache EXCEPT ![n][m.name] = m.ifs]
           /\ down' = IF client = NoNode THEN [down EXCEPT ![n] = Tail(@)]
                      ELSE [down EXCEPT ![n] = Tail(@),
                                        ![client] = Append(@, m)]
           /\ queryClientCache' = [queryClientCache EXCEPT
                                     ![n][m.qid] = NoNode]
           /\ IF client = NoNode /\ waiter \in Request
              THEN Inform(waiter, m.name, m.ifs)
              ELSE UNCHANGED answers
           /\ queryCache' = IF client = NoNode
                            THEN [queryCache EXCEPT ![n][m.qid] = NoReq]
                            ELSE queryCache
    /\ UNCHANGED <<reportVars, up, asked, inserted, inserts, losses>>

\* A datagram is dropped on the way.
Lose(n) ==
    /\ losses < MaxLosses
    /\ losses' = losses + 1
    /\ \/ /\ up[n] # <<>>
          /\ up' = [up EXCEPT ![n] = Tail(@)]
          /\ UNCHANGED down
       \/ /\ down[n] # <<>>
          /\ down' = [down EXCEPT ![n] = Tail(@)]
          /\ UNCHANGED up
    /\ UNCHANGED <<cacheVars, reportVars, appVars, inserted, inserts>>

-----------------------------------------------------------------------------
Next ==
    \/ \E n \in AppNode, id \in Name :
          \/ \E i \in Ifs : AppInsert(n, id, i)
          \/ \E r \in Request : GetCybertwinInterfaceByName(r, n, id)
    \/ \E n \in Node :
          \/ ReportName2Superior(n)
          \/ ProcessInsert(n)
          \/ ProcessQuery(n)
          \/ QueryResponseHandler(n)
          \/ Lose(n)

Spec == Init /\ [][Next]_vars

\* Scheduled reports run and datagrams that are not lost are delivered.
Fairness ==
    \A n \in Node :
        /\ WF_vars(ReportName2Superior(n))
        /\ WF_vars(ProcessInsert(n))
        /\ WF_vars(ProcessQuery(n))
        /\ WF_vars(QueryResponseHandler(n))

FairSpec == Spec /\ Fairness

-----------------------------------------------------------------------------
(* Properties.                                                             *)

Genuine(id, i) == i = NoIfs \/ <<id, i>> \in inserted

\* No node ever caches, reports or hands to an application an interface list
\* that was not inserted for that very name, however queries, reports and
\* answers of several nodes cross, are lost, or meet on one query id.
Authentic ==
    /\ \A n \in Node, id \in Name : Genuine(id, itemCache[n][id])
    /\ \A n \in Node : \A k \in DOMAIN down[n] :
          Genuine(down[n][k].name, down[n][k].ifs)
    /\ \A n \in Node : \A k \in DOMAIN reports[n] :
          Genuine(reports[n][k].name, reports[n][k].ifs)
    /\ \A r \in Request : \A k \in DOMAIN answers[r] :
          Genuine(answers[r][k].name, answers[r][k].ifs)

\* As long as no two nodes draw the same query id, the callback passed to
\* GetCybertwinInterfaceByName runs at most once and with the name it asked.
AnswersMatchQuestions ==
    \A r \in Request :
        /\ Len(answers[r]) <= 1
        /\ \A k \in DOMAIN answers[r] :
              asked[r] # NoReq /\ answers[r][k].name = asked[r].name

\* A call made below the root holds an entry of m_queryCache exactly as long
\* as it waits: no crossing query, answer or relay overwrites or removes the
\* entry of a call that still waits, and none is left behind by an answer.
WaitingCallsHaveEntry ==
    \A r \in Request :
        asked[r] # NoReq /\ ~IsRoot(asked[r].node)
           => (answers[r] = <<>>
                 <=> \E q \in QueryId : queryCache[asked[r].node][q] = r)

\* The tree of nodes, with its caches, reports, relayed queries and lost
\* datagrams, keeps the promises of NameService to the callers of
\* InsertCybertwinInterfaceName and GetCybertwinInterfaceByName.
ImplementsNameService == Service!Spec

Known(id) == \A n \in Node : IsRoot(n) => itemCache[n][id] # NoIfs

\* The query of request r is still going up.
UnderWay(r) ==
    /\ asked[r] # NoReq
    /\ \E q \in QueryId, n \in Node :
          /\ queryCache[asked[r].node][q] = r
          /\ \E k \in DOMAIN up[n] : up[n][k] = Query(asked[r].name, q)

\* A query that is under way when the root knows the name is answered with
\* interfaces, unless a datagram is lost: no relay of ProcessQuery and
\* QueryResponseHandler forgets whom to pass the answer to.
KnownNamesResolve ==
    \A r \in Request :
        UnderWay(r) /\ Known(asked[r].name)
           ~> \/ \E k \in DOMAIN answers[r] : answers[r][k].ifs # NoIfs
              \/ losses > 0

\* A name inserted anywhere reaches the root, unless a datagram is lost or a
\* node takes itself for the root; the early return that is to prevent circles
\* in InsertCybertwinInterfaceName never stops a report half-way.
RootLearns ==
    \A id \in Name :
        (\E n \in Node : itemCache[n][id] # NoIfs)
           ~> Known(id) \/ losses > 0 \/ id \in unreported

\* ProcessQuery: "query fail, response to client": a query is answered, if
\* only by a failure, unless a datagram is lost.
QueriesAnswered ==
    \A r \in Request : asked[r] # NoReq ~> answers[r] # <<>> \/ losses > 0
=============================================================================
