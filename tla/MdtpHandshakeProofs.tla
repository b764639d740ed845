------------------------ MODULE MdtpHandshakeProofs ------------------------
(***************************************************************************)
(* Proofs about MdtpHandshake, for any number of clients, paths and keys   *)
(* and any number of broken TCP connections.                               *)
(***************************************************************************)
EXTENDS MdtpHandshake, FiniteSetTheorems, TLAPS

\* A connection id is never 0, the id of a build request: the high word holds
\* a key, and GenerateKey never returns 0.
LEMMA ConnIDsArePositive ==
    ASSUME NEW id \in ConnIDs
    PROVE  id \in Nat /\ id # 0
<1>1. PICK k1 \in Key, k2 \in Key : id = SP_KEYS_TO_CONNEID(k1, k2)
    BY DEF ConnIDs
<1>2. k1 \in Nat /\ k2 \in Nat /\ k2 >= 1 /\ KeyShift \in Nat
    BY KeyAssumption
<1>3. k1 * KeyShift \in Nat
    BY <1>2
<1>4. QED
    BY <1>1, <1>2, <1>3 DEF SP_KEYS_TO_CONNEID

\* The high word of a connection id is the client's key: shifting by the
\* width of a key keeps the two keys apart.
LEMMA HighWordIsTheKey ==
    ASSUME NEW k1 \in Key, NEW k2 \in Key, NEW l1 \in Key, NEW l2 \in Key,
           SP_KEYS_TO_CONNEID(k1, k2) = SP_KEYS_TO_CONNEID(l1, l2)
    PROVE  k1 = l1
<1>1. /\ KeyShift \in Nat /\ k1 \in Nat /\ l1 \in Nat
      /\ k2 \in 1..(KeyShift - 1) /\ l2 \in 1..(KeyShift - 1)
    BY KeyAssumption
<1>2. ASSUME NEW a \in Nat, NEW b \in Nat, a < b
      PROVE  a * KeyShift + KeyShift <= b * KeyShift
  <2>1. PICK d \in Nat : b = a + 1 + d
    <3>1. b - a - 1 \in Nat /\ b = a + 1 + (b - a - 1)
        BY <1>2
    <3>2. QED
        BY <3>1
  <2>2. b * KeyShift = a * KeyShift + KeyShift + d * KeyShift
      BY <1>1, <2>1
  <2>3. d * KeyShift \in Nat /\ a * KeyShift \in Nat
      BY <1>1, <2>1
  <2>4. QED
      BY <1>1, <2>2, <2>3
<1>3. k1 * KeyShift \in Nat /\ l1 * KeyShift \in Nat
    BY <1>1
<1>4. ~(k1 < l1)
    BY <1>1, <1>2, <1>3 DEF SP_KEYS_TO_CONNEID
<1>5. ~(l1 < k1)
    BY <1>1, <1>2, <1>3 DEF SP_KEYS_TO_CONNEID
<1>6. QED
    BY <1>1, <1>4, <1>5

\* Appending to one queue of a family of queues.
LEMMA AppendAt ==
    ASSUME NEW D, NEW S, NEW f \in [D -> Seq(S)], NEW d \in D, NEW e \in S
    PROVE  [f EXCEPT ![d] = Append(@, e)] \in [D -> Seq(S)]
<1>1. Append(f[d], e) \in Seq(S)
    OBVIOUS
<1>2. QED
    BY <1>1

-----------------------------------------------------------------------------
(* Types.                                                                  *)

\* The calls that are scheduled: AddInitConnectPath and PathJoinResult name a
\* path of the connection they are called on.
ScheduledCall ==
    {e \in Event : e.op \in {"AddInitConnectPath", "PathJoinResult"} =>
                       e.path \in Path /\ e.conn = ConnOf[e.path]}

EventsNamePaths == events \in Seq(ScheduledCall)

\* A path the server has accepted has a key.
AcceptedPathsHaveKeys == \A p \in Path : srvState[p] # "NONE" => srvKey[p] \in Key

TypeInv == TypeOK /\ EventsNamePaths /\ AcceptedPathsHaveKeys

\* The types hold initially.
LEMMA InitTypeInv == Init => TypeInv
    BY DEF Init, TypeInv, TypeOK, PathStatus, TcpState, EventsNamePaths, AcceptedPathsHaveKeys

\* A call that names a path of its connection may be scheduled.
LEMMA CallIsScheduled ==
    ASSUME NEW op \in Ops, NEW c \in Conn, NEW p \in Path \cup {NoPath}, NEW ok \in BOOLEAN,
           op \in {"AddInitConnectPath", "PathJoinResult"} => p \in Path /\ c = ConnOf[p]
    PROVE  Call(op, c, p, ok) \in ScheduledCall
    BY DEF Call, ScheduledCall, Event

\* What the first scheduled call looks like, and what remains.
LEMMA FirstCall ==
    ASSUME events \in Seq(ScheduledCall), events # <<>>
    PROVE  /\ Head(events) \in ScheduledCall
           /\ Head(events).conn \in Conn
           /\ Head(events).path \in Path \cup {NoPath}
           /\ Tail(events) \in Seq(ScheduledCall)
    BY DEF ScheduledCall, Event

\* Scheduling one more call.
LEMMA OneMoreCall ==
    ASSUME NEW s \in Seq(ScheduledCall), NEW e \in ScheduledCall
    PROVE  Append(s, e) \in Seq(ScheduledCall)
    OBVIOUS

\* Scheduled calls are events.
LEMMA CallsAreEvents ==
    ASSUME NEW s \in Seq(ScheduledCall)
    PROVE  s \in Seq(Event)
    BY DEF ScheduledCall

\* A client has a number of paths.
LEMMA PathNumType ==
    ASSUME NEW c \in Conn
    PROVE  Cardinality(PathsOf(c)) \in Nat
<1>1. PathsOf(c) \subseteq Path
    BY DEF PathsOf
<1>2. IsFiniteSet(PathsOf(c))
    BY <1>1, PathAssumption, FS_Subset
<1>3. QED
    BY <1>2, FS_CardinalityType

\* Every step keeps the types.
LEMMA NextTypeInv == TypeInv /\ [Next]_vars => TypeInv'
<1> SUFFICES ASSUME TypeOK, EventsNamePaths, AcceptedPathsHaveKeys, [Next]_vars
             PROVE  TypeOK' /\ EventsNamePaths' /\ AcceptedPathsHaveKeys'
    BY DEF TypeInv
<1> USE ConnOfAssumption, NoPathAssumption
<1>1. ASSUME NEW c \in Conn, OnCybertwinInterfaceResolved(c)
      PROVE  TypeOK' /\ EventsNamePaths' /\ AcceptedPathsHaveKeys'
  <2>1. /\ pathNum' = [pathNum EXCEPT ![c] = Cardinality(PathsOf(c))]
        /\ UNCHANGED <<localKey, connID, connState, rawReady, rawFail, paths,
                       errorPath, notified, pathState, pathConnID, srvVars,
                       netVars, events, breaks>>
      BY <1>1 DEF OnCybertwinInterfaceResolved
  <2>2. tcp' \in [Path -> TcpState]
    <3>1. PICK unrouted \in SUBSET PathsOf(c) :
            tcp' = [p \in Path |-> IF p \in unrouted THEN "UNROUTED"
                                   ELSE IF ConnOf[p] = c THEN "SYN_SENT"
                                   ELSE tcp[p]]
        BY <1>1 DEF OnCybertwinInterfaceResolved
    <3>2. tcp \in [Path -> TcpState]
        BY DEF TypeOK
    <3>3. QED
        BY <3>1, <3>2 DEF TcpState
  <2>3. pathNum' \in [Conn -> Nat]
      BY <2>1, PathNumType DEF TypeOK
  <2>4. QED
      BY <2>1, <2>2, <2>3 DEF TypeOK, EventsNamePaths, AcceptedPathsHaveKeys,
         srvVars, netVars
<1>2. ASSUME NEW p \in Path, NEW ready \in BOOLEAN, AddRawPath(p, ready)
      PROVE  /\ rawReady' \in [Conn -> Seq(Path)]
             /\ rawFail' \in [Conn -> Seq(Path)]
             /\ events' \in Seq(ScheduledCall)
  <2>1. rawReady' \in [Conn -> Seq(Path)] /\ rawFail' \in [Conn -> Seq(Path)]
      BY <1>2 DEF AddRawPath, TypeOK
  <2>2. Call("BuildConnection", ConnOf[p], NoPath, TRUE) \in ScheduledCall
      BY CallIsScheduled DEF Ops
  <2>3. \/ events' = events
        \/ events' = Append(events, Call("BuildConnection", ConnOf[p], NoPath, TRUE))
      BY <1>2 DEF AddRawPath
  <2>4. events' \in Seq(ScheduledCall)
      BY <2>2, <2>3, OneMoreCall DEF EventsNamePaths
  <2>5. QED
      BY <2>1, <2>4
<1>3. ASSUME NEW p \in Path, PathConnectSucceeded(p) \/ PathConnectFailed(p)
      PROVE  TypeOK' /\ EventsNamePaths' /\ AcceptedPathsHaveKeys'
  <2>1. \E ready \in BOOLEAN : AddRawPath(p, ready)
      BY <1>3 DEF PathConnectSucceeded, PathConnectFailed
  <2>2. /\ rawReady' \in [Conn -> Seq(Path)]
        /\ rawFail' \in [Conn -> Seq(Path)]
        /\ events' \in Seq(ScheduledCall) /\ events' \in Seq(Event)
      BY <2>1, <1>2, CallsAreEvents
  <2>3. /\ tcp' \in [Path -> TcpState]
        /\ pathState' \in [Path -> PathStatus]
    <3>1. CASE PathConnectSucceeded(p)
        BY <3>1 DEF PathConnectSucceeded, PathStatus, TcpState, TypeOK
    <3>2. CASE PathConnectFailed(p)
        BY <3>2 DEF PathConnectFailed, PathStatus, TcpState, TypeOK
    <3>3. QED
        BY <1>3, <3>1, <3>2
  <2>4. UNCHANGED <<localKey, connID, connState, pathNum, paths, errorPath,
                    notified, pathConnID, srvVars, netVars, breaks>>
      BY <1>3 DEF PathConnectSucceeded, PathConnectFailed
  <2>5. TypeOK'
      BY <2>2, <2>3, <2>4 DEF TypeOK, srvVars, netVars
  <2>6. QED
      BY <2>2, <2>4, <2>5 DEF EventsNamePaths, AcceptedPathsHaveKeys, srvVars
<1>4. ASSUME NEW p \in Path, PathCreatedCallback(p)
      PROVE  TypeOK' /\ EventsNamePaths' /\ AcceptedPathsHaveKeys'
  <2>1. PICK k \in Key : srvKey' = [srvKey EXCEPT ![p] = k]
      BY <1>4 DEF PathCreatedCallback
  <2>2. /\ srvKey' \in [Path -> Key \cup {0}]
        /\ srvState' \in [Path -> {"NONE", "LISTEN", "CONNECTED"}]
      BY <1>4, <2>1 DEF PathCreatedCallback, TypeOK
  <2>3. TypeOK'
      BY <1>4, <2>2 DEF PathCreatedCallback, TypeOK, connVars, pathVars, netVars
  <2>4. AcceptedPathsHaveKeys'
      BY <1>4, <2>1 DEF PathCreatedCallback, TypeOK, AcceptedPathsHaveKeys
  <2>5. QED
      BY <1>4, <2>3, <2>4 DEF PathCreatedCallback, EventsNamePaths
<1>5. ASSUME events # <<>>
      PROVE  /\ Head(events) \in ScheduledCall
             /\ Head(events).conn \in Conn
             /\ Head(events).path \in Path \cup {NoPath}
             /\ Tail(events) \in Seq(ScheduledCall) /\ Tail(events) \in Seq(Event)
    BY <1>5, FirstCall, CallsAreEvents DEF EventsNamePaths
<1>6. CASE BuildConnection
  <2> DEFINE c == Head(events).conn
  <2>1. c \in Conn /\ events' \in Seq(ScheduledCall) /\ events' \in Seq(Event)
      BY <1>5, <1>6 DEF BuildConnection, Fires
  <2>2. /\ rawReady' \in [Conn -> Seq(Path)]
        /\ toServer' \in [Path -> Seq(MultipathHeader)]
        /\ pathState' \in [Path -> PathStatus]
    <3>1. CASE rawReady[c] = <<>>
        BY <1>6, <3>1 DEF BuildConnection, TypeOK
    <3>2. CASE rawReady[c] # <<>>
      <4>1. Head(rawReady[c]) \in Path /\ Tail(rawReady[c]) \in Seq(Path)
          BY <2>1, <3>2 DEF TypeOK
      <4>2. Header(0, localKey[ConnOf[Head(rawReady[c])]]) \in MultipathHeader
          BY <4>1 DEF Header, MultipathHeader, TypeOK
      <4>3. QED
        <5>1. rawReady' \in [Conn -> Seq(Path)]
            BY <1>6, <2>1, <3>2, <4>1 DEF BuildConnection, TypeOK
        <5>2. InitConnection(Head(rawReady[c]))
            BY <1>6, <3>2 DEF BuildConnection
        <5>3. toServer' \in [Path -> Seq(MultipathHeader)]
          <6> DEFINE q == Head(rawReady[c])
                     hd == Header(0, localKey[ConnOf[q]])
          <6> HIDE DEF q, hd
          <6>1. q \in Path /\ hd \in MultipathHeader
              BY <4>1, <4>2 DEF q, hd
          <6>2. toServer' = [toServer EXCEPT ![q] = Append(@, hd)]
              BY <5>2 DEF InitConnection, q, hd
          <6>3. toServer \in [Path -> Seq(MultipathHeader)]
              BY DEF TypeOK
          <6>4. QED
              BY <6>1, <6>2, <6>3, AppendAt
        <5>4. pathState' \in [Path -> PathStatus]
            BY <4>1, <5>2 DEF InitConnection, TypeOK, PathStatus
        <5>5. QED
            BY <5>1, <5>3, <5>4
    <3>3. QED
        BY <3>1, <3>2
  <2>3. QED
      BY <1>6, <2>1, <2>2 DEF BuildConnection, TypeOK, EventsNamePaths,
         AcceptedPathsHaveKeys, srvVars
<1>7. CASE AddInitConnectPath
  <2> DEFINE c == Head(events).conn
             p == Head(events).path
  <2>1. c \in Conn /\ p \in Path
      BY <1>5, <1>7 DEF AddInitConnectPath, Fires, ScheduledCall
  <2>2. Call("ConnectOtherPath", c, NoPath, TRUE) \in ScheduledCall
      BY <2>1, CallIsScheduled DEF Ops
  <2>3. events' \in Seq(ScheduledCall) /\ events' \in Seq(Event)
      BY <1>5, <1>7, <2>2, OneMoreCall, CallsAreEvents DEF AddInitConnectPath, Fires
  <2>4. /\ connID' \in [Conn -> ConnIDs \cup {0}]
        /\ paths' \in [Conn -> Seq(Path)]
        /\ connState' \in [Conn -> {"INIT", "CONNECT"}]
        /\ notified' \in [Conn -> {"none", "succeeded", "failed"}]
    <3>1. /\ connID' = [connID EXCEPT ![c] = pathConnID[p]]
          /\ paths' = [paths EXCEPT ![c] = Append(@, p)]
          /\ connState' = [connState EXCEPT ![c] = "CONNECT"]
          /\ notified' = [notified EXCEPT ![c] = "succeeded"]
        BY <1>7 DEF AddInitConnectPath
    <3>2. /\ connID \in [Conn -> ConnIDs \cup {0}] /\ paths \in [Conn -> Seq(Path)]
          /\ connState \in [Conn -> {"INIT", "CONNECT"}]
          /\ notified \in [Conn -> {"none", "succeeded", "failed"}]
          /\ pathConnID \in [Path -> ConnIDs \cup {0}]
        BY DEF TypeOK
    <3> HIDE DEF c, p
    <3>3. QED
        BY <2>1, <3>1, <3>2
  <2>5. TypeOK'
      BY <1>7, <2>3, <2>4 DEF AddInitConnectPath, TypeOK, srvVars, netVars, pathVars
  <2>6. QED
      BY <1>7, <2>3, <2>5 DEF AddInitConnectPath, EventsNamePaths,
         AcceptedPathsHaveKeys, srvVars
<1>8. CASE ConnectOtherPath
  <2> DEFINE c == Head(events).conn
  <2>1. c \in Conn /\ events' \in Seq(ScheduledCall) /\ events' \in Seq(Event)
      BY <1>5, <1>8 DEF ConnectOtherPath, Fires
  <2>2. \A p \in Path : Header(connID[c], localKey[ConnOf[p]]) \in MultipathHeader
      BY <2>1 DEF Header, MultipathHeader, TypeOK
  <2>3. toServer' \in [Path -> Seq(MultipathHeader)]
      BY <1>8, <2>2 DEF ConnectOtherPath, TypeOK
  <2>4. /\ rawReady' = [rawReady EXCEPT ![c] = <<>>]
        /\ pathConnID' = [p \in Path |->
              IF p \in Elems(rawReady[c]) THEN connID[c] ELSE pathConnID[p]]
        /\ pathState' = [p \in Path |->
              IF p \in Elems(rawReady[c]) THEN "JOIN_SENT" ELSE pathState[p]]
        /\ UNCHANGED <<localKey, connID, connState, pathNum, rawFail, paths,
                       errorPath, notified, tcp, srvVars, toClient, breaks>>
      BY <1>8 DEF ConnectOtherPath
  <2>5. /\ rawReady' \in [Conn -> Seq(Path)]
        /\ pathConnID' \in [Path -> ConnIDs \cup {0}]
        /\ pathState' \in [Path -> PathStatus]
    <3>1. /\ rawReady \in [Conn -> Seq(Path)] /\ connID \in [Conn -> ConnIDs \cup {0}]
          /\ pathConnID \in [Path -> ConnIDs \cup {0}]
          /\ pathState \in [Path -> PathStatus]
        BY DEF TypeOK
    <3> HIDE DEF c
    <3>2. QED
        BY <2>1, <2>4, <3>1 DEF PathStatus
  <2>6. TypeOK'
      BY <2>1, <2>3, <2>4, <2>5 DEF TypeOK, srvVars
  <2>7. QED
      BY <2>1, <2>4, <2>6 DEF EventsNamePaths, AcceptedPathsHaveKeys, srvVars
<1>9. CASE PathJoinResult
  <2> DEFINE e == Head(events)
  <2>1. e.conn \in Conn /\ e.path \in Path
      BY <1>5, <1>9 DEF PathJoinResult, Fires, ScheduledCall
  <2>2. events' \in Seq(ScheduledCall) /\ events' \in Seq(Event)
      BY <1>5, <1>9 DEF PathJoinResult, Fires
  <2>3. paths' \in [Conn -> Seq(Path)] /\ errorPath' \in [Conn -> SUBSET Path]
    <3>1. CASE e.ok
      <4>1. paths' = [paths EXCEPT ![e.conn] = Append(@, e.path)]
          BY <1>9, <3>1 DEF PathJoinResult
      <4>2. paths' \in [Conn -> Seq(Path)]
          BY <2>1, <4>1, AppendAt DEF TypeOK
      <4>3. QED
          BY <1>9, <3>1, <4>2 DEF PathJoinResult, TypeOK
    <3>2. CASE ~e.ok
      <4>1. /\ errorPath' = [errorPath EXCEPT ![e.conn] = @ \cup {e.path}]
            /\ UNCHANGED paths
          BY <1>9, <3>2 DEF PathJoinResult
      <4>2. QED
          BY <2>1, <4>1 DEF TypeOK
    <3>3. QED
        BY <3>1, <3>2
  <2>4. TypeOK'
      BY <1>9, <2>2, <2>3 DEF PathJoinResult, TypeOK, srvVars, netVars, pathVars
  <2>5. QED
      BY <1>9, <2>2, <2>4 DEF PathJoinResult, EventsNamePaths,
         AcceptedPathsHaveKeys, srvVars
<1>10. ASSUME NEW p \in Path, NEW id \in ConnIDs, Accept(p, id), srvKey[p] \in Key
       PROVE  /\ srvState' \in [Path -> {"NONE", "LISTEN", "CONNECTED"}]
              /\ srvConnID' \in [Path -> ConnIDs \cup {0}]
              /\ toClient' \in [Path -> Seq(MultipathHeader)]
  <2>1. Header(id, srvKey[p]) \in MultipathHeader
      BY <1>10 DEF Header, MultipathHeader
  <2>2. QED
      BY <1>10, <2>1 DEF Accept, TypeOK
<1>11. ASSUME NEW p \in Path, ProcessListen(p)
       PROVE  TypeOK' /\ EventsNamePaths' /\ AcceptedPathsHaveKeys'
  <2> DEFINE h == Head(toServer[p])
             id == SP_KEYS_TO_CONNEID(h.key, srvKey[p])
  <2>1. h \in MultipathHeader /\ Tail(toServer[p]) \in Seq(MultipathHeader)
      BY <1>11 DEF ProcessListen, TypeOK
  <2>2. srvKey[p] \in Key /\ h.key \in Key /\ h.connId \in ConnIDs \cup {0}
      BY <1>11, <2>1 DEF ProcessListen, AcceptedPathsHaveKeys, MultipathHeader
  <2>3. toServer' \in [Path -> Seq(MultipathHeader)]
      BY <1>11, <2>1 DEF ProcessListen, TypeOK
  <2>4. /\ srvState' \in [Path -> {"NONE", "LISTEN", "CONNECTED"}]
        /\ srvConnID' \in [Path -> ConnIDs \cup {0}]
        /\ toClient' \in [Path -> Seq(MultipathHeader)]
        /\ srvConn' \in [Path -> Path \cup {NoPath}]
        /\ srvPaths' \in [Path -> Seq(Path)]
        /\ connectionIDs' \in [ConnIDs -> Path \cup {NoPath}]
    <3>1. CASE h.connId = 0
      <4>1. id \in ConnIDs
          BY <2>2 DEF ConnIDs
      <4>2. Accept(p, id) /\ NewConnectionBuilt(p, id)
          BY <1>11, <3>1 DEF ProcessListen
      <4>3. /\ srvConn' = [srvConn EXCEPT ![p] = p]
            /\ srvPaths' = [srvPaths EXCEPT ![p] = <<p>>]
            /\ connectionIDs' = [connectionIDs EXCEPT ![id] = p]
          BY <4>2 DEF NewConnectionBuilt
      <4>4. /\ srvConn \in [Path -> Path \cup {NoPath}]
            /\ srvPaths \in [Path -> Seq(Path)]
            /\ connectionIDs \in [ConnIDs -> Path \cup {NoPath}]
          BY DEF TypeOK
      <4>5. /\ srvConn' \in [Path -> Path \cup {NoPath}]
            /\ srvPaths' \in [Path -> Seq(Path)]
            /\ connectionIDs' \in [ConnIDs -> Path \cup {NoPath}]
          BY <4>1, <4>3, <4>4
      <4>6. QED
          BY <1>10, <2>2, <4>1, <4>2, <4>5
    <3>2. CASE h.connId # 0 /\ ValidConnectionID(h.connId)
      <4>1. Accept(p, h.connId) /\ NewPathJoinConnection(p, h.connId)
          BY <1>11, <3>2 DEF ProcessListen
      <4>2. h.connId \in ConnIDs /\ connectionIDs[h.connId] \in Path
          BY <2>2, <3>2 DEF ValidConnectionID, TypeOK
      <4>3. QED
        <5>1. /\ srvConn' \in [Path -> Path \cup {NoPath}]
              /\ srvPaths' \in [Path -> Seq(Path)]
              /\ connectionIDs' \in [ConnIDs -> Path \cup {NoPath}]
          <6> DEFINE conn == connectionIDs[h.connId]
          <6>1. srvPaths' = [srvPaths EXCEPT ![conn] = Append(@, p)]
              BY <4>1 DEF NewPathJoinConnection
          <6>2. srvPaths' \in [Path -> Seq(Path)]
              BY <4>2, <6>1, AppendAt DEF TypeOK
          <6>3. QED
              BY <4>1, <4>2, <6>2 DEF NewPathJoinConnection, TypeOK
        <5>2. QED
            BY <1>10, <2>2, <4>1, <4>2, <5>1
    <3>3. CASE h.connId # 0 /\ ~ValidConnectionID(h.connId)
        BY <1>11, <3>3 DEF ProcessListen, TypeOK
    <3>4. QED
        BY <3>1, <3>2, <3>3
  <2>5. TypeOK'
      BY <1>11, <2>3, <2>4 DEF ProcessListen, TypeOK, connVars, pathVars
  <2>6. AcceptedPathsHaveKeys'
      BY <1>11, <2>2 DEF ProcessListen, Accept, TypeOK, AcceptedPathsHaveKeys
  <2>7. QED
      BY <1>11, <2>5, <2>6 DEF ProcessListen, EventsNamePaths
<1>12. ASSUME NEW p \in Path, ProcessBuildSent(p)
       PROVE  TypeOK' /\ EventsNamePaths' /\ AcceptedPathsHaveKeys'
  <2>1. /\ Head(toClient[p]).connId \in ConnIDs \cup {0}
        /\ Tail(toClient[p]) \in Seq(MultipathHeader)
    <3>1. toClient[p] \in Seq(MultipathHeader) /\ toClient[p] # <<>>
        BY <1>12 DEF ProcessBuildSent, TypeOK
    <3>2. Head(toClient[p]) \in MultipathHeader /\ Tail(toClient[p]) \in Seq(MultipathHeader)
        BY <3>1
    <3>3. QED
        BY <3>2 DEF MultipathHeader
  <2>2. Call("AddInitConnectPath", ConnOf[p], p, TRUE) \in ScheduledCall
      BY CallIsScheduled DEF Ops
  <2>3. events' \in Seq(ScheduledCall) /\ events' \in Seq(Event)
      BY <1>12, <2>2, OneMoreCall, CallsAreEvents DEF ProcessBuildSent, EventsNamePaths
  <2>4. QED
      BY <1>12, <2>1, <2>3 DEF ProcessBuildSent, PathStatus, TypeOK, EventsNamePaths,
         AcceptedPathsHaveKeys, connVars, srvVars
<1>13. ASSUME NEW p \in Path, ProcessJoinSent(p)
       PROVE  TypeOK' /\ EventsNamePaths' /\ AcceptedPathsHaveKeys'
  <2> DEFINE joinResult == Head(toClient[p]).connId = pathConnID[p]
  <2>1. Tail(toClient[p]) \in Seq(MultipathHeader)
      BY <1>13 DEF ProcessJoinSent, TypeOK
  <2>2. Call("PathJoinResult", ConnOf[p], p, joinResult) \in ScheduledCall
      BY CallIsScheduled DEF Ops
  <2>3. events' \in Seq(ScheduledCall) /\ events' \in Seq(Event)
      BY <1>13, <2>2, OneMoreCall, CallsAreEvents DEF ProcessJoinSent, EventsNamePaths
  <2>4. QED
      BY <1>13, <2>1, <2>3 DEF ProcessJoinSent, PathStatus, TypeOK, EventsNamePaths,
         AcceptedPathsHaveKeys, connVars, srvVars
<1>14. ASSUME NEW p \in Path, NEW st \in {"CLOSED", "ERROR"}, Break(p, st)
       PROVE  TypeOK' /\ EventsNamePaths' /\ AcceptedPathsHaveKeys'
  <2>1. /\ breaks' \in Nat
        /\ tcp' \in [Path -> TcpState]
        /\ pathState' \in [Path -> PathStatus]
        /\ toClient' \in [Path -> Seq(MultipathHeader)]
      BY <1>14 DEF Break, PathStatus, TcpState, TypeOK
  <2>2. TypeOK'
      BY <1>14, <2>1 DEF Break, TypeOK, connVars, srvVars
  <2>3. QED
      BY <1>14, <2>2 DEF Break, EventsNamePaths, AcceptedPathsHaveKeys, srvVars
<1>15. CASE UNCHANGED vars
    BY <1>15 DEF vars, connVars, pathVars, srvVars, netVars,
       TypeOK, EventsNamePaths, AcceptedPathsHaveKeys
<1>16. QED
    BY <1>1, <1>3, <1>4, <1>6, <1>7, <1>8, <1>9, <1>11, <1>12, <1>13, <1>14,
       <1>15 DEF Next, Scheduled, PathCloseSucceeded, PathCloseFailed

\* Every variable of the handshake keeps its type: in particular an id of a
\* connection is always built from two keys, and a scheduled call always finds
\* the path it is called for.
THEOREM TypeCorrectness == Spec => []TypeOK
<1>1. TypeInv => TypeOK
    BY DEF TypeInv
<1>2. QED
    BY InitTypeInv, NextTypeInv, <1>1, PTL DEF Spec
-----------------------------------------------------------------------------
(* Connection ids and keys.                                                *)

\* The ids that a client with this key can be given.
IdsOf(key) == {SP_KEYS_TO_CONNEID(key, k) : k \in Key}

\* Connection c may use the id: 0, or one that the registry holds and that
\* was made from the key of c.
MayUse(c, id) ==
    id # 0 => connectionIDs[id] # NoPath /\ id \in IdsOf(localKey[c])

\* What may be in flight on path p.
Requests(p) == {h \in MultipathHeader : /\ h.key = localKey[ConnOf[p]]
                                        /\ MayUse(ConnOf[p], h.connId)}
Answers(p) == {h \in MultipathHeader : MayUse(ConnOf[p], h.connId)}

RequestsCarryKeys == \A p \in Path : toServer[p] \in Seq(Requests(p))
AnswersCarryKeys == \A p \in Path : toClient[p] \in Seq(Answers(p))
PathIdsAreOwn == \A p \in Path : MayUse(ConnOf[p], pathConnID[p])
ConnIdsAreOwn == \A c \in Conn : MayUse(c, connID[c])
ReadyPathsAreOwn == \A c \in Conn : rawReady[c] \in Seq(PathsOf(c))

\* The registry holds a connection under an id made from its founder's key.
RegistryMatchesKeys ==
    \A id \in ConnIDs : connectionIDs[id] # NoPath =>
        id \in IdsOf(localKey[ConnOf[connectionIDs[id]]])

IdInv == /\ RequestsCarryKeys /\ AnswersCarryKeys /\ PathIdsAreOwn
         /\ ConnIdsAreOwn /\ ReadyPathsAreOwn /\ RegistryMatchesKeys
         /\ MisjoinNeedsKeyCollision

idVars == <<localKey, toServer, toClient, pathConnID, connID, rawReady,
            connectionIDs, srvConn>>

\* Nobody has an id initially.
LEMMA InitIdInv == Init => IdInv
    BY DEF Init, IdInv, RequestsCarryKeys, AnswersCarryKeys, PathIdsAreOwn, ConnIdsAreOwn,
       ReadyPathsAreOwn, RegistryMatchesKeys, MisjoinNeedsKeyCollision, MayUse

\* An id names the key it was made from.
LEMMA IdsOfDistinctKeys ==
    ASSUME NEW k \in Key, NEW l \in Key, NEW id, id \in IdsOf(k), id \in IdsOf(l)
    PROVE  k = l
    BY HighWordIsTheKey DEF IdsOf

\* Queues of a larger set of messages.
LEMMA SeqOfSubset ==
    ASSUME NEW S, NEW T, S \subseteq T, NEW s \in Seq(S)
    PROVE  s \in Seq(T)
    OBVIOUS

\* The first member and the rest of a non-empty sequence.
LEMMA HeadAndTail ==
    ASSUME NEW S, NEW s \in Seq(S), s # <<>>
    PROVE  Head(s) \in S /\ Tail(s) \in Seq(S)
    OBVIOUS

\* An entry of the registry may be overwritten but never removed, and the
\* clients keep their keys: what a connection may use, it may use for ever.
LEMMA MayUsePersists ==
    ASSUME TypeOK, localKey' = localKey,
           \A id \in ConnIDs : connectionIDs[id] # NoPath => connectionIDs'[id] # NoPath
    PROVE  /\ \A c \in Conn, id \in ConnIDs \cup {0} : MayUse(c, id) => MayUse(c, id)'
           /\ \A p \in Path : Requests(p) \subseteq Requests(p)'
           /\ \A p \in Path : Answers(p) \subseteq Answers(p)'
<1>1. \A c \in Conn, id \in ConnIDs \cup {0} : MayUse(c, id) => MayUse(c, id)'
    BY DEF MayUse
<1>2. QED
    BY <1>1, ConnOfAssumption DEF Requests, Answers, MultipathHeader

\* Every step keeps the ids with the clients they were made for.
LEMMA NextIdInv == TypeInv /\ TypeInv' /\ IdInv /\ [Next]_vars => IdInv'
<1> SUFFICES ASSUME TypeInv, TypeInv', IdInv, [Next]_vars PROVE IdInv'
    OBVIOUS
<1> USE ConnOfAssumption, NoPathAssumption
<1>t. TypeOK /\ EventsNamePaths /\ AcceptedPathsHaveKeys
    BY DEF TypeInv
<1>1. CASE UNCHANGED idVars
    BY <1>1 DEF idVars, IdInv, RequestsCarryKeys, AnswersCarryKeys, PathIdsAreOwn,
       ConnIdsAreOwn, ReadyPathsAreOwn, RegistryMatchesKeys, MisjoinNeedsKeyCollision,
       Requests, Answers, MayUse
<1>2. ASSUME NEW p \in Path, PathConnectSucceeded(p) \/ PathConnectFailed(p)
      PROVE  IdInv'
  <2>1. UNCHANGED <<localKey, toServer, toClient, pathConnID, connID, connectionIDs, srvConn>>
      BY <1>2 DEF PathConnectSucceeded, PathConnectFailed, netVars, srvVars
  <2>2. ReadyPathsAreOwn'
    <3>1. p \in PathsOf(ConnOf[p])
        BY DEF PathsOf
    <3>2. \/ rawReady' = rawReady
          \/ rawReady' = [rawReady EXCEPT ![ConnOf[p]] = Append(@, p)]
      <4>1. CASE AddRawPath(p, TRUE)
          BY <4>1 DEF AddRawPath
      <4>2. CASE AddRawPath(p, FALSE)
        <5>1. rawReady' = [rawReady EXCEPT ![ConnOf[p]] = @]
            BY <4>2 DEF AddRawPath
        <5>2. QED
            BY <1>t, <5>1 DEF TypeOK
      <4>3. QED
          BY <1>2, <4>1, <4>2 DEF PathConnectSucceeded, PathConnectFailed
    <3>3. ASSUME NEW c \in Conn PROVE rawReady'[c] \in Seq(PathsOf(c))
      <4>1. rawReady[c] \in Seq(PathsOf(c))
          BY DEF IdInv, ReadyPathsAreOwn
      <4>2. \/ rawReady'[c] = rawReady[c]
            \/ c = ConnOf[p] /\ rawReady'[c] = Append(rawReady[c], p)
        <5>1. rawReady \in [Conn -> Seq(Path)]
            BY <1>t DEF TypeOK
        <5>2. CASE rawReady' = rawReady
            BY <5>2
        <5>3. CASE rawReady' = [rawReady EXCEPT ![ConnOf[p]] = Append(@, p)]
            BY <5>1, <5>3
        <5>4. QED
            BY <3>2, <5>2, <5>3
      <4>3. QED
          BY <3>1, <4>1, <4>2
    <3>4. QED
        BY <3>3 DEF ReadyPathsAreOwn
  <2>3. QED
      BY <2>1, <2>2 DEF IdInv, RequestsCarryKeys, AnswersCarryKeys, PathIdsAreOwn,
         ConnIdsAreOwn, RegistryMatchesKeys, MisjoinNeedsKeyCollision,
         Requests, Answers, MayUse
<1>3. ASSUME events # <<>>
      PROVE  /\ Head(events).conn \in Conn
             /\ Head(events).op \in {"AddInitConnectPath", "PathJoinResult"} =>
                  /\ Head(events).path \in Path
                  /\ Head(events).conn = ConnOf[Head(events).path]
    BY <1>3, <1>t, FirstCall DEF EventsNamePaths, ScheduledCall
<1>4. CASE BuildConnection
  <2> DEFINE c == Head(events).conn
             p == Head(rawReady[c])
  <2>1. c \in Conn
      BY <1>3, <1>4 DEF BuildConnection, Fires
  <2>2. UNCHANGED <<localKey, toClient, pathConnID, connID, connectionIDs, srvConn>>
      BY <1>4 DEF BuildConnection, srvVars
  <2>3. CASE rawReady[c] = <<>>
    <3>1. UNCHANGED idVars
        BY <1>4, <2>2, <2>3 DEF BuildConnection, idVars
    <3>2. QED
        BY <1>1, <3>1
  <2>4. CASE rawReady[c] # <<>>
    <3>1. /\ p \in PathsOf(c) /\ Tail(rawReady[c]) \in Seq(PathsOf(c))
          /\ p \in Path /\ ConnOf[p] = c
      <4>1. rawReady[c] \in Seq(PathsOf(c))
          BY <2>1 DEF IdInv, ReadyPathsAreOwn
      <4>2. p \in PathsOf(c) /\ Tail(rawReady[c]) \in Seq(PathsOf(c))
          BY <2>4, <4>1, HeadAndTail, Zenon
      <4>3. QED
          BY <4>2 DEF PathsOf
    <3>2. rawReady' = [rawReady EXCEPT ![c] = Tail(@)] /\ InitConnection(p)
        BY <1>4, <2>4 DEF BuildConnection
    <3>3. ReadyPathsAreOwn'
        BY <1>t, <2>1, <3>1, <3>2 DEF IdInv, ReadyPathsAreOwn, TypeOK
    <3>4. RequestsCarryKeys'
      <4>1. Header(0, localKey[ConnOf[p]]) \in Requests(p)
          BY <1>t, <2>1, <3>1 DEF Header, Requests, MayUse, MultipathHeader, TypeOK
      <4>2. \A q \in Path : toServer'[q] \in Seq(Requests(q))
        <5> DEFINE hd == Header(0, localKey[ConnOf[p]])
        <5> HIDE DEF p, hd
        <5>1. toServer' = [toServer EXCEPT ![p] = Append(@, hd)] /\ hd \in Requests(p)
            BY <3>2, <4>1 DEF InitConnection, hd
        <5>2. \A q \in Path : toServer[q] \in Seq(Requests(q))
            BY DEF IdInv, RequestsCarryKeys
        <5>3. Append(toServer[p], hd) \in Seq(Requests(p))
            BY <3>1, <5>1, <5>2
        <5>4. QED
            BY <1>t, <5>1, <5>2, <5>3 DEF TypeOK
      <4>3. \A q \in Path : Requests(q)' = Requests(q)
          BY <2>2 DEF Requests, MayUse
      <4>4. QED
          BY <4>2, <4>3 DEF RequestsCarryKeys
    <3>5. QED
        BY <2>2, <3>3, <3>4 DEF IdInv, AnswersCarryKeys, PathIdsAreOwn, ConnIdsAreOwn,
           RegistryMatchesKeys, MisjoinNeedsKeyCollision, Answers, MayUse
  <2>5. QED
      BY <2>3, <2>4
<1>5. CASE AddInitConnectPath
  <2> DEFINE c == Head(events).conn
             p == Head(events).path
  <2>1. c \in Conn /\ p \in Path /\ c = ConnOf[p]
      BY <1>3, <1>5 DEF AddInitConnectPath, Fires
  <2>2. /\ connID' = [connID EXCEPT ![c] = pathConnID[p]]
        /\ UNCHANGED <<localKey, toServer, toClient, pathConnID, rawReady, connectionIDs, srvConn>>
      BY <1>5 DEF AddInitConnectPath, netVars, pathVars, srvVars
  <2>3. ConnIdsAreOwn'
      BY <1>t, <2>1, <2>2 DEF IdInv, ConnIdsAreOwn, PathIdsAreOwn, MayUse, TypeOK
  <2>4. QED
      BY <2>2, <2>3 DEF IdInv, RequestsCarryKeys, AnswersCarryKeys, PathIdsAreOwn,
         ReadyPathsAreOwn, RegistryMatchesKeys, MisjoinNeedsKeyCollision,
         Requests, Answers, MayUse
<1>6. CASE ConnectOtherPath
  <2> DEFINE c == Head(events).conn
             joining == Elems(rawReady[c])
  <2>1. c \in Conn
      BY <1>3, <1>6 DEF ConnectOtherPath, Fires
  <2>2. UNCHANGED <<localKey, toClient, connID, connectionIDs, srvConn>>
      BY <1>6 DEF ConnectOtherPath, srvVars
  <2>3. \A p \in joining : p \in Path /\ ConnOf[p] = c
    <3>1. rawReady[c] \in Seq(PathsOf(c))
        BY <2>1 DEF IdInv, ReadyPathsAreOwn
    <3>2. \A i \in DOMAIN rawReady[c] : rawReady[c][i] \in PathsOf(c)
        BY <3>1
    <3>3. QED
        BY <3>2 DEF Elems, PathsOf
  <2>4. ReadyPathsAreOwn'
      BY <1>6, <1>t, <2>1 DEF ConnectOtherPath, IdInv, ReadyPathsAreOwn, TypeOK
  <2>5. PathIdsAreOwn'
      BY <1>6, <2>1, <2>2, <2>3 DEF ConnectOtherPath, IdInv, PathIdsAreOwn, ConnIdsAreOwn, MayUse
  <2>6. RequestsCarryKeys'
    <3>1. \A p \in joining : Header(connID[c], localKey[ConnOf[p]]) \in Requests(p)
        BY <1>t, <2>1, <2>3 DEF Header, Requests, MultipathHeader, TypeOK, IdInv, ConnIdsAreOwn
    <3>2. \A p \in Path : toServer'[p] \in Seq(Requests(p))
        BY <1>6, <3>1 DEF ConnectOtherPath, IdInv, RequestsCarryKeys
    <3>3. \A p \in Path : Requests(p)' = Requests(p)
        BY <2>2 DEF Requests, MayUse
    <3>4. QED
        BY <3>2, <3>3 DEF RequestsCarryKeys
  <2>7. QED
      BY <2>2, <2>4, <2>5, <2>6 DEF IdInv, AnswersCarryKeys, ConnIdsAreOwn,
         RegistryMatchesKeys, MisjoinNeedsKeyCollision, Answers, MayUse
<1>7. CASE PathJoinResult
  <2>1. UNCHANGED idVars
      BY <1>7 DEF PathJoinResult, idVars, netVars, pathVars, srvVars
  <2>2. QED
      BY <1>1, <2>1
<1>8. ASSUME NEW p \in Path, ProcessListen(p) PROVE IdInv'
  <2> DEFINE h == Head(toServer[p])
             id == SP_KEYS_TO_CONNEID(h.key, srvKey[p])
  <2>1. UNCHANGED <<localKey, pathConnID, connID, rawReady>>
      BY <1>8 DEF ProcessListen, connVars, pathVars
  <2>2. h \in Requests(p) /\ Tail(toServer[p]) \in Seq(Requests(p))
      BY <1>8 DEF ProcessListen, IdInv, RequestsCarryKeys
  <2>3. /\ h.key = localKey[ConnOf[p]] /\ h.key \in Key /\ srvKey[p] \in Key
        /\ h.connId \in ConnIDs \cup {0} /\ MayUse(ConnOf[p], h.connId)
      BY <1>8, <1>t, <2>2 DEF ProcessListen, AcceptedPathsHaveKeys, Requests, MultipathHeader
  <2>4. /\ \A i \in ConnIDs : connectionIDs[i] # NoPath => connectionIDs'[i] # NoPath
        /\ RegistryMatchesKeys'
        /\ MisjoinNeedsKeyCollision'
        /\ \/ toClient' = toClient
           \/ \E i \in ConnIDs : /\ connectionIDs'[i] # NoPath
                                 /\ i \in IdsOf(localKey[ConnOf[p]])
                                 /\ toClient' = [toClient EXCEPT ![p] = Append(@, Header(i, srvKey[p]))]
    <3>1. CASE h.connId = 0
      <4>1. Accept(p, id) /\ NewConnectionBuilt(p, id)
          BY <1>8, <3>1 DEF ProcessListen
      <4>2. id \in ConnIDs /\ id \in IdsOf(localKey[ConnOf[p]])
          BY <2>3 DEF ConnIDs, IdsOf
      <4> HIDE DEF id
      <4>3. connectionIDs' = [connectionIDs EXCEPT ![id] = p] /\ srvConn' = [srvConn EXCEPT ![p] = p]
          BY <4>1 DEF NewConnectionBuilt
      <4>4. RegistryMatchesKeys'
          BY <1>t, <2>1, <4>2, <4>3 DEF IdInv, RegistryMatchesKeys, TypeOK
      <4>5. MisjoinNeedsKeyCollision'
          BY <1>t, <2>1, <4>3 DEF IdInv, MisjoinNeedsKeyCollision, TypeOK
      <4>6. connectionIDs'[id] # NoPath
          BY <1>t, <4>2, <4>3 DEF TypeOK
      <4>7. \A i \in ConnIDs : connectionIDs[i] # NoPath => connectionIDs'[i] # NoPath
          BY <1>t, <4>3 DEF TypeOK
      <4>8. toClient' = [toClient EXCEPT ![p] = Append(@, Header(id, srvKey[p]))]
          BY <4>1 DEF Accept
      <4>9. QED
          BY <4>2, <4>4, <4>5, <4>6, <4>7, <4>8
    <3>2. CASE h.connId # 0 /\ ValidConnectionID(h.connId)
      <4> DEFINE q == connectionIDs[h.connId]
      <4>1. Accept(p, h.connId) /\ NewPathJoinConnection(p, h.connId)
          BY <1>8, <3>2 DEF ProcessListen
      <4>2. /\ h.connId \in ConnIDs /\ q \in Path
            /\ h.connId \in IdsOf(localKey[ConnOf[p]])
            /\ h.connId \in IdsOf(localKey[ConnOf[q]])
          BY <1>t, <2>3, <3>2 DEF ValidConnectionID, TypeOK, MayUse, IdInv, RegistryMatchesKeys
      <4>3. localKey[ConnOf[p]] = localKey[ConnOf[q]]
          BY <1>t, <4>2, IdsOfDistinctKeys DEF TypeOK
      <4>4. UNCHANGED connectionIDs /\ srvConn' = [srvConn EXCEPT ![p] = q]
          BY <4>1 DEF NewPathJoinConnection
      <4>5. MisjoinNeedsKeyCollision'
          BY <1>t, <2>1, <4>2, <4>3, <4>4 DEF IdInv, MisjoinNeedsKeyCollision, TypeOK
      <4>6. RegistryMatchesKeys'
          BY <2>1, <4>4 DEF IdInv, RegistryMatchesKeys
      <4>7. toClient' = [toClient EXCEPT ![p] = Append(@, Header(h.connId, srvKey[p]))]
          BY <4>1 DEF Accept
      <4>8. connectionIDs'[h.connId] # NoPath
          BY <3>2, <4>4 DEF ValidConnectionID
      <4>9. QED
          BY <4>2, <4>4, <4>5, <4>6, <4>7, <4>8
    <3>3. CASE h.connId # 0 /\ ~ValidConnectionID(h.connId)
      <4>1. UNCHANGED <<srvConn, connectionIDs, toClient>>
          BY <1>8, <3>3 DEF ProcessListen
      <4>2. QED
          BY <2>1, <4>1 DEF IdInv, RegistryMatchesKeys, MisjoinNeedsKeyCollision
    <3>4. QED
        BY <3>1, <3>2, <3>3
  <2>5. /\ \A c \in Conn, i \in ConnIDs \cup {0} : MayUse(c, i) => MayUse(c, i)'
        /\ \A q \in Path : Requests(q) \subseteq Requests(q)'
        /\ \A q \in Path : Answers(q) \subseteq Answers(q)'
      BY <1>t, <2>1, <2>4, MayUsePersists
  <2>6. RequestsCarryKeys'
    <3>1. toServer' = [toServer EXCEPT ![p] = Tail(@)]
        BY <1>8 DEF ProcessListen
    <3>2. \A q \in Path : toServer'[q] \in Seq(Requests(q))
        BY <1>t, <2>2, <3>1 DEF IdInv, RequestsCarryKeys, TypeOK
    <3>3. \A q \in Path : toServer'[q] \in Seq(Requests(q)')
        BY <2>5, <3>2, SeqOfSubset
    <3>4. QED
        BY <3>3 DEF RequestsCarryKeys
  <2>7. AnswersCarryKeys'
    <3>1. \A q \in Path : toClient[q] \in Seq(Answers(q)')
        BY <2>5, SeqOfSubset DEF IdInv, AnswersCarryKeys
    <3>2. CASE toClient' = toClient
        BY <3>1, <3>2 DEF AnswersCarryKeys
    <3>3. ASSUME NEW i \in ConnIDs, connectionIDs'[i] # NoPath, i \in IdsOf(localKey[ConnOf[p]]),
                 toClient' = [toClient EXCEPT ![p] = Append(@, Header(i, srvKey[p]))]
          PROVE  AnswersCarryKeys'
      <4>1. Header(i, srvKey[p]) \in Answers(p)'
          BY <2>1, <2>3, <3>3 DEF Answers, MayUse, Header, MultipathHeader
      <4>2. \A q \in Path : toClient'[q] \in Seq(Answers(q)')
          BY <1>t, <3>1, <3>3, <4>1 DEF TypeOK
      <4>3. QED
          BY <4>2 DEF AnswersCarryKeys
    <3>4. QED
        BY <2>4, <3>2, <3>3
  <2>8. PathIdsAreOwn' /\ ConnIdsAreOwn' /\ ReadyPathsAreOwn'
      BY <1>t, <2>1, <2>4 DEF IdInv, PathIdsAreOwn, ConnIdsAreOwn, ReadyPathsAreOwn,
         MayUse, TypeOK
  <2>9. QED
      BY <2>4, <2>6, <2>7, <2>8 DEF IdInv
<1>9. ASSUME NEW p \in Path, toClient[p] # <<>>, NEW id \in ConnIDs \cup {0},
             id \in {Head(toClient[p]).connId, pathConnID[p]},
             toClient' = [toClient EXCEPT ![p] = Tail(@)],
             pathConnID' = [pathConnID EXCEPT ![p] = id],
             UNCHANGED <<localKey, toServer, connID, rawReady, connectionIDs, srvConn>>
      PROVE  IdInv'
  <2>1. Head(toClient[p]) \in Answers(p) /\ Tail(toClient[p]) \in Seq(Answers(p))
      BY <1>9 DEF IdInv, AnswersCarryKeys
  <2>2. MayUse(ConnOf[p], id)
      BY <1>9, <2>1 DEF Answers, IdInv, PathIdsAreOwn
  <2>3. PathIdsAreOwn'
      BY <1>t, <1>9, <2>2 DEF IdInv, PathIdsAreOwn, MayUse, TypeOK
  <2>4. AnswersCarryKeys'
    <3>1. \A q \in Path : toClient'[q] \in Seq(Answers(q))
        BY <1>t, <1>9, <2>1 DEF IdInv, AnswersCarryKeys, TypeOK
    <3>2. \A q \in Path : Answers(q)' = Answers(q)
        BY <1>9 DEF Answers, MayUse
    <3>3. QED
        BY <3>1, <3>2 DEF AnswersCarryKeys
  <2>5. QED
      BY <1>9, <2>3, <2>4 DEF IdInv, RequestsCarryKeys, ConnIdsAreOwn, ReadyPathsAreOwn,
         RegistryMatchesKeys, MisjoinNeedsKeyCollision, Requests, MayUse
<1>10. ASSUME NEW p \in Path, ProcessBuildSent(p) PROVE IdInv'
  <2>1. Head(toClient[p]).connId \in ConnIDs \cup {0}
    <3>1. toClient[p] \in Seq(MultipathHeader) /\ toClient[p] # <<>>
        BY <1>10, <1>t DEF ProcessBuildSent, TypeOK
    <3>2. Head(toClient[p]) \in MultipathHeader
        BY <3>1
    <3>3. QED
        BY <3>2 DEF MultipathHeader
  <2>2. QED
      BY <1>9, <1>10, <2>1 DEF ProcessBuildSent, connVars, srvVars
<1>11. ASSUME NEW p \in Path, ProcessJoinSent(p) PROVE IdInv'
  <2>1. pathConnID[p] \in ConnIDs \cup {0} /\ pathConnID' = [pathConnID EXCEPT ![p] = pathConnID[p]]
      BY <1>11, <1>t DEF ProcessJoinSent, TypeOK
  <2>2. QED
      BY <1>9, <1>11, <2>1 DEF ProcessJoinSent, connVars, srvVars
<1>12. ASSUME NEW p \in Path, PathCloseSucceeded(p) \/ PathCloseFailed(p) PROVE IdInv'
  <2>1. /\ toClient' = [toClient EXCEPT ![p] = <<>>]
        /\ UNCHANGED <<localKey, toServer, pathConnID, connID, rawReady, connectionIDs, srvConn>>
      BY <1>12 DEF PathCloseSucceeded, PathCloseFailed, Break, connVars, srvVars
  <2>2. AnswersCarryKeys'
    <3>1. \A q \in Path : toClient'[q] \in Seq(Answers(q))
        BY <1>t, <2>1 DEF IdInv, AnswersCarryKeys, TypeOK
    <3>2. \A q \in Path : Answers(q)' = Answers(q)
        BY <2>1 DEF Answers, MayUse
    <3>3. QED
        BY <3>1, <3>2 DEF AnswersCarryKeys
  <2>3. QED
      BY <2>1, <2>2 DEF IdInv, RequestsCarryKeys, PathIdsAreOwn, ConnIdsAreOwn,
         ReadyPathsAreOwn, RegistryMatchesKeys, MisjoinNeedsKeyCollision, Requests, MayUse
<1>13. ASSUME NEW c \in Conn, OnCybertwinInterfaceResolved(c) PROVE IdInv'
  <2>1. UNCHANGED idVars
      BY <1>13 DEF OnCybertwinInterfaceResolved, idVars, netVars, srvVars
  <2>2. QED
      BY <1>1, <2>1
<1>14. ASSUME NEW p \in Path, PathCreatedCallback(p) PROVE IdInv'
  <2>1. UNCHANGED idVars
      BY <1>14 DEF PathCreatedCallback, idVars, connVars, pathVars, netVars
  <2>2. QED
      BY <1>1, <2>1
<1>15. CASE UNCHANGED vars
  <2>1. UNCHANGED idVars
      BY <1>15 DEF vars, idVars, connVars, pathVars, netVars, srvVars
  <2>2. QED
      BY <1>1, <2>1
<1>16. QED
    BY <1>2, <1>4, <1>5, <1>6, <1>7, <1>8, <1>10, <1>11, <1>12, <1>13, <1>14,
       <1>15 DEF Next, Scheduled

\* No client ever presents a connection id the server does not know, for any
\* number of clients and paths, any interleaving and any breaks: the silent
\* branch of ProcessListen is dead code.
THEOREM JoinsAlwaysRegistered == Spec => []JoinsAreRegistered
<1>1. TypeInv /\ IdInv => JoinsAreRegistered
  <2> SUFFICES ASSUME TypeInv, IdInv PROVE JoinsAreRegistered
      OBVIOUS
  <2>1. ASSUME NEW p \in Path, NEW i \in DOMAIN toServer[p], toServer[p][i].connId # 0
        PROVE  ValidConnectionID(toServer[p][i].connId)
    <3>1. toServer[p][i] \in Requests(p)
        BY <2>1 DEF IdInv, RequestsCarryKeys
    <3>2. QED
        BY <2>1, <3>1 DEF Requests, MayUse, ValidConnectionID
  <2>2. QED
      BY <2>1 DEF JoinsAreRegistered, IdInv, ConnIdsAreOwn, MayUse, ValidConnectionID
<1>2. QED
    BY InitTypeInv, NextTypeInv, InitIdInv, NextIdInv, <1>1, PTL DEF Spec

\* A path is aggregated to another client's connection only if the two
\* clients drew the same key: the 64-bit id keeps clients with different keys
\* apart although GenerateKey never looks for duplicates.
THEOREM MisjoinOnlyOnCollision == Spec => []MisjoinNeedsKeyCollision
<1>1. IdInv => MisjoinNeedsKeyCollision
    BY DEF IdInv
<1>2. QED
    BY InitTypeInv, NextTypeInv, InitIdInv, NextIdInv, <1>1, PTL DEF Spec
=============================================================================
