---------------------------- MODULE MdtpHandshake ----------------------------
(***************************************************************************)
(* Connection establishment of the multipath data transfer protocol        *)
(* (src/cybertwin/model/networks/multipath-data-transfer-protocol.cc).     *)
(*                                                                         *)
(* A client MultipathConnection opens one TCP socket (a SinglePath) per    *)
(* local interface, builds the connection over the first ready path and    *)
(* joins the others to it.  The CybertwinDataTransferServer accepts every  *)
(* TCP connection, gives each a key of its own and keeps the registry      *)
(* m_connectionIDs.  A TCP connection is named by its client path, so      *)
(* pathState[p] is the client's SinglePath and srvState[p] the server's.   *)
(* Simulator::Schedule(TimeStep(1), ...) calls fire in the order they were *)
(* scheduled: they are the FIFO queue events.                              *)
(***************************************************************************)
EXTENDS Integers, Sequences, FiniteSets

CONSTANTS
    Conn,       \* client connections of one server
    Path,       \* all the TCP connections they open
    ConnOf,     \* the connection that opens a path
    Key,        \* values of the 32-bit random keys
    KeyShift,   \* 2^32 in the code: what "connid << 32" multiplies by
    NoPath,     \* null SinglePath*
    MaxBreaks   \* how many established TCP connections may break

ASSUME PathAssumption == IsFiniteSet(Path)
ASSUME ConnOfAssumption == ConnOf \in [Path -> Conn]
ASSUME KeyAssumption == KeyShift \in Nat /\ Key \subseteq 1..(KeyShift - 1)
ASSUME NoPathAssumption == NoPath \notin Path
ASSUME BreaksAssumption == MaxBreaks \in Nat

VARIABLES
    localKey,       \* [Conn]: m_localKey of the client connection
    connID,         \* [Conn]: m_connID, 0 until built
    connState,      \* [Conn]: m_connState
    pathNum,        \* [Conn]: m_pathNum
    rawReady,       \* [Conn]: queue m_rawReadyPath
    rawFail,        \* [Conn]: queue m_rawFailPath
    paths,          \* [Conn]: m_paths (m_readyPath receives the same pushes)
    errorPath,      \* [Conn]: m_errorPath
    notified,       \* [Conn]: the connect callback the application received
    tcp,            \* [Path]: the client's TCP socket
    pathState,      \* [Path]: m_pathState of the client's SinglePath
    pathConnID,     \* [Path]: m_connID of the client's SinglePath
    srvState,       \* [Path]: m_pathState of the server's SinglePath
    srvKey,         \* [Path]: m_localKey of the server's SinglePath
    srvConnID,      \* [Path]: m_connID of the server's SinglePath
    srvConn,        \* [Path]: m_connection of the server's SinglePath
    srvPaths,       \* [Path]: m_paths of the connection a path founded
    connectionIDs,  \* [ConnIDs]: the server's m_connectionIDs
    toServer,       \* [Path]: headers in flight to the server
    toClient,       \* [Path]: headers in flight to the client
    events,         \* scheduled calls
    breaks          \* TCP connections broken so far

connVars == <<localKey, connID, connState, pathNum, rawReady, rawFail, paths,
              errorPath, notified>>
pathVars == <<tcp, pathState, pathConnID>>
srvVars  == <<srvState, srvKey, srvConnID, srvConn, srvPaths, connectionIDs>>
netVars  == <<toServer, toClient>>
vars == <<connVars, pathVars, srvVars, netVars, events, breaks>>

PathsOf(c) == {p \in Path : ConnOf[p] = c}

\* Faulty variant: the keys are added without the shift.
SP_KEYS_TO_CONNEID_Unshifted(key1, key2) == key1 + key2

\* The client key in the high word, the server key in the low word.
SP_KEYS_TO_CONNEID(key1, key2) == key1 * KeyShift + key2

ConnIDs == {SP_KEYS_TO_CONNEID(k1, k2) : k1 \in Key, k2 \in Key}

\* What the handlers read of a MultipathHeader: connection id, sender key.
MultipathHeader == [connId : ConnIDs \cup {0}, key : Key]
Header(id, k) == [connId |-> id, key |-> k]

Ops == {"BuildConnection", "AddInitConnectPath", "ConnectOtherPath",
        "PathJoinResult"}
Event == [op : Ops, conn : Conn, path : Path \cup {NoPath}, ok : BOOLEAN]
Call(op, c, p, ok) == [op |-> op, conn |-> c, path |-> p, ok |-> ok]

PathStatus == {"INIT", "READY", "LISTEN", "BUILD_SENT", "JOIN_SENT",
               "CONNECTED", "CLOSED", "ERROR"}

\* UNROUTED: Connect found no route through the device and returned -1.
TcpState == {"NONE", "SYN_SENT", "UNROUTED", "ESTABLISHED", "CLOSED"}

Elems(s) == {s[i] : i \in DOMAIN s}

TypeOK ==
    /\ localKey \in [Conn -> Key]
    /\ connID \in [Conn -> ConnIDs \cup {0}]
    /\ connState \in [Conn -> {"INIT", "CONNECT"}]
    /\ pathNum \in [Conn -> Nat]
    /\ rawReady \in [Conn -> Seq(Path)]
    /\ rawFail \in [Conn -> Seq(Path)]
    /\ paths \in [Conn -> Seq(Path)]
    /\ errorPath \in [Conn -> SUBSET Path]
    /\ notified \in [Conn -> {"none", "succeeded", "failed"}]
    /\ tcp \in [Path -> TcpState]
    /\ pathState \in [Path -> PathStatus]
    /\ pathConnID \in [Path -> ConnIDs \cup {0}]
    /\ srvState \in [Path -> {"NONE", "LISTEN", "CONNECTED"}]
    /\ srvKey \in [Path -> Key \cup {0}]
    /\ srvConnID \in [Path -> ConnIDs \cup {0}]
    /\ srvConn \in [Path -> Path \cup {NoPath}]
    /\ srvPaths \in [Path -> Seq(Path)]
    /\ connectionIDs \in [ConnIDs -> Path \cup {NoPath}]
    /\ toServer \in [Path -> Seq(MultipathHeader)]
    /\ toClient \in [Path -> Seq(MultipathHeader)]
    /\ events \in Seq(Event)
    /\ breaks \in Nat

-----------------------------------------------------------------------------
\* After Setup: the key is drawn at random, without a uniqueness check.
Init ==
    /\ localKey \in [Conn -> Key]
    /\ connID = [c \in Conn |-> 0]
    /\ connState = [c \in Conn |-> "INIT"]
    /\ pathNum = [c \in Conn |-> 0]
    /\ rawReady = [c \in Conn |-> <<>>]
    /\ rawFail = [c \in Conn |-> <<>>]
    /\ paths = [c \in Conn |-> <<>>]
    /\ errorPath = [c \in Conn |-> {}]
    /\ notified = [c \in Conn |-> "none"]
    /\ tcp = [p \in Path |-> "NONE"]
    /\ pathState = [p \in Path |-> "INIT"]
    /\ pathConnID = [p \in Path |-> 0]
    /\ srvState = [p \in Path |-> "NONE"]
    /\ srvKey = [p \in Path |-> 0]
    /\ srvConnID = [p \in Path |-> 0]
    /\ srvConn = [p \in Path |-> NoPath]
    /\ srvPaths = [p \in Path |-> <<>>]
    /\ connectionIDs = [i \in ConnIDs |-> NoPath]
    /\ toServer = [p \in Path |-> <<>>]
    /\ toClient = [p \in Path |-> <<>>]
    /\ events = <<>>
    /\ breaks = 0

-----------------------------------------------------------------------------
(* The client opens its sockets.                                           *)

\* The peer's name is resolved: one SinglePath per local interface connects,
\* and PathConnect ignores what Connect returns.  A socket that has no route
\* through the device it is bound to sends no SYN and calls nobody back.
OnCybertwinInterfaceResolved(c) ==
    /\ pathNum[c] = 0
    /\ pathNum' = [pathNum EXCEPT ![c] = Cardinality(PathsOf(c))]
    /\ \E unrouted \in SUBSET PathsOf(c) :
          tcp' = [p \in Path |-> IF p \in unrouted THEN "UNROUTED"
                                 ELSE IF ConnOf[p] = c THEN "SYN_SENT"
                                 ELSE tcp[p]]
    /\ UNCHANGED <<localKey, connID, connState, rawReady, rawFail, paths,
                   errorPath, notified, pathState, pathConnID, srvVars,
                   netVars, events, breaks>>

\* Faulty variant: every report schedules BuildConnection.
AddRawPath_EveryReport(p, ready) ==
    LET c == ConnOf[p] IN
    /\ rawReady' = [rawReady EXCEPT ![c] = IF ready THEN Append(@, p) ELSE @]
    /\ rawFail' = [rawFail EXCEPT ![c] = IF ready THEN @ ELSE Append(@, p)]
    /\ events' = Append(events, Call("BuildConnection", c, NoPath, TRUE))

\* Faulty variant: failed paths are not counted.
AddRawPath_ReadyOnly(p, ready) ==
    LET c == ConnOf[p] IN
    /\ rawReady' = [rawReady EXCEPT ![c] = IF ready THEN Append(@, p) ELSE @]
    /\ rawFail' = [rawFail EXCEPT ![c] = IF ready THEN @ ELSE Append(@, p)]
    /\ events' = IF Len(rawReady'[c]) = pathNum[c]
                 THEN Append(events, Call("BuildConnection", c, NoPath, TRUE))
                 ELSE events

\* The last of the paths to report schedules BuildConnection.
AddRawPath(p, ready) ==
    LET c == ConnOf[p] IN
    /\ rawReady' = [rawReady EXCEPT ![c] = IF ready THEN Append(@, p) ELSE @]
    /\ rawFail' = [rawFail EXCEPT ![c] = IF ready THEN @ ELSE Append(@, p)]
    /\ events' = IF Len(rawReady'[c]) + Len(rawFail'[c]) = pathNum[c]
                 THEN Append(events, Call("BuildConnection", c, NoPath, TRUE))
                 ELSE events

PathConnectSucceeded(p) ==
    /\ tcp[p] = "SYN_SENT"
    /\ tcp' = [tcp EXCEPT ![p] = "ESTABLISHED"]
    /\ pathState' = [pathState EXCEPT ![p] = "READY"]
    /\ AddRawPath(p, TRUE)
    /\ UNCHANGED <<localKey, connID, connState, pathNum, paths, errorPath,
                   notified, pathConnID, srvVars, netVars, breaks>>

\* The SYN retries are exhausted.
PathConnectFailed(p) ==
    /\ tcp[p] = "SYN_SENT"
    /\ tcp' = [tcp EXCEPT ![p] = "CLOSED"]
    /\ pathState' = [pathState EXCEPT ![p] = "ERROR"]
    /\ AddRawPath(p, FALSE)
    /\ UNCHANGED <<localKey, connID, connState, pathNum, paths, errorPath,
                   notified, pathConnID, srvVars, netVars, breaks>>

\* Faulty variant: GenerateKey without its "while (key == 0)".
PathCreatedCallback_ZeroKey(p) ==
    /\ tcp[p] = "ESTABLISHED"
    /\ srvState[p] = "NONE"
    /\ \E k \in Key \cup {0} : srvKey' = [srvKey EXCEPT ![p] = k]
    /\ srvState' = [srvState EXCEPT ![p] = "LISTEN"]
    /\ UNCHANGED <<connVars, pathVars, srvConnID, srvConn, srvPaths,
                   connectionIDs, netVars, events, breaks>>

\* The server accepts the TCP connection and draws a key for the path.
PathCreatedCallback(p) ==
    /\ tcp[p] = "ESTABLISHED"
    /\ srvState[p] = "NONE"
    /\ \E k \in Key : srvKey' = [srvKey EXCEPT ![p] = k]
    /\ srvState' = [srvState EXCEPT ![p] = "LISTEN"]
    /\ UNCHANGED <<connVars, pathVars, srvConnID, srvConn, srvPaths,
                   connectionIDs, netVars, events, breaks>>

-----------------------------------------------------------------------------
(* Scheduled calls on the client connection.                               *)

Fires(op) == events # <<>> /\ Head(events).op = op

\* SinglePath::InitConnection: connection id 0 asks for a new connection.
InitConnection(p) ==
    /\ toServer' = [toServer EXCEPT
                      ![p] = Append(@, Header(0, localKey[ConnOf[p]]))]
    /\ pathState' = [pathState EXCEPT ![p] = "BUILD_SENT"]

\* Faulty variant: the building path stays in m_rawReadyPath.
BuildConnection_NoPop ==
    /\ Fires("BuildConnection")
    /\ events' = Tail(events)
    /\ LET c == Head(events).conn IN
       IF rawReady[c] = <<>>
       THEN UNCHANGED <<toServer, pathState>>
       ELSE InitConnection(Head(rawReady[c]))
    /\ UNCHANGED <<connVars, tcp, pathConnID, srvVars, toClient, breaks>>

BuildConnection ==
    /\ Fires("BuildConnection")
    /\ events' = Tail(events)
    /\ LET c == Head(events).conn IN
       IF rawReady[c] = <<>>
       THEN UNCHANGED <<rawReady, toServer, pathState>>
       ELSE /\ rawReady' = [rawReady EXCEPT ![c] = Tail(@)]
            /\ InitConnection(Head(rawReady[c]))
    /\ UNCHANGED <<localKey, connID, connState, pathNum, rawFail, paths,
                   errorPath, notified, tcp, pathConnID, srvVars, toClient,
                   breaks>>

AddInitConnectPath ==
    /\ Fires("AddInitConnectPath")
    /\ LET c == Head(events).conn
           p == Head(events).path
       IN  /\ connID' = [connID EXCEPT ![c] = pathConnID[p]]
           /\ paths' = [paths EXCEPT ![c] = Append(@, p)]
           /\ connState' = [connState EXCEPT ![c] = "CONNECT"]
           /\ notified' = [notified EXCEPT ![c] = "succeeded"]
           /\ events' = Append(Tail(events),
                               Call("ConnectOtherPath", c, NoPath, TRUE))
    /\ UNCHANGED <<localKey, pathNum, rawReady, rawFail, errorPath, pathVars,
                   srvVars, netVars, breaks>>

\* Drains m_rawReadyPath: every path left in it sends a join.
ConnectOtherPath ==
    /\ Fires("ConnectOtherPath")
    /\ events' = Tail(events)
    /\ LET c == Head(events).conn
           joining == Elems(rawReady[c])
       IN  /\ rawReady' = [rawReady EXCEPT ![c] = <<>>]
           /\ pathConnID' = [p \in Path |->
                 IF p \in joining THEN connID[c] ELSE pathConnID[p]]
           /\ pathState' = [p \in Path |->
                 IF p \in joining THEN "JOIN_SENT" ELSE pathState[p]]
           /\ toServer' = [p \in Path |->
                 IF p \in joining
                 THEN Append(toServer[p],
                             Header(connID[c], localKey[ConnOf[p]]))
                 ELSE toServer[p]]
    /\ UNCHANGED <<localKey, connID, connState, pathNum, rawFail, paths,
                   errorPath, notified, tcp, srvVars, toClient, breaks>>

PathJoinResult ==
    /\ Fires("PathJoinResult")
    /\ events' = Tail(events)
    /\ LET e == Head(events) IN
       IF e.ok
       THEN /\ paths' = [paths EXCEPT ![e.conn] = Append(@, e.path)]
            /\ UNCHANGED errorPath
       ELSE /\ errorPath' = [errorPath EXCEPT ![e.conn] = @ \cup {e.path}]
            /\ UNCHANGED paths
    /\ UNCHANGED <<localKey, connID, connState, pathNum, rawReady, rawFail,
                   notified, pathVars, srvVars, netVars, breaks>>

-----------------------------------------------------------------------------
(* SinglePath::StateProcesser: what a path does with a header it receives. *)

\* Faulty variant: the new connection is not entered in m_connectionIDs.
NewConnectionBuilt_Unregistered(p, id) ==
    /\ srvConn' = [srvConn EXCEPT ![p] = p]
    /\ srvPaths' = [srvPaths EXCEPT ![p] = <<p>>]
    /\ UNCHANGED connectionIDs

\* The path founds a connection, which the registry then holds under its id.
NewConnectionBuilt(p, id) ==
    /\ srvConn' = [srvConn EXCEPT ![p] = p]
    /\ srvPaths' = [srvPaths EXCEPT ![p] = <<p>>]
    /\ connectionIDs' = [connectionIDs EXCEPT ![id] = p]

ValidConnectionID(id) == connectionIDs[id] # NoPath

\* Faulty variant: AddOtherConnectPath is not called.
NewPathJoinConnection_NotAdded(p, id) ==
    /\ srvConn' = [srvConn EXCEPT ![p] = connectionIDs[id]]
    /\ UNCHANGED <<srvPaths, connectionIDs>>

\* The path is aggregated to the connection the registry holds.
NewPathJoinConnection(p, id) ==
    LET conn == connectionIDs[id] IN
    /\ srvConn' = [srvConn EXCEPT ![p] = conn]
    /\ srvPaths' = [srvPaths EXCEPT ![conn] = Append(@, p)]
    /\ UNCHANGED connectionIDs

Accept(p, id) ==
    /\ srvState' = [srvState EXCEPT ![p] = "CONNECTED"]
    /\ srvConnID' = [srvConnID EXCEPT ![p] = id]
    /\ toClient' = [toClient EXCEPT ![p] = Append(@, Header(id, srvKey[p]))]

\* Connection id 0 builds a connection, another one joins it; a join of an
\* unknown connection is dropped without an answer.
ProcessListen(p) ==
    /\ srvState[p] = "LISTEN"
    /\ toServer[p] # <<>>
    /\ toServer' = [toServer EXCEPT ![p] = Tail(@)]
    /\ LET h == Head(toServer[p]) IN
       IF h.connId = 0
       THEN LET id == SP_KEYS_TO_CONNEID(h.key, srvKey[p]) IN
            Accept(p, id) /\ NewConnectionBuilt(p, id)
       ELSE IF ValidConnectionID(h.connId)
       THEN Accept(p, h.connId) /\ NewPathJoinConnection(p, h.connId)
       ELSE UNCHANGED <<srvState, srvConnID, srvConn, srvPaths,
                        connectionIDs, toClient>>
    /\ UNCHANGED <<connVars, pathVars, srvKey, events, breaks>>

\* The reply to the build request names the new connection.
ProcessBuildSent(p) ==
    /\ pathState[p] = "BUILD_SENT"
    /\ toClient[p] # <<>>
    /\ toClient' = [toClient EXCEPT ![p] = Tail(@)]
    /\ pathConnID' = [pathConnID EXCEPT ![p] = Head(toClient[p]).connId]
    /\ pathState' = [pathState EXCEPT ![p] = "CONNECTED"]
    /\ events' = Append(events,
                        Call("AddInitConnectPath", ConnOf[p], p, TRUE))
    /\ UNCHANGED <<connVars, tcp, srvVars, toServer, breaks>>

ProcessJoinSent(p) ==
    /\ pathState[p] = "JOIN_SENT"
    /\ toClient[p] # <<>>
    /\ toClient' = [toClient EXCEPT ![p] = Tail(@)]
    /\ LET joinResult == Head(toClient[p]).connId = pathConnID[p] IN
       /\ pathState' = [pathState EXCEPT
                          ![p] = IF joinResult THEN "CONNECTED" ELSE "ERROR"]
       /\ events' = Append(events,
                           Call("PathJoinResult", ConnOf[p], p, joinResult))
    /\ UNCHANGED <<connVars, tcp, pathConnID, srvVars, toServer, breaks>>

-----------------------------------------------------------------------------
(* A TCP connection breaks once the client has sent something on it: the   *)
(* peer closes or resets it, or the retransmissions are exhausted.  Only   *)
(* the client's path has close callbacks.                                  *)

Break(p, st) ==
    /\ breaks < MaxBreaks
    /\ tcp[p] = "ESTABLISHED"
    /\ pathState[p] \in {"BUILD_SENT", "JOIN_SENT", "CONNECTED"}
    /\ breaks' = breaks + 1
    /\ tcp' = [tcp EXCEPT ![p] = "CLOSED"]
    /\ pathState' = [pathState EXCEPT ![p] = st]
    /\ toClient' = [toClient EXCEPT ![p] = <<>>]
    /\ UNCHANGED <<connVars, pathConnID, srvVars, toServer, events>>

PathCloseSucceeded(p) == Break(p, "CLOSED")

PathCloseFailed(p) == Break(p, "ERROR")

-----------------------------------------------------------------------------
Scheduled ==
    \/ BuildConnection
    \/ AddInitConnectPath
    \/ ConnectOtherPath
    \/ PathJoinResult

Next ==
    \/ \E c \in Conn : OnCybertwinInterfaceResolved(c)
    \/ \E p \in Path :
          \/ PathConnectSucceeded(p)
          \/ PathConnectFailed(p)
          \/ PathCreatedCallback(p)
          \/ ProcessListen(p)
          \/ ProcessBuildSent(p)
          \/ ProcessJoinSent(p)
          \/ PathCloseSucceeded(p)
          \/ PathCloseFailed(p)
    \/ Scheduled

Spec == Init /\ [][Next]_vars

\* The simulator runs every scheduled call, TCP delivers what was sent, and
\* every SYN that left is answered or given up; only breaks are optional.
Fairness ==
    /\ WF_vars(Scheduled)
    /\ \A c \in Conn : WF_vars(OnCybertwinInterfaceResolved(c))
    /\ \A p \in Path :
          /\ WF_vars(PathConnectSucceeded(p) \/ PathConnectFailed(p))
          /\ WF_vars(PathCreatedCallback(p))
          /\ WF_vars(ProcessListen(p))
          /\ WF_vars(ProcessBuildSent(p))
          /\ WF_vars(ProcessJoinSent(p))

FairSpec == Spec /\ Fairness
-----------------------------------------------------------------------------
(* Properties.                                                             *)

\* Whoever holds a connection id, the server knows the connection: the
\* "Attempt to join a non-exist connection" branch of ProcessListen, which
\* answers nothing and would leave the path in JOIN_SENT for ever, is never
\* taken, whatever the interleaving of paths and clients.
JoinsAreRegistered ==
    /\ \A p \in Path : \A i \in DOMAIN toServer[p] :
          toServer[p][i].connId # 0
             => ValidConnectionID(toServer[p][i].connId)
    /\ \A c \in Conn : connID[c] # 0 => ValidConnectionID(connID[c])

\* A path the client sends data on (m_paths) is connected at the server too,
\* under the same connection id, and the server's connection sends on it: the
\* two ends of ProcessListen and AddInitConnectPath/PathJoinResult agree, and
\* the assertions of lines 637 and 753 hold.
JoinedPathsAgree ==
    \A c \in Conn : \A p \in Elems(paths[c]) :
        /\ ConnOf[p] = c
        /\ srvState[p] = "CONNECTED"
        /\ srvConnID[p] = connID[c]
        /\ srvConn[p] # NoPath
        /\ p \in Elems(srvPaths[srvConn[p]])

\* A connection never holds a path twice: the round robin of
\* ChoosePathRoundRobin gives every path one turn, and a path that built the
\* connection does not also join it.
PathHeldOnce ==
    \A c \in Conn :
        /\ Cardinality(Elems(paths[c])) = Len(paths[c])
        /\ Elems(paths[c]) \cap Elems(rawReady[c]) = {}
        /\ errorPath[c] \cap Elems(paths[c]) = {}

\* The keys are random and unchecked (GenerateKey, Setup), yet a path is only
\* ever aggregated to a connection whose founder drew the same sender key: a
\* path of another client needs a collision of the keys.
MisjoinNeedsKeyCollision ==
    \A p \in Path : srvConn[p] # NoPath =>
        localKey[ConnOf[p]] = localKey[ConnOf[srvConn[p]]]

\* Once built, a connection keeps its id: AddRawPath starts the build only
\* once, so no second AddInitConnectPath re-initialises the sequence numbers.
BuiltOnce ==
    [][\A c \in Conn : connID[c] # 0 => connID'[c] = connID[c]]_vars

\* A path that came up becomes a path of the connection, whichever other
\* paths failed, unless an established TCP connection breaks or Connect
\* returned -1 for another path: that one never reports to AddRawPath, the
\* count is never reached and the ready paths wait for ever.
ReadyPathsJoin ==
    \A p \in Path :
        pathState[p] = "READY"
           ~> \/ p \in Elems(paths[ConnOf[p]])
              \/ breaks > 0
              \/ \E q \in PathsOf(ConnOf[p]) : tcp[q] = "UNROUTED"

\* The application that passed a success and a failure callback to
\* SetConnectCallback hears of one of the two.
ConnectReported ==
    \A c \in Conn : pathNum[c] > 0 ~> notified[c] # "none" \/ breaks > 0
=============================================================================
