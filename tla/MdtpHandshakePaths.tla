------------------------- MODULE MdtpHandshakePaths -------------------------
(***************************************************************************)
(* The two ends of an MDTP connection agree on its paths, and neither      *)
(* holds one twice: proofs about MdtpHandshake, for any number of clients, *)
(* paths, keys and broken TCP connections.                                 *)
(*                                                                         *)
(* The argument follows two things that must not be duplicated.  A         *)
(* connection has one token at most, which is the scheduled                *)
(* BuildConnection, then the path that waits for the answer, then the      *)
(* scheduled AddInitConnectPath; it is created by the last path to report, *)
(* which a count shows (AddRawPath), and used up when the connection gets  *)
(* its id.  A path that has left the handshake has one place at most: a    *)
(* scheduled call, an index of m_paths or m_errorPath.                     *)
(***************************************************************************)
EXTENDS MdtpHandshakeProofs

Pending == Elems(events)

Injective(s) == \A i, j \in DOMAIN s : s[i] = s[j] => i = j

\* The paths of c whose connection attempt has ended.
Reported(c) == {p \in PathsOf(c) : tcp[p] \in {"ESTABLISHED", "CLOSED"}}
AllReported(c) == Reported(c) = PathsOf(c)

\* Call e will give connection c its id.
Building(c, e) ==
    e.conn = c /\ e.op \in {"BuildConnection", "AddInitConnectPath"}

CallsDiffer == Injective(events)

\* Before the last report every report is in one of the two queues.
ReportsCounted(c) ==
    /\ pathNum[c] \in {0, Cardinality(PathsOf(c))}
    /\ pathNum[c] = 0 => \A p \in PathsOf(c) : tcp[p] = "NONE"
    /\ ~AllReported(c) =>
          Len(rawReady[c]) + Len(rawFail[c]) = Cardinality(Reported(c))

\* One call or one path is about to give connection c its id.
OneToken(c) ==
    /\ \A e, f \in Pending : Building(c, e) /\ Building(c, f) => e = f
    /\ \A p, q \in PathsOf(c) :
          pathState[p] = "BUILD_SENT" /\ pathState[q] = "BUILD_SENT" => p = q
    /\ \A e \in Pending, p \in PathsOf(c) :
          ~(Building(c, e) /\ pathState[p] = "BUILD_SENT")
    /\ \/ \E e \in Pending : Building(c, e)
       \/ \E p \in PathsOf(c) : pathState[p] = "BUILD_SENT"
       => AllReported(c) /\ connID[c] = 0

\* Nothing is joined before the connection has its id.
BuildFirst(c) ==
    /\ connID[c] # 0 => AllReported(c)
    /\ connID[c] = 0 =>
          /\ paths[c] = <<>>
          /\ \A e \in Pending : e.conn = c =>
                e.op \in {"BuildConnection", "AddInitConnectPath"}
          /\ \A p \in PathsOf(c) : pathState[p] # "JOIN_SENT"

ReadyOnce(c) ==
    /\ Injective(rawReady[c])
    /\ \A p \in Elems(rawReady[c]) : pathState[p] = "READY"

PathsOwn(c) == paths[c] \in Seq(PathsOf(c)) /\ errorPath[c] \subseteq PathsOf(c)

\* A path that has left the handshake is found in one place.
OnePlace(p) ==
    LET c == ConnOf[p] IN
    /\ \A e, f \in Pending : e.path = p /\ f.path = p => e = f
    /\ \A i, j \in DOMAIN paths[c] : paths[c][i] = p /\ paths[c][j] = p => i = j
    /\ (\E e \in Pending : e.path = p) =>
          p \notin Elems(paths[c]) /\ p \notin errorPath[c]
    /\ p \in errorPath[c] => p \notin Elems(paths[c])

\* ... and only then.
Left(p) ==
    LET c == ConnOf[p] IN
    /\ \/ \E e \in Pending : e.path = p
       \/ p \in Elems(paths[c])
       \/ p \in errorPath[c]
       => pathState[p] \in {"CONNECTED", "CLOSED", "ERROR"}
    /\ tcp[p] \in {"NONE", "SYN_SENT", "UNROUTED"} => pathState[p] = "INIT"

PInv ==
    /\ CallsDiffer
    /\ \A c \in Conn : /\ ReportsCounted(c) /\ OneToken(c) /\ BuildFirst(c)
                       /\ ReadyOnce(c) /\ PathsOwn(c)
    /\ \A p \in Path : OnePlace(p) /\ Left(p)

\* The server's end of path p.
ServerHolds(p) ==
    srvState[p] = "CONNECTED" =>
        /\ srvConn[p] # NoPath
        /\ srvState[srvConn[p]] = "CONNECTED"
        /\ p \in Elems(srvPaths[srvConn[p]])

FoundersConnected ==
    \A id \in ConnIDs :
        connectionIDs[id] # NoPath => srvState[connectionIDs[id]] = "CONNECTED"

\* The server has connected path p under this id.
Under(p, id) == srvState[p] = "CONNECTED" /\ srvConnID[p] = id

Agreed(p) ==
    /\ \A i \in DOMAIN toClient[p] :
          toClient[p][i].connId # 0 /\ Under(p, toClient[p][i].connId)
    /\ pathState[p] = "JOIN_SENT" => pathConnID[p] = connID[ConnOf[p]]
    /\ \A e \in Pending : e.path = p =>
          /\ e.op = "AddInitConnectPath" =>
                pathConnID[p] # 0 /\ Under(p, pathConnID[p])
          /\ e.op = "PathJoinResult" /\ e.ok => Under(p, connID[ConnOf[p]])
    /\ p \in Elems(paths[ConnOf[p]]) => Under(p, connID[ConnOf[p]])

AInv == FoundersConnected /\ \A p \in Path : ServerHolds(p) /\ Agreed(p)

-----------------------------------------------------------------------------
(* Sequences without repetition.                                           *)

\* The members of a sequence that was appended to.
LEMMA AppendElems ==
    ASSUME NEW S, NEW s \in Seq(S), NEW e \in S
    PROVE  Elems(Append(s, e)) = Elems(s) \cup {e}
<1>1. /\ DOMAIN s = 1..Len(s) /\ Len(s) \in Nat
      /\ DOMAIN Append(s, e) = 1..(Len(s) + 1)
      /\ Append(s, e)[Len(s) + 1] = e
      /\ \A i \in DOMAIN s : Append(s, e)[i] = s[i]
  OBVIOUS
<1> QED
  BY <1>1 DEF Elems

\* Appending a new member repeats nothing.
LEMMA AppendInjective ==
    ASSUME NEW S, NEW s \in Seq(S), NEW e \in S, Injective(s), e \notin Elems(s)
    PROVE  Injective(Append(s, e))
<1>1. /\ DOMAIN s = 1..Len(s) /\ Len(s) \in Nat
      /\ DOMAIN Append(s, e) = 1..(Len(s) + 1)
      /\ Append(s, e)[Len(s) + 1] = e
      /\ \A i \in DOMAIN s : Append(s, e)[i] = s[i]
  OBVIOUS
<1> QED
  BY <1>1 DEF Elems, Injective

\* Taking the first member away.
LEMMA TailOfInjective ==
    ASSUME NEW S, NEW s \in Seq(S), s # <<>>, Injective(s)
    PROVE  /\ Head(s) \in Elems(s)
           /\ Elems(Tail(s)) = Elems(s) \ {Head(s)}
           /\ Injective(Tail(s))
<1>1. /\ DOMAIN s = 1..Len(s) /\ Len(s) \in Nat /\ Len(s) # 0
      /\ DOMAIN Tail(s) = 1..(Len(s) - 1)
      /\ Head(s) = s[1]
      /\ \A i \in DOMAIN Tail(s) : Tail(s)[i] = s[i + 1]
  OBVIOUS
<1>2. \A i \in DOMAIN s : i # 1 => i - 1 \in DOMAIN Tail(s) /\ Tail(s)[i - 1] = s[i]
  BY <1>1
<1>3. 1 \in DOMAIN s
  BY <1>1
<1>4. \A i \in DOMAIN Tail(s) : i + 1 \in DOMAIN s /\ i + 1 # 1
  BY <1>1
<1>5. Elems(Tail(s)) = Elems(s) \ {Head(s)}
  BY <1>1, <1>2, <1>3, <1>4 DEF Elems, Injective
<1>6. Injective(Tail(s))
  <2> SUFFICES ASSUME NEW i \in DOMAIN Tail(s), NEW j \in DOMAIN Tail(s),
                      Tail(s)[i] = Tail(s)[j]
               PROVE  i = j
    BY DEF Injective
  <2>1. i + 1 = j + 1
    BY <1>1, <1>4 DEF Injective
  <2> QED
    BY <1>1, <2>1
<1> QED
  BY <1>1, <1>3, <1>5, <1>6 DEF Elems

\* As many members as positions.
LEMMA InjectiveCardinality ==
    ASSUME NEW S, NEW s \in Seq(S), Injective(s)
    PROVE  Cardinality(Elems(s)) = Len(s)
<1>1. /\ Len(s) \in Nat /\ DOMAIN s = 1..Len(s)
  OBVIOUS
<1>2. s \in Bijection(1..Len(s), Elems(s))
  BY <1>1 DEF Elems, Injective, Bijection, Injection, Surjection, IsInjective
<1>3. ExistsBijection(1..Len(s), Elems(s))
  BY <1>2 DEF ExistsBijection
<1> QED
  BY <1>1, <1>3, FS_CountingElements

-----------------------------------------------------------------------------
(* The scheduled calls.                                                    *)

\* One more call.
LEMMA CallAdded ==
    ASSUME events \in Seq(ScheduledCall), CallsDiffer,
           NEW e \in ScheduledCall, e \notin Pending, events' = Append(events, e)
    PROVE  CallsDiffer' /\ Pending' = Pending \cup {e}
  BY AppendElems, AppendInjective, Zenon DEF Pending, CallsDiffer

\* One more call, new or not.
LEMMA CallJoins ==
    ASSUME events \in Seq(ScheduledCall), NEW e \in ScheduledCall,
           events' = Append(events, e)
    PROVE  Pending' = Pending \cup {e}
<1>1. Elems(Append(events, e)) = Elems(events) \cup {e}
  BY AppendElems, SMT
<1> QED
  BY <1>1 DEF Pending

\* The first call runs.
LEMMA CallTaken ==
    ASSUME events \in Seq(ScheduledCall), CallsDiffer, events # <<>>,
           events' = Tail(events)
    PROVE  CallsDiffer' /\ Pending' = Pending \ {Head(events)}
  BY TailOfInjective, Zenon DEF Pending, CallsDiffer

\* The first call runs and schedules another one.
LEMMA CallReplaced ==
    ASSUME events \in Seq(ScheduledCall), CallsDiffer, events # <<>>,
           NEW e \in ScheduledCall, e \notin Pending,
           events' = Append(Tail(events), e)
    PROVE  CallsDiffer' /\ Pending' = (Pending \ {Head(events)}) \cup {e}
<1> DEFINE t == Tail(events)
<1>1. /\ t \in Seq(ScheduledCall) /\ Injective(t)
      /\ Elems(t) = Pending \ {Head(events)}
  BY TailOfInjective, HeadAndTail, Zenon DEF Pending, CallsDiffer
<1> HIDE DEF t
<1>2. e \notin Elems(t)
  BY <1>1
<1>3. Injective(Append(t, e)) /\ Elems(Append(t, e)) = Elems(t) \cup {e}
  BY <1>1, <1>2, AppendElems, AppendInjective, Zenon
<1> QED
  BY <1>1, <1>3 DEF Pending, CallsDiffer, t

-----------------------------------------------------------------------------
(* Tokens and places.                                                      *)

pVars == <<pathNum, rawReady, rawFail, paths, errorPath, connID, tcp,
           pathState, events>>

\* The parts of the inductive invariant that the proofs below use.
LEMMA PTypes ==
    ASSUME TypeInv, IdInv
    PROVE  /\ pathNum \in [Conn -> Nat] /\ connID \in [Conn -> ConnIDs \cup {0}]
           /\ rawReady \in [Conn -> Seq(Path)] /\ rawFail \in [Conn -> Seq(Path)]
           /\ paths \in [Conn -> Seq(Path)] /\ errorPath \in [Conn -> SUBSET Path]
           /\ tcp \in [Path -> TcpState]
           /\ pathState \in [Path -> PathStatus]
           /\ events \in Seq(ScheduledCall)
           /\ \A c \in Conn : rawReady[c] \in Seq(PathsOf(c))
  BY DEF TypeInv, TypeOK, EventsNamePaths, IdInv, ReadyPathsAreOwn

\* Nothing has been reported, built or placed initially.
LEMMA InitPInv == Init => PInv
<1> SUFFICES ASSUME Init PROVE PInv
  OBVIOUS
<1>1. events = <<>> /\ Pending = {}
  BY DEF Init, Pending, Elems
<1>2. \A c \in Conn : PathsOf(c) \subseteq Path
  BY DEF PathsOf
<1>3. ASSUME NEW c \in Conn
      PROVE  /\ ReportsCounted(c) /\ OneToken(c) /\ BuildFirst(c)
             /\ ReadyOnce(c) /\ PathsOwn(c)
  <2>1. Reported(c) = {}
    BY <1>2 DEF Init, Reported
  <2>2. ReportsCounted(c)
    BY <2>1, <1>2, FS_EmptySet DEF ReportsCounted, Init
  <2>3. OneToken(c)
    BY <1>1, <1>2 DEF OneToken, Init
  <2>4. BuildFirst(c)
    BY <1>1, <1>2 DEF BuildFirst, Init
  <2>5. ReadyOnce(c) /\ PathsOwn(c)
    BY DEF ReadyOnce, PathsOwn, Injective, Elems, Init
  <2> QED
    BY <2>2, <2>3, <2>4, <2>5
<1>4. \A p \in Path : OnePlace(p) /\ Left(p)
  BY <1>1, ConnOfAssumption DEF OnePlace, Left, Init, Elems
<1>5. CallsDiffer
  BY <1>1 DEF CallsDiffer, Injective
<1> QED
  BY <1>3, <1>4, <1>5 DEF PInv

\* A step that changes none of the variables.
LEMMA SamePInv ==
    ASSUME PInv, UNCHANGED pVars
    PROVE  PInv'
<1>1. Pending' = Pending
  BY DEF pVars, Pending, Elems
<1>2. \A c \in Conn : Reported(c)' = Reported(c) /\ (AllReported(c)' <=> AllReported(c))
  BY DEF pVars, Reported, AllReported
<1> HIDE DEF Pending
<1>3. \A c \in Conn : ReportsCounted(c)' /\ OneToken(c)' /\ BuildFirst(c)'
  BY <1>1, <1>2 DEF pVars, PInv, ReportsCounted, OneToken, BuildFirst
<1>4. \A c \in Conn : ReadyOnce(c)' /\ PathsOwn(c)'
  BY DEF pVars, PInv, ReadyOnce, PathsOwn, Injective, Elems
<1>5. \A p \in Path : OnePlace(p)' /\ Left(p)'
  BY <1>1 DEF pVars, PInv, OnePlace, Left, Elems
<1>6. CallsDiffer'
  BY DEF pVars, PInv, CallsDiffer, Injective
<1> QED
  BY <1>3, <1>4, <1>5, <1>6 DEF PInv

\* The name is resolved: the paths of c start to connect.
LEMMA ResolvedPInv ==
    ASSUME TypeInv, IdInv, PInv, NEW c \in Conn, OnCybertwinInterfaceResolved(c)
    PROVE  PInv'
<1>1. /\ pathNum[c] = 0
      /\ pathNum' = [pathNum EXCEPT ![c] = Cardinality(PathsOf(c))]
      /\ \A p \in Path : IF ConnOf[p] = c
                         THEN tcp'[p] \in {"SYN_SENT", "UNROUTED"}
                         ELSE tcp'[p] = tcp[p]
      /\ UNCHANGED <<rawReady, rawFail, paths, errorPath, connID, pathState, events>>
  BY DEF OnCybertwinInterfaceResolved, PathsOf
<1>2. /\ pathNum \in [Conn -> Nat]
      /\ \A d \in Conn : PathsOf(d) \subseteq Path /\ \A p \in PathsOf(d) : ConnOf[p] = d
      /\ \A p \in Path : p \in PathsOf(ConnOf[p]) /\ ConnOf[p] \in Conn
  BY PTypes, ConnOfAssumption DEF PathsOf
<1>3. Pending' = Pending
  BY <1>1 DEF Pending, Elems
<1>4. \A p \in PathsOf(c) : tcp[p] = "NONE"
  BY <1>1 DEF PInv, ReportsCounted
<1>5. Reported(c) = {} /\ Reported(c)' = {}
  BY <1>1, <1>2, <1>4 DEF Reported
<1>6. \A d \in Conn : Reported(d)' = Reported(d)
  <2>1. ASSUME NEW d \in Conn, d # c
        PROVE  Reported(d)' = Reported(d)
    BY <1>1, <1>2, <2>1 DEF Reported
  <2> QED
    BY <1>5, <2>1
<1>7. \A d \in Conn : AllReported(d)' <=> AllReported(d)
  BY <1>6 DEF AllReported
<1>8. ASSUME NEW d \in Conn
      PROVE  ReportsCounted(d)'
  <2>1. /\ pathNum'[d] \in {0, Cardinality(PathsOf(d))}
        /\ d = c => pathNum'[d] = Cardinality(PathsOf(d))
        /\ d # c => pathNum'[d] = pathNum[d]
    BY <1>1, <1>2 DEF PInv, ReportsCounted
  <2>2. ASSUME pathNum'[d] = 0
        PROVE  \A p \in PathsOf(d) : tcp'[p] = "NONE"
    <3>1. CASE d = c
      <4>1. PathsOf(c) \subseteq Path /\ Cardinality(PathsOf(c)) = 0
        BY <1>2, <2>1, <2>2, <3>1
      <4>2. PathsOf(c) = {}
        BY <4>1, PathAssumption, FS_Subset, FS_EmptySet
      <4> QED
        BY <3>1, <4>2
    <3>2. CASE d # c
      BY <1>1, <1>2, <2>1, <2>2, <3>2 DEF PInv, ReportsCounted
    <3> QED
      BY <3>1, <3>2
  <2> QED
    BY <1>1, <1>6, <1>7, <2>1, <2>2 DEF PInv, ReportsCounted
<1>9. \A d \in Conn : OneToken(d)' /\ BuildFirst(d)'
  BY <1>1, <1>3, <1>7 DEF PInv, OneToken, BuildFirst
<1>10. \A d \in Conn : ReadyOnce(d)' /\ PathsOwn(d)'
  BY <1>1 DEF PInv, ReadyOnce, PathsOwn, Injective, Elems
<1>11. ASSUME NEW p \in Path
       PROVE  OnePlace(p)' /\ Left(p)'
  <2>1. tcp'[p] \in {"NONE", "SYN_SENT", "UNROUTED"} => pathState[p] = "INIT"
    BY <1>1, <1>2, <1>4 DEF PInv, Left
  <2> QED
    BY <1>1, <1>3, <2>1 DEF PInv, OnePlace, Left, Elems
<1>12. CallsDiffer'
  BY <1>1 DEF PInv, CallsDiffer, Injective
<1> QED
  BY <1>8, <1>9, <1>10, <1>11, <1>12 DEF PInv

\* A path reports.  If it is the last one, all others have reported before.
LEMMA ReportPInv ==
    ASSUME TypeInv, IdInv, PInv, NEW p \in Path, NEW ready \in BOOLEAN,
           tcp[p] = "SYN_SENT", AddRawPath(p, ready),
           tcp' = [tcp EXCEPT ![p] = IF ready THEN "ESTABLISHED" ELSE "CLOSED"],
           pathState' = [pathState EXCEPT ![p] = IF ready THEN "READY" ELSE "ERROR"],
           UNCHANGED <<pathNum, paths, errorPath, connID>>
    PROVE  PInv'
<1> DEFINE c == ConnOf[p]
           b == Call("BuildConnection", c, NoPath, TRUE)
<1>1. /\ pathNum \in [Conn -> Nat]
      /\ rawReady \in [Conn -> Seq(Path)] /\ rawFail \in [Conn -> Seq(Path)]
      /\ tcp \in [Path -> TcpState]
      /\ pathState \in [Path -> PathStatus]
      /\ events \in Seq(ScheduledCall)
  BY PTypes
<1>2. /\ c \in Conn /\ p \in PathsOf(c)
      /\ \A d \in Conn : PathsOf(d) \subseteq Path /\ \A q \in PathsOf(d) : ConnOf[q] = d
      /\ \A q \in Path : q \in PathsOf(ConnOf[q]) /\ ConnOf[q] \in Conn
  BY ConnOfAssumption DEF PathsOf
<1>3. /\ rawReady' = [rawReady EXCEPT ![c] = IF ready THEN Append(@, p) ELSE @]
      /\ rawFail' = [rawFail EXCEPT ![c] = IF ready THEN @ ELSE Append(@, p)]
      /\ events' = IF Len(rawReady'[c]) + Len(rawFail'[c]) = pathNum[c]
                   THEN Append(events, b) ELSE events
  BY DEF AddRawPath
<1>4. p \notin Reported(c) /\ ~AllReported(c)
  BY <1>2 DEF Reported, AllReported
<1>5. /\ \A e \in Pending : e.conn # c
      /\ \A q \in PathsOf(c) : pathState[q] # "BUILD_SENT"
      /\ connID[c] = 0 /\ pathState[p] = "INIT"
      /\ pathNum[c] # 0
      /\ Len(rawReady[c]) + Len(rawFail[c]) = Cardinality(Reported(c))
  <2>1. connID[c] = 0 /\ \A e \in Pending : e.conn = c => Building(c, e)
    BY <1>2, <1>4 DEF PInv, BuildFirst, Building
  <2>2. \A e \in Pending : e.conn # c
    BY <1>2, <1>4, <2>1 DEF PInv, OneToken
  <2>3. \A q \in PathsOf(c) : pathState[q] # "BUILD_SENT"
    BY <1>2, <1>4 DEF PInv, OneToken
  <2>4. /\ pathNum[c] # 0
        /\ Len(rawReady[c]) + Len(rawFail[c]) = Cardinality(Reported(c))
    BY <1>2, <1>4 DEF PInv, ReportsCounted
  <2>5. pathState[p] = "INIT"
    BY DEF PInv, Left
  <2> QED
    BY <2>1, <2>2, <2>3, <2>4, <2>5
<1>6. /\ Reported(c)' = Reported(c) \cup {p}
      /\ \A d \in Conn : d # c => Reported(d)' = Reported(d)
  BY <1>1, <1>2 DEF Reported
<1>7. \A d \in Conn : AllReported(d) => AllReported(d)'
  BY <1>4, <1>6 DEF AllReported
<1>8. /\ Cardinality(Reported(c)') = Cardinality(Reported(c)) + 1
      /\ Cardinality(Reported(c)) \in Nat
  <2>1. IsFiniteSet(Reported(c))
    BY <1>2, PathAssumption, FS_Subset DEF Reported
  <2> QED
    BY <1>4, <1>6, <2>1, FS_AddElement, FS_CardinalityType
<1>9. Len(rawReady'[c]) + Len(rawFail'[c]) = Cardinality(Reported(c)')
  <2> DEFINE r == rawReady[c]
             f == rawFail[c]
             k == Cardinality(Reported(c))
             m == Cardinality(Reported(c)')
  <2>1. r \in Seq(Path) /\ f \in Seq(Path)
    BY <1>1, <1>2
  <2>2. /\ Len(Append(r, p)) = Len(r) + 1 /\ Len(Append(f, p)) = Len(f) + 1
        /\ Len(r) \in Nat /\ Len(f) \in Nat
    BY <2>1
  <2>3. m = k + 1 /\ k \in Nat /\ Len(r) + Len(f) = k
    BY <1>5, <1>8, Zenon
  <2>4. \/ rawReady'[c] = Append(r, p) /\ rawFail'[c] = f
        \/ rawReady'[c] = r /\ rawFail'[c] = Append(f, p)
    BY <1>1, <1>2, <1>3
  <2>5. \/ Len(rawReady'[c]) = Len(r) + 1 /\ Len(rawFail'[c]) = Len(f)
        \/ Len(rawReady'[c]) = Len(r) /\ Len(rawFail'[c]) = Len(f) + 1
    BY <2>2, <2>4, Zenon
  <2>6. (Len(r) + 1) + Len(f) = m /\ Len(r) + (Len(f) + 1) = m
    <3> HIDE DEF r, f, k, m
    <3> QED
      BY <2>2, <2>3
  <2> QED
    BY <2>5, <2>6, Zenon
<1>10. \/ events' = events /\ Pending' = Pending
       \/ /\ events' = Append(events, b) /\ Pending' = Pending \cup {b}
          /\ AllReported(c)'
  <2>1. CASE events' = events
    BY <2>1 DEF Pending
  <2>2. CASE events' # events
    <3>1. events' = Append(events, b) /\ Len(rawReady'[c]) + Len(rawFail'[c]) = pathNum[c]
      BY <1>3, <2>2
    <3>2. b \in ScheduledCall
      BY <1>2, CallIsScheduled DEF Ops
    <3>3. Pending' = Pending \cup {b}
      BY <1>1, <3>1, <3>2, CallJoins
    <3>4. Cardinality(Reported(c)') = Cardinality(PathsOf(c))
      BY <1>2, <1>5, <1>9, <3>1 DEF PInv, ReportsCounted
    <3>5. Reported(c)' \subseteq PathsOf(c) /\ IsFiniteSet(PathsOf(c))
      BY <1>2, <1>6, PathAssumption, FS_Subset DEF Reported
    <3>6. Reported(c)' = PathsOf(c)
      BY <3>4, <3>5, FS_Subset
    <3> QED
      BY <3>1, <3>3, <3>6 DEF AllReported
  <2> QED
    BY <2>1, <2>2
<1>11. /\ b \notin Pending /\ b.conn = c /\ b.path = NoPath
       /\ \A d \in Conn : Building(d, b) <=> d = c
  <2>1. b.conn = c /\ b.path = NoPath /\ b.op = "BuildConnection"
    BY DEF Call
  <2> QED
    BY <1>5, <2>1 DEF Building
<1> HIDE DEF b, Pending
<1>12. ASSUME NEW d \in Conn PROVE ReportsCounted(d)'
  <2>1. CASE d = c
    <3>1. pathNum'[c] = pathNum[c] /\ pathNum[c] \in {0, Cardinality(PathsOf(c))}
      BY <1>2 DEF PInv, ReportsCounted
    <3> QED
      BY <1>5, <1>9, <2>1, <3>1 DEF ReportsCounted
  <2>2. CASE d # c
    <3>1. rawReady'[d] = rawReady[d] /\ rawFail'[d] = rawFail[d]
      BY <1>1, <1>3, <2>2
    <3>2. \A q \in PathsOf(d) : tcp'[q] = tcp[q]
      BY <1>1, <1>2, <2>2
    <3> QED
      BY <1>6, <2>2, <3>1, <3>2 DEF PInv, ReportsCounted, AllReported
  <2> QED
    BY <2>1, <2>2
<1>13. \A q \in Path : /\ q # p => pathState'[q] = pathState[q] /\ tcp'[q] = tcp[q]
                       /\ pathState'[q] = "BUILD_SENT" => q # p /\ pathState[q] = "BUILD_SENT"
                       /\ pathState'[q] = "JOIN_SENT" => q # p /\ pathState[q] = "JOIN_SENT"
  BY <1>1
<1>14. ASSUME NEW d \in Conn PROVE OneToken(d)'
  <2>1. OneToken(d)
    BY DEF PInv
  <2>2. \A q \in PathsOf(d) : q \in Path
    BY <1>2
  <2>3. ~(\E e \in Pending : Building(c, e))
    BY <1>5 DEF Building
  <2> QED
    BY <1>5, <1>7, <1>10, <1>11, <1>13, <2>1, <2>2, <2>3 DEF OneToken
<1>15. ASSUME NEW d \in Conn PROVE BuildFirst(d)'
  <2>1. BuildFirst(d)
    BY DEF PInv
  <2>2. b.op = "BuildConnection"
    BY DEF b, Call
  <2> QED
    BY <1>2, <1>7, <1>10, <1>13, <2>1, <2>2 DEF BuildFirst
<1>16. ASSUME NEW d \in Conn PROVE ReadyOnce(d)' /\ PathsOwn(d)'
  <2>1. ReadyOnce(d) /\ PathsOwn(d)
    BY DEF PInv
  <2>2. p \notin Elems(rawReady[d])
    BY <1>5, <2>1 DEF ReadyOnce
  <2>3. \/ rawReady'[d] = rawReady[d]
        \/ /\ rawReady'[d] = Append(rawReady[d], p) /\ ready
    BY <1>1, <1>3
  <2>4. rawReady[d] \in Seq(Path)
    BY <1>1
  <2>5. Injective(rawReady'[d]) /\ Elems(rawReady'[d]) \subseteq Elems(rawReady[d]) \cup {p}
        /\ (p \in Elems(rawReady'[d]) => ready)
    <3>1. /\ Elems(Append(rawReady[d], p)) = Elems(rawReady[d]) \cup {p}
          /\ Injective(Append(rawReady[d], p))
      <4> DEFINE r == rawReady[d]
      <4> HIDE DEF r
      <4>1. r \in Seq(Path) /\ Injective(r) /\ p \notin Elems(r)
        BY <2>1, <2>2, <2>4 DEF ReadyOnce, r
      <4> QED
        BY <4>1, AppendElems, AppendInjective, SMT DEF r
    <3> QED
      BY <2>1, <2>2, <2>3, <3>1 DEF ReadyOnce
  <2>6. Elems(rawReady[d]) \subseteq Path
    BY <2>4 DEF Elems
  <2>7. \A q \in Elems(rawReady'[d]) : pathState'[q] = "READY"
    BY <1>1, <1>13, <2>1, <2>5, <2>6 DEF ReadyOnce
  <2> QED
    BY <2>1, <2>5, <2>7 DEF ReadyOnce, PathsOwn
<1>17. ASSUME NEW q \in Path PROVE OnePlace(q)' /\ Left(q)'
  <2>1. OnePlace(q) /\ Left(q)
    BY DEF PInv
  <2>2. \A e \in Pending' : e.path = q => e \in Pending
    BY <1>10, <1>11, NoPathAssumption
  <2>3. OnePlace(q)'
    BY <2>1, <2>2 DEF OnePlace
  <2>4. tcp'[p] \notin {"NONE", "SYN_SENT", "UNROUTED"}
    BY <1>1
  <2>5. Left(q)'
    BY <1>5, <1>13, <2>1, <2>2, <2>4 DEF Left
  <2> QED
    BY <2>3, <2>5
<1>18. CallsDiffer'
  <2>1. b \in ScheduledCall
    BY <1>2, CallIsScheduled DEF Ops, b
  <2>2. CASE events' = events
    BY <2>2 DEF PInv, CallsDiffer
  <2>3. CASE events' = Append(events, b)
    BY <1>1, <1>11, <2>1, <2>3, CallAdded DEF PInv
  <2> QED
    BY <1>10, <2>2, <2>3
<1> QED
  BY <1>12, <1>14, <1>15, <1>16, <1>17, <1>18 DEF PInv

\* What belongs to whom.
LEMMA Ownership ==
    /\ \A d \in Conn : PathsOf(d) \subseteq Path /\ \A q \in PathsOf(d) : ConnOf[q] = d
    /\ \A q \in Path : q \in PathsOf(ConnOf[q]) /\ ConnOf[q] \in Conn
  BY ConnOfAssumption DEF PathsOf

\* The first scheduled call.
LEMMA FirstPending ==
    ASSUME TypeInv, events # <<>>
    PROVE  /\ Head(events) \in Pending /\ Head(events).conn \in Conn
           /\ Head(events).op \in {"AddInitConnectPath", "PathJoinResult"} =>
                 /\ Head(events).path \in Path
                 /\ Head(events).conn = ConnOf[Head(events).path]
<1>1. events \in Seq(ScheduledCall)
  BY DEF TypeInv, EventsNamePaths
<1>2. 1 \in DOMAIN events /\ Head(events) = events[1]
  BY <1>1
<1>3. Head(events) \in ScheduledCall /\ Head(events).conn \in Conn
  BY <1>1, FirstCall
<1> QED
  BY <1>2, <1>3 DEF Pending, Elems, ScheduledCall

\* A step after the last report of the connections it touches.
LEMMA ReportsStay ==
    ASSUME PInv, UNCHANGED pathNum,
           \A q \in Path : \/ tcp'[q] = tcp[q]
                           \/ tcp[q] = "ESTABLISHED" /\ tcp'[q] = "CLOSED",
           \A d \in Conn : AllReported(d) \/ UNCHANGED <<rawReady[d], rawFail[d]>>
    PROVE  /\ \A d \in Conn : ReportsCounted(d)' /\ (AllReported(d)' <=> AllReported(d))
           /\ \A q \in Path : tcp'[q] \in {"NONE", "SYN_SENT", "UNROUTED"} => tcp[q] \in {"NONE", "SYN_SENT", "UNROUTED"}
<1>1. \A d \in Conn : Reported(d)' = Reported(d)
  BY Ownership DEF Reported
<1>2. \A d \in Conn : AllReported(d)' <=> AllReported(d)
  BY <1>1 DEF AllReported
<1>3. ASSUME NEW d \in Conn PROVE ReportsCounted(d)'
  <2>1. ReportsCounted(d)
    BY DEF PInv
  <2>2. pathNum[d] = 0 => \A q \in PathsOf(d) : tcp'[q] = "NONE"
    BY <2>1, Ownership DEF ReportsCounted
  <2> QED
    BY <1>1, <1>2, <2>1, <2>2 DEF ReportsCounted
<1> QED
  BY <1>2, <1>3

\* BuildConnection runs: the token goes to the first ready path, if any.
LEMMA BuildPInv ==
    ASSUME TypeInv, IdInv, PInv, BuildConnection
    PROVE  PInv'
<1> DEFINE e == Head(events)
           c == e.conn
           p == Head(rawReady[c])
<1>1. /\ rawReady \in [Conn -> Seq(Path)] /\ pathState \in [Path -> PathStatus]
      /\ events \in Seq(ScheduledCall) /\ rawReady[c] \in Seq(PathsOf(c))
      /\ events # <<>> /\ e.op = "BuildConnection" /\ c \in Conn /\ e \in Pending
  BY PTypes, FirstPending DEF BuildConnection, Fires
<1>2. /\ events' = Tail(events)
      /\ UNCHANGED <<connID, pathNum, rawFail, paths, errorPath, tcp>>
      /\ IF rawReady[c] = <<>>
         THEN UNCHANGED <<rawReady, pathState>>
         ELSE /\ rawReady' = [rawReady EXCEPT ![c] = Tail(@)]
              /\ pathState' = [pathState EXCEPT ![p] = "BUILD_SENT"]
  BY DEF BuildConnection, InitConnection
<1>3. CallsDiffer' /\ Pending' = Pending \ {e}
  BY <1>1, <1>2, CallTaken DEF PInv
<1>4. /\ AllReported(c) /\ connID[c] = 0
      /\ \A f \in Pending : Building(c, f) => f = e
      /\ \A q \in PathsOf(c) : pathState[q] # "BUILD_SENT"
  BY <1>1 DEF PInv, OneToken, Building
<1>5. rawReady[c] # <<>> =>
         /\ p \in PathsOf(c) /\ p \in Path /\ pathState[p] = "READY"
         /\ p \in Elems(rawReady[c])
         /\ Elems(Tail(rawReady[c])) = Elems(rawReady[c]) \ {p}
         /\ Injective(Tail(rawReady[c]))
  <2>1. Injective(rawReady[c]) /\ \A q \in Elems(rawReady[c]) : pathState[q] = "READY"
    BY <1>1 DEF PInv, ReadyOnce
  <2> DEFINE r == rawReady[c]
  <2> HIDE DEF r
  <2>2. ASSUME r # <<>>
        PROVE  /\ Head(r) \in Elems(r) /\ Elems(Tail(r)) = Elems(r) \ {Head(r)}
               /\ Injective(Tail(r)) /\ Head(r) \in PathsOf(c)
    <3>1. r \in Seq(PathsOf(c)) /\ Injective(r)
      BY <1>1, <2>1 DEF r
    <3> QED
      BY <2>2, <3>1, TailOfInjective, HeadAndTail
  <2> QED
    BY <1>1, <2>1, <2>2, Ownership DEF r
<1> HIDE DEF e, c, p, Pending
<1>6. \A d \in Conn : /\ d # c => rawReady'[d] = rawReady[d]
                      /\ rawReady[c] = <<>> => rawReady'[d] = rawReady[d]
                      /\ d = c /\ rawReady[c] # <<>> => rawReady'[d] = Tail(rawReady[c])
  <2>1. CASE rawReady[c] = <<>>
    BY <1>2, <2>1
  <2>2. CASE rawReady[c] # <<>>
    <3>1. rawReady' = [rawReady EXCEPT ![c] = Tail(@)]
      BY <1>2, <2>2
    <3>2. rawReady \in [Conn -> Seq(Path)] /\ c \in Conn
      BY <1>1
    <3> QED
      BY <2>2, <3>1, <3>2
  <2> QED
    BY <2>1, <2>2
<1>7. /\ \A q \in Path : q # p => pathState'[q] = pathState[q]
      /\ pathState'[p] = pathState[p] \/ (rawReady[c] # <<>> /\ pathState'[p] = "BUILD_SENT")
  <2>1. CASE rawReady[c] = <<>>
    <3>1. pathState' = pathState
      BY <1>2, <2>1
    <3> QED
      BY <3>1
  <2>2. CASE rawReady[c] # <<>>
    <3>1. pathState' = [pathState EXCEPT ![p] = "BUILD_SENT"]
      BY <1>2, <2>2
    <3>2. pathState \in [Path -> PathStatus] /\ p \in Path
      BY <1>1, <1>5, <2>2
    <3> QED
      BY <2>2, <3>1, <3>2
  <2> QED
    BY <2>1, <2>2
<1>8. /\ \A d \in Conn : ReportsCounted(d)' /\ (AllReported(d)' <=> AllReported(d))
      /\ \A q \in Path : tcp'[q] \in {"NONE", "SYN_SENT", "UNROUTED"} => tcp[q] \in {"NONE", "SYN_SENT", "UNROUTED"}
  <2>1. tcp' = tcp /\ rawFail' = rawFail /\ pathNum' = pathNum
    BY <1>2
  <2>2. \A d \in Conn : AllReported(d) \/ UNCHANGED <<rawReady[d], rawFail[d]>>
    BY <1>4, <1>6, <2>1
  <2> QED
    BY <2>1, <2>2, ReportsStay
<1>9. ASSUME NEW d \in Conn PROVE OneToken(d)'
  <2>1. OneToken(d)
    BY DEF PInv
  <2>2. CASE d = c
    <3>1. \A f \in Pending' : ~Building(c, f)
      BY <1>3, <1>4
    <3>2. \A q \in PathsOf(c) : pathState'[q] = "BUILD_SENT" => q = p
      BY <1>1, <1>4, <1>7, Ownership
    <3> QED
      BY <1>1, <1>2, <1>4, <1>8, <2>2, <3>1, <3>2 DEF OneToken
  <2>3. CASE d # c
    <3>1. \A q \in PathsOf(d) : pathState'[q] = pathState[q]
      BY <1>1, <1>5, <1>7, <2>3, Ownership
    <3> QED
      BY <1>2, <1>3, <1>8, <2>1, <3>1 DEF OneToken
  <2> QED
    BY <2>2, <2>3
<1>10. ASSUME NEW d \in Conn PROVE BuildFirst(d)'
  <2>1. BuildFirst(d)
    BY DEF PInv
  <2>2. \A q \in PathsOf(d) : pathState'[q] = "JOIN_SENT" => pathState[q] = "JOIN_SENT"
    BY <1>7, Ownership
  <2> QED
    BY <1>2, <1>3, <1>8, <2>1, <2>2 DEF BuildFirst
<1>11. ASSUME NEW d \in Conn PROVE ReadyOnce(d)' /\ PathsOwn(d)'
  <2>1. ReadyOnce(d) /\ PathsOwn(d)
    BY DEF PInv
  <2>2. Injective(rawReady'[d]) /\ Elems(rawReady'[d]) \subseteq Elems(rawReady[d])
    BY <1>5, <1>6, <2>1 DEF ReadyOnce
  <2>3. \A q \in Elems(rawReady[d]) : q \in PathsOf(d) /\ q \in Path
    BY PTypes, Ownership DEF Elems
  <2>4. ASSUME rawReady[c] # <<>> PROVE p \notin Elems(rawReady'[d])
    <3>1. CASE d = c
      <4>1. rawReady'[d] = Tail(rawReady[c])
        BY <1>6, <2>4, <3>1
      <4> QED
        BY <1>5, <2>4, <4>1
    <3>2. CASE d # c
      <4>1. ConnOf[p] = c
        BY <1>1, <1>5, <2>4, Ownership
      <4>2. \A q \in Elems(rawReady[d]) : ConnOf[q] = d
        BY <2>3, Ownership
      <4> QED
        BY <1>6, <3>2, <4>1, <4>2
    <3> QED
      BY <3>1, <3>2
  <2>5. \A q \in Elems(rawReady'[d]) : pathState'[q] = "READY"
    BY <1>7, <2>1, <2>2, <2>3, <2>4 DEF ReadyOnce
  <2> QED
    BY <1>2, <2>1, <2>2, <2>5 DEF ReadyOnce, PathsOwn
<1>12. ASSUME NEW q \in Path PROVE OnePlace(q)' /\ Left(q)'
  <2>1. OnePlace(q) /\ Left(q)
    BY DEF PInv
  <2>2. OnePlace(q)'
    BY <1>2, <1>3, <2>1 DEF OnePlace
  <2>3. /\ pathState[q] \in {"INIT", "CONNECTED", "CLOSED", "ERROR"} => pathState'[q] = pathState[q]
    BY <1>5, <1>7
  <2>4. Left(q)'
    BY <1>2, <1>3, <1>8, <2>1, <2>3 DEF Left
  <2> QED
    BY <2>2, <2>4
<1> QED
  BY <1>3, <1>8, <1>9, <1>10, <1>11, <1>12 DEF PInv

\* The call that holds path p moves it to m_paths or to m_errorPath.
LEMMA PlaceMoved ==
    ASSUME TypeInv, IdInv, PInv, NEW p \in Path, NEW e \in Pending, e.path = p,
           \A x \in Pending' : x \in Pending \ {e} \/ x.path = NoPath,
           UNCHANGED <<pathState, tcp>>,
           \/ /\ paths' = [paths EXCEPT ![ConnOf[p]] = Append(@, p)]
              /\ UNCHANGED errorPath
           \/ /\ errorPath' = [errorPath EXCEPT ![ConnOf[p]] = @ \cup {p}]
              /\ UNCHANGED paths
    PROVE  /\ \A q \in Path : OnePlace(q)' /\ Left(q)'
           /\ \A d \in Conn : PathsOwn(d)'
<1> DEFINE c == ConnOf[p]
<1>1. /\ paths \in [Conn -> Seq(Path)] /\ errorPath \in [Conn -> SUBSET Path]
      /\ c \in Conn /\ p \in PathsOf(c) /\ \A q \in Path : ConnOf[q] \in Conn
  BY PTypes, Ownership
<1>2. /\ \A x \in Pending : x.path = p => x = e
      /\ p \notin Elems(paths[c]) /\ p \notin errorPath[c]
      /\ pathState[p] \in {"CONNECTED", "CLOSED", "ERROR"}
  BY DEF PInv, OnePlace, Left
<1>3. \A q \in Path : \A x \in Pending' : x.path = q => x \in Pending /\ q # p
  BY <1>2, NoPathAssumption
<1> HIDE DEF c, Pending
<1>4. CASE /\ paths' = [paths EXCEPT ![c] = Append(@, p)]
           /\ errorPath' = errorPath
  <2>1. \A d \in Conn : d # c => paths'[d] = paths[d]
    BY <1>1, <1>4
  <2>2. paths'[c] = Append(paths[c], p) /\ paths[c] \in Seq(Path) /\ paths[c] \in Seq(PathsOf(c))
    BY <1>1, <1>4 DEF PInv, PathsOwn
  <2>3. /\ DOMAIN paths[c] = 1..Len(paths[c]) /\ Len(paths[c]) \in Nat
        /\ DOMAIN paths'[c] = 1..(Len(paths[c]) + 1)
        /\ paths'[c][Len(paths[c]) + 1] = p
        /\ \A i \in DOMAIN paths[c] : paths'[c][i] = paths[c][i]
    BY <2>2
  <2>4. Elems(paths'[c]) = Elems(paths[c]) \cup {p}
    BY <1>1, <2>2, AppendElems
  <2>5. ASSUME NEW q \in Path PROVE OnePlace(q)' /\ Left(q)'
    <3>1. OnePlace(q) /\ Left(q)
      BY DEF PInv
    <3>2. CASE q = p
      <4>1. \A i \in DOMAIN paths[c] : paths[c][i] # p
        BY <1>2 DEF Elems
      <4>2. \A i, j \in DOMAIN paths'[c] : paths'[c][i] = p /\ paths'[c][j] = p => i = j
        BY <2>3, <4>1
      <4>3. OnePlace(q)'
        BY <1>2, <1>3, <1>4, <3>2, <4>2 DEF OnePlace, c
      <4> QED
        BY <1>2, <1>4, <3>1, <3>2, <4>3 DEF Left
    <3>3. CASE q # p /\ ConnOf[q] = c
      <4>1. \A i, j \in DOMAIN paths[c] : paths[c][i] = q /\ paths[c][j] = q => i = j
        BY <3>1, <3>3 DEF OnePlace
      <4>2. \A i, j \in DOMAIN paths'[c] : paths'[c][i] = q /\ paths'[c][j] = q => i = j
        BY <2>3, <3>3, <4>1
      <4>3. OnePlace(q)'
        BY <1>3, <1>4, <2>4, <3>1, <3>3, <4>2 DEF OnePlace
      <4> QED
        BY <1>3, <1>4, <2>4, <3>1, <3>3, <4>3 DEF Left
    <3>4. CASE ConnOf[q] # c
      <4>1. paths'[ConnOf[q]] = paths[ConnOf[q]]
        BY <1>1, <2>1, <3>4
      <4> QED
        BY <1>3, <1>4, <3>1, <4>1 DEF OnePlace, Left
    <3> QED
      BY <3>2, <3>3, <3>4 DEF c
  <2>6. ASSUME NEW d \in Conn PROVE PathsOwn(d)'
    <3>1. PathsOwn(d)
      BY DEF PInv
    <3>2. Append(paths[c], p) \in Seq(PathsOf(c))
      BY <1>1, <2>2
    <3> QED
      BY <1>4, <2>1, <2>2, <3>1, <3>2 DEF PathsOwn
  <2> QED
    BY <2>5, <2>6
<1>5. CASE /\ errorPath' = [errorPath EXCEPT ![c] = @ \cup {p}]
           /\ paths' = paths
  <2>1. /\ \A d \in Conn : d # c => errorPath'[d] = errorPath[d]
        /\ errorPath'[c] = errorPath[c] \cup {p}
    BY <1>1, <1>5
  <2>2. ASSUME NEW q \in Path PROVE OnePlace(q)' /\ Left(q)'
    <3>1. OnePlace(q) /\ Left(q)
      BY DEF PInv
    <3>2. CASE q = p
      BY <1>1, <1>2, <1>3, <1>5, <2>1, <3>1, <3>2 DEF OnePlace, Left, c
    <3>3. CASE q # p
      <4>1. q \in errorPath'[ConnOf[q]] => q \in errorPath[ConnOf[q]]
        BY <1>1, <2>1, <3>3
      <4> QED
        BY <1>3, <1>5, <3>1, <4>1 DEF OnePlace, Left
    <3> QED
      BY <3>2, <3>3
  <2>3. \A d \in Conn : PathsOwn(d)'
    BY <1>1, <1>5, <2>1 DEF PInv, PathsOwn
  <2> QED
    BY <2>2, <2>3
<1> QED
  BY <1>4, <1>5 DEF c

\* The connection gets its id and its first path; the token is used up.
LEMMA AddInitPInv ==
    ASSUME TypeInv, IdInv, PInv, AInv, AddInitConnectPath
    PROVE  PInv'
<1> DEFINE e == Head(events)
           c == e.conn
           p == e.path
           x == Call("ConnectOtherPath", c, NoPath, TRUE)
<1>1. /\ connID \in [Conn -> ConnIDs \cup {0}] /\ events \in Seq(ScheduledCall)
      /\ events # <<>> /\ e.op = "AddInitConnectPath" /\ c \in Conn /\ e \in Pending
      /\ p \in Path /\ c = ConnOf[p]
  BY PTypes, FirstPending DEF AddInitConnectPath, Fires
<1>2. /\ connID' = [connID EXCEPT ![c] = pathConnID[p]]
      /\ paths' = [paths EXCEPT ![c] = Append(@, p)]
      /\ events' = Append(Tail(events), x)
      /\ UNCHANGED <<pathNum, rawReady, rawFail, errorPath, tcp, pathState>>
  BY DEF AddInitConnectPath, pathVars
<1>3. /\ AllReported(c) /\ connID[c] = 0
      /\ \A f \in Pending : Building(c, f) => f = e
      /\ \A q \in PathsOf(c) : pathState[q] # "BUILD_SENT"
  BY <1>1 DEF PInv, OneToken, Building
<1>4. x \notin Pending /\ x \in ScheduledCall /\ x.op = "ConnectOtherPath" /\ x.path = NoPath
  <2>1. x.conn = c /\ x.op = "ConnectOtherPath" /\ x.path = NoPath
    BY DEF Call
  <2>2. x \in ScheduledCall
    BY <1>1, CallIsScheduled DEF Ops
  <2> QED
    BY <1>1, <1>3, <2>1, <2>2 DEF PInv, BuildFirst
<1>5. CallsDiffer' /\ Pending' = (Pending \ {e}) \cup {x}
  BY <1>1, <1>2, <1>4, CallReplaced DEF PInv
<1>6. connID'[c] # 0 /\ \A d \in Conn : d # c => connID'[d] = connID[d]
  <2>1. pathConnID[p] # 0
    BY <1>1 DEF AInv, Agreed
  <2> QED
    BY <1>1, <1>2, <2>1
<1> HIDE DEF e, c, p, x, Pending
<1>7. /\ \A q \in Path : OnePlace(q)' /\ Left(q)'
      /\ \A d \in Conn : PathsOwn(d)'
  <2>1. \A y \in Pending' : y \in Pending \ {e} \/ y.path = NoPath
    BY <1>4, <1>5
  <2>2. e.path = p
    BY DEF p
  <2> QED
    BY <1>1, <1>2, <2>1, <2>2, PlaceMoved
<1>8. \A d \in Conn : ReportsCounted(d)' /\ (AllReported(d)' <=> AllReported(d))
  BY <1>2, ReportsStay
<1>9. \A d \in Conn : ~Building(d, x)
  BY <1>4 DEF Building
<1>10. ASSUME NEW d \in Conn PROVE OneToken(d)' /\ BuildFirst(d)'
  <2>1. OneToken(d) /\ BuildFirst(d)
    BY DEF PInv
  <2>2. CASE d = c
    <3>1. \A f \in Pending' : ~Building(c, f)
      BY <1>1, <1>3, <1>5, <1>9
    <3> QED
      BY <1>1, <1>2, <1>3, <1>6, <1>8, <2>2, <3>1 DEF OneToken, BuildFirst
  <2>3. CASE d # c
    <3>1. \A f \in Pending' : f.conn = d => f \in Pending
      BY <1>5, <2>3 DEF x, Call
    <3>2. \A f \in Pending' : Building(d, f) => f \in Pending
      BY <3>1 DEF Building
    <3>3. paths'[d] = paths[d]
      BY <1>1, <1>2, <2>3, PTypes
    <3> QED
      BY <1>2, <1>6, <1>8, <2>1, <2>3, <3>1, <3>2, <3>3 DEF OneToken, BuildFirst
  <2> QED
    BY <2>2, <2>3
<1>11. \A d \in Conn : ReadyOnce(d)'
  BY <1>2 DEF PInv, ReadyOnce
<1> QED
  BY <1>5, <1>7, <1>8, <1>10, <1>11 DEF PInv

\* The result of a join is filed.
LEMMA JoinResultPInv ==
    ASSUME TypeInv, IdInv, PInv, PathJoinResult
    PROVE  PInv'
<1> DEFINE e == Head(events)
           p == e.path
<1>1. /\ events \in Seq(ScheduledCall) /\ events # <<>> /\ e.op = "PathJoinResult"
      /\ e \in Pending /\ p \in Path /\ e.conn = ConnOf[p] /\ ConnOf[p] \in Conn
  BY PTypes, FirstPending DEF PathJoinResult, Fires
<1>2. /\ events' = Tail(events)
      /\ \/ /\ paths' = [paths EXCEPT ![ConnOf[p]] = Append(@, p)]
            /\ UNCHANGED errorPath
         \/ /\ errorPath' = [errorPath EXCEPT ![ConnOf[p]] = @ \cup {p}]
            /\ UNCHANGED paths
      /\ UNCHANGED <<connID, pathNum, rawReady, rawFail, tcp, pathState>>
  BY <1>1 DEF PathJoinResult, pathVars
<1>3. CallsDiffer' /\ Pending' = Pending \ {e}
  BY <1>1, <1>2, CallTaken DEF PInv
<1>4. connID[ConnOf[p]] # 0
  BY <1>1 DEF PInv, BuildFirst
<1>5. \A d \in Conn : d # ConnOf[p] => paths'[d] = paths[d]
  BY <1>1, <1>2, PTypes
<1> HIDE DEF e, p, Pending
<1>6. /\ \A q \in Path : OnePlace(q)' /\ Left(q)'
      /\ \A d \in Conn : PathsOwn(d)'
  <2>1. \A y \in Pending' : y \in Pending \ {e} \/ y.path = NoPath
    BY <1>3
  <2>2. e.path = p
    BY DEF p
  <2> QED
    BY <1>1, <1>2, <2>1, <2>2, PlaceMoved
<1>7. \A d \in Conn : ReportsCounted(d)' /\ (AllReported(d)' <=> AllReported(d))
  BY <1>2, ReportsStay
<1>8. ASSUME NEW d \in Conn PROVE OneToken(d)' /\ BuildFirst(d)'
  <2>1. OneToken(d) /\ BuildFirst(d)
    BY DEF PInv
  <2> QED
    BY <1>2, <1>3, <1>4, <1>5, <1>7, <2>1 DEF OneToken, BuildFirst
<1>9. \A d \in Conn : ReadyOnce(d)'
  BY <1>2 DEF PInv, ReadyOnce
<1> QED
  BY <1>3, <1>6, <1>7, <1>8, <1>9 DEF PInv

\* Every path that is left sends a join.
LEMMA ConnectOtherPInv ==
    ASSUME TypeInv, IdInv, PInv, ConnectOtherPath
    PROVE  PInv'
<1> DEFINE e == Head(events)
           c == e.conn
           joining == Elems(rawReady[c])
<1>1. /\ rawReady \in [Conn -> Seq(Path)]
      /\ events \in Seq(ScheduledCall) /\ events # <<>>
      /\ e.op = "ConnectOtherPath" /\ c \in Conn /\ e \in Pending
  BY PTypes, FirstPending DEF ConnectOtherPath, Fires
<1>2. /\ events' = Tail(events)
      /\ rawReady' = [rawReady EXCEPT ![c] = <<>>]
      /\ pathState' = [p \in Path |-> IF p \in joining THEN "JOIN_SENT" ELSE pathState[p]]
      /\ UNCHANGED <<connID, pathNum, rawFail, paths, errorPath, tcp>>
  BY DEF ConnectOtherPath
<1>3. CallsDiffer' /\ Pending' = Pending \ {e}
  BY <1>1, <1>2, CallTaken DEF PInv
<1>4. connID[c] # 0 /\ AllReported(c)
  BY <1>1 DEF PInv, BuildFirst
<1>5. \A q \in joining : q \in Path /\ ConnOf[q] = c /\ pathState[q] = "READY"
  <2>1. rawReady[c] \in Seq(PathsOf(c))
    BY <1>1, PTypes
  <2>2. \A q \in joining : q \in PathsOf(c)
    BY <2>1 DEF Elems
  <2> QED
    BY <1>1, <2>2, Ownership DEF PInv, ReadyOnce
<1> HIDE DEF e, c, joining, Pending
<1>6. \A q \in Path : \/ pathState'[q] = pathState[q]
                      \/ /\ ConnOf[q] = c /\ pathState[q] = "READY"
                         /\ pathState'[q] = "JOIN_SENT"
  BY <1>2, <1>5
<1>7. rawReady'[c] = <<>> /\ \A d \in Conn : d # c => rawReady'[d] = rawReady[d]
  BY <1>1, <1>2
<1>8. /\ \A d \in Conn : ReportsCounted(d)' /\ (AllReported(d)' <=> AllReported(d))
      /\ \A q \in Path : tcp'[q] \in {"NONE", "SYN_SENT", "UNROUTED"} => tcp[q] \in {"NONE", "SYN_SENT", "UNROUTED"}
  <2>1. tcp' = tcp /\ rawFail' = rawFail /\ pathNum' = pathNum
    BY <1>2
  <2>2. \A d \in Conn : AllReported(d) \/ UNCHANGED <<rawReady[d], rawFail[d]>>
    BY <1>4, <1>7, <2>1
  <2> QED
    BY <2>1, <2>2, ReportsStay
<1>9. ASSUME NEW d \in Conn PROVE OneToken(d)'
  <2>1. OneToken(d)
    BY DEF PInv
  <2>2. \A q \in PathsOf(d) : pathState'[q] = "BUILD_SENT" => pathState[q] = "BUILD_SENT"
    BY <1>6, Ownership
  <2> QED
    BY <1>2, <1>3, <1>8, <2>1, <2>2 DEF OneToken
<1>10. ASSUME NEW d \in Conn PROVE BuildFirst(d)'
  <2>1. BuildFirst(d)
    BY DEF PInv
  <2>2. \A q \in PathsOf(d) : d # c => pathState'[q] = pathState[q]
    BY <1>6, Ownership
  <2> QED
    BY <1>2, <1>3, <1>4, <1>8, <2>1, <2>2 DEF BuildFirst
<1>11. ASSUME NEW d \in Conn PROVE ReadyOnce(d)' /\ PathsOwn(d)'
  <2>1. ReadyOnce(d) /\ PathsOwn(d)
    BY DEF PInv
  <2>2. CASE d = c
    BY <1>2, <1>7, <2>1, <2>2 DEF ReadyOnce, PathsOwn, Injective, Elems
  <2>3. CASE d # c
    <3>1. \A q \in Elems(rawReady[d]) : q \in Path /\ ConnOf[q] = d
      <4>1. rawReady[d] \in Seq(PathsOf(d))
        BY PTypes
      <4> QED
        BY <4>1, Ownership DEF Elems
    <3> QED
      BY <1>2, <1>6, <1>7, <2>1, <2>3, <3>1 DEF ReadyOnce, PathsOwn
  <2> QED
    BY <2>2, <2>3
<1>12. ASSUME NEW q \in Path PROVE OnePlace(q)' /\ Left(q)'
  <2>1. OnePlace(q) /\ Left(q)
    BY DEF PInv
  <2>2. OnePlace(q)'
    BY <1>2, <1>3, <2>1 DEF OnePlace
  <2>3. pathState[q] # "READY" => pathState'[q] = pathState[q]
    BY <1>6
  <2>4. Left(q)'
    BY <1>2, <1>3, <1>8, <2>1, <2>3 DEF Left
  <2> QED
    BY <2>2, <2>4
<1> QED
  BY <1>3, <1>8, <1>9, <1>10, <1>11, <1>12 DEF PInv

\* A path leaves the handshake: by an answer, which schedules a call about
\* it, or because its TCP connection breaks.
LEMMA LeavePInv ==
    ASSUME TypeInv, IdInv, PInv, NEW p \in Path, NEW x \in ScheduledCall,
           pathState[p] \in {"BUILD_SENT", "JOIN_SENT", "CONNECTED"},
           NEW st \in {"CONNECTED", "CLOSED", "ERROR"},
           pathState' = [pathState EXCEPT ![p] = st],
           \A q \in Path : \/ tcp'[q] = tcp[q]
                           \/ tcp[q] = "ESTABLISHED" /\ tcp'[q] = "CLOSED",
           \/ events' = events
           \/ /\ events' = Append(events, x) /\ x.path = p /\ x.conn = ConnOf[p]
              /\ \/ x.op = "AddInitConnectPath" /\ pathState[p] = "BUILD_SENT"
                 \/ x.op = "PathJoinResult" /\ pathState[p] = "JOIN_SENT",
           UNCHANGED <<connID, pathNum, rawReady, rawFail, paths, errorPath>>
    PROVE  PInv'
<1> DEFINE c == ConnOf[p]
<1>1. /\ pathState \in [Path -> PathStatus] /\ events \in Seq(ScheduledCall)
      /\ c \in Conn /\ p \in PathsOf(c)
  BY PTypes, Ownership
<1>2. /\ pathState'[p] = st
      /\ \A q \in Path : q # p => pathState'[q] = pathState[q]
      /\ \A d \in Conn : d # c => \A q \in PathsOf(d) : pathState'[q] = pathState[q]
  BY <1>1, Ownership
<1>3. pathState[p] # "CONNECTED" =>
         /\ \A f \in Pending : f.path # p
         /\ p \notin Elems(paths[c]) /\ p \notin errorPath[c]
  BY DEF PInv, Left
<1>4. /\ CallsDiffer'
      /\ \/ Pending' = Pending
         \/ /\ Pending' = Pending \cup {x} /\ x.path = p /\ x.conn = c
            /\ \/ x.op = "AddInitConnectPath" /\ pathState[p] = "BUILD_SENT"
               \/ x.op = "PathJoinResult" /\ pathState[p] = "JOIN_SENT"
  <2>1. CASE events' = events
    BY <2>1 DEF Pending, PInv, CallsDiffer
  <2>2. CASE events' # events
    <3>1. events' = Append(events, x) /\ x \notin Pending
      BY <1>3, <2>2
    <3>2. CallsDiffer' /\ Pending' = Pending \cup {x}
      BY <1>1, <3>1, CallAdded DEF PInv
    <3> QED
      BY <2>2, <3>2
  <2> QED
    BY <2>1, <2>2
<1> HIDE DEF c, Pending
<1>5. /\ \A d \in Conn : ReportsCounted(d)' /\ (AllReported(d)' <=> AllReported(d))
      /\ \A q \in Path : tcp'[q] \in {"NONE", "SYN_SENT", "UNROUTED"} => tcp[q] \in {"NONE", "SYN_SENT", "UNROUTED"}
  BY ReportsStay
<1>6. pathState[p] = "BUILD_SENT" =>
         /\ \A f \in Pending : ~Building(c, f)
         /\ \A q \in PathsOf(c) : pathState'[q] # "BUILD_SENT"
         /\ AllReported(c) /\ connID[c] = 0
  <2>1. \A q \in PathsOf(c) : pathState'[q] = "BUILD_SENT" => q # p /\ pathState[q] = "BUILD_SENT"
    BY <1>1, <1>2, Ownership
  <2> QED
    BY <1>1, <2>1 DEF PInv, OneToken
<1>7. ASSUME NEW d \in Conn PROVE OneToken(d)'
  <2>1. OneToken(d)
    BY DEF PInv
  <2>2. \A q \in PathsOf(d) : pathState'[q] = "BUILD_SENT" => pathState[q] = "BUILD_SENT"
    BY <1>1, <1>2, Ownership
  <2>3. CASE \A f \in Pending' : Building(d, f) => f \in Pending
    BY <1>5, <2>1, <2>2, <2>3 DEF OneToken
  <2>4. CASE ~(\A f \in Pending' : Building(d, f) => f \in Pending)
    <3>1. /\ Pending' = Pending \cup {x} /\ Building(d, x) /\ x.conn = c
          /\ pathState[p] = "BUILD_SENT"
      BY <1>4, <2>4 DEF Building
    <3>2. d = c
      BY <3>1 DEF Building
    <3> QED
      BY <1>5, <1>6, <3>1, <3>2 DEF OneToken
  <2> QED
    BY <2>3, <2>4
<1>8. ASSUME NEW d \in Conn PROVE BuildFirst(d)'
  <2>1. BuildFirst(d)
    BY DEF PInv
  <2>2. \A q \in PathsOf(d) : pathState'[q] = "JOIN_SENT" => pathState[q] = "JOIN_SENT"
    BY <1>1, <1>2, Ownership
  <2>3. ASSUME connID[d] = 0, NEW f \in Pending', f.conn = d
        PROVE  f.op \in {"BuildConnection", "AddInitConnectPath"}
    <3>1. CASE f \in Pending
      BY <2>1, <2>3, <3>1 DEF BuildFirst
    <3>2. CASE f \notin Pending
      <4>1. f = x /\ d = c
        BY <1>4, <2>3, <3>2
      <4>2. pathState[p] # "JOIN_SENT"
        BY <1>1, <2>1, <2>3, <4>1 DEF BuildFirst
      <4> QED
        BY <1>4, <3>2, <4>1, <4>2
    <3> QED
      BY <3>1, <3>2
  <2> QED
    BY <1>5, <2>1, <2>2, <2>3 DEF BuildFirst
<1>9. ASSUME NEW d \in Conn PROVE ReadyOnce(d)' /\ PathsOwn(d)'
  <2>1. ReadyOnce(d) /\ PathsOwn(d)
    BY DEF PInv
  <2>2. \A q \in Elems(rawReady[d]) : q \in Path
    BY PTypes, Ownership DEF Elems
  <2> QED
    BY <1>2, <2>1, <2>2 DEF ReadyOnce, PathsOwn
<1>10. ASSUME NEW q \in Path PROVE OnePlace(q)' /\ Left(q)'
  <2>1. OnePlace(q) /\ Left(q)
    BY DEF PInv
  <2>2. CASE q # p
    <3>1. \A f \in Pending' : f.path = q => f \in Pending
      BY <1>4, <2>2
    <3> QED
      BY <1>2, <1>5, <2>1, <2>2, <3>1 DEF OnePlace, Left
  <2>3. CASE q = p
    <3>1. pathState'[p] \in {"CONNECTED", "CLOSED", "ERROR"}
      BY <1>2
    <3>2. tcp'[p] \notin {"NONE", "SYN_SENT", "UNROUTED"}
      BY <1>5, <2>1, <2>3 DEF Left
    <3>3. OnePlace(p)'
      BY <1>3, <1>4, <2>1, <2>3 DEF OnePlace, c
    <3> QED
      BY <2>3, <3>1, <3>2, <3>3 DEF Left
  <2> QED
    BY <2>2, <2>3
<1> QED
  BY <1>4, <1>5, <1>7, <1>8, <1>9, <1>10 DEF PInv

\* Every step keeps tokens and places.
LEMMA NextPInv ==
    ASSUME TypeInv, IdInv, PInv, AInv, [Next]_vars
    PROVE  PInv'
<1>1. ASSUME NEW p \in Path, PathConnectSucceeded(p) PROVE PInv'
  BY <1>1, ReportPInv DEF PathConnectSucceeded
<1>2. ASSUME NEW p \in Path, PathConnectFailed(p) PROVE PInv'
  BY <1>2, ReportPInv DEF PathConnectFailed
<1>3. ASSUME NEW p \in Path, PathCreatedCallback(p) \/ ProcessListen(p) PROVE PInv'
  <2>1. UNCHANGED pVars
    BY <1>3 DEF PathCreatedCallback, ProcessListen, pVars, connVars, pathVars
  <2> QED
    BY <2>1, SamePInv
<1>4. ASSUME NEW p \in Path, ProcessBuildSent(p) PROVE PInv'
  <2> DEFINE x == Call("AddInitConnectPath", ConnOf[p], p, TRUE)
  <2>1. x \in ScheduledCall
    BY Ownership, CallIsScheduled DEF Ops
  <2>2. x.op = "AddInitConnectPath" /\ x.path = p /\ x.conn = ConnOf[p]
    BY DEF Call
  <2>3. /\ pathState[p] = "BUILD_SENT" /\ events' = Append(events, x)
        /\ pathState' = [pathState EXCEPT ![p] = "CONNECTED"]
        /\ UNCHANGED <<connID, pathNum, rawReady, rawFail, paths, errorPath, tcp>>
    BY <1>4 DEF ProcessBuildSent, connVars
  <2> HIDE DEF x
  <2> QED
    BY <2>1, <2>2, <2>3, LeavePInv
<1>5. ASSUME NEW p \in Path, ProcessJoinSent(p) PROVE PInv'
  <2> DEFINE j == Head(toClient[p]).connId = pathConnID[p]
             x == Call("PathJoinResult", ConnOf[p], p, j)
             st == IF j THEN "CONNECTED" ELSE "ERROR"
  <2>1. x \in ScheduledCall /\ st \in {"CONNECTED", "CLOSED", "ERROR"}
    BY Ownership, CallIsScheduled DEF Ops
  <2>2. x.op = "PathJoinResult" /\ x.path = p /\ x.conn = ConnOf[p]
    BY DEF Call
  <2>3. /\ pathState[p] = "JOIN_SENT" /\ events' = Append(events, x)
        /\ pathState' = [pathState EXCEPT ![p] = st]
        /\ UNCHANGED <<connID, pathNum, rawReady, rawFail, paths, errorPath, tcp>>
    BY <1>5 DEF ProcessJoinSent, connVars
  <2> HIDE DEF x, st
  <2> QED
    BY <2>1, <2>2, <2>3, LeavePInv
<1>6. ASSUME NEW p \in Path, NEW st \in {"CLOSED", "ERROR"}, Break(p, st) PROVE PInv'
  <2>1. /\ pathState[p] \in {"BUILD_SENT", "JOIN_SENT", "CONNECTED"}
        /\ tcp[p] = "ESTABLISHED" /\ tcp' = [tcp EXCEPT ![p] = "CLOSED"]
        /\ pathState' = [pathState EXCEPT ![p] = st]
        /\ UNCHANGED <<connID, pathNum, rawReady, rawFail, paths, errorPath, events>>
    BY <1>6 DEF Break, connVars
  <2>2. \A q \in Path : \/ tcp'[q] = tcp[q]
                        \/ tcp[q] = "ESTABLISHED" /\ tcp'[q] = "CLOSED"
    BY <2>1, PTypes
  <2>3. Call("BuildConnection", ConnOf[p], NoPath, TRUE) \in ScheduledCall
    BY Ownership, CallIsScheduled DEF Ops
  <2> QED
    BY <2>1, <2>2, <2>3, LeavePInv
<1>7. CASE UNCHANGED vars
  <2>1. UNCHANGED pVars
    BY <1>7 DEF vars, pVars, connVars, pathVars
  <2> QED
    BY <2>1, SamePInv
<1> QED
  BY <1>1, <1>2, <1>3, <1>4, <1>5, <1>6, <1>7, ResolvedPInv, BuildPInv,
     AddInitPInv, ConnectOtherPInv, JoinResultPInv
     DEF Next, Scheduled, PathCloseSucceeded, PathCloseFailed

-----------------------------------------------------------------------------
(* The two ends of a path.                                                 *)

\* The types that the proofs below use.
LEMMA ATypes ==
    ASSUME TypeInv
    PROVE  /\ srvState \in [Path -> {"NONE", "LISTEN", "CONNECTED"}]
           /\ srvConnID \in [Path -> ConnIDs \cup {0}]
           /\ srvConn \in [Path -> Path \cup {NoPath}]
           /\ srvPaths \in [Path -> Seq(Path)]
           /\ connectionIDs \in [ConnIDs -> Path \cup {NoPath}]
           /\ toServer \in [Path -> Seq(MultipathHeader)]
           /\ toClient \in [Path -> Seq(MultipathHeader)]
           /\ pathConnID \in [Path -> ConnIDs \cup {0}]
  BY DEF TypeInv, TypeOK

\* Nothing is connected initially.
LEMMA InitAInv == Init => AInv
<1> SUFFICES ASSUME Init PROVE AInv
  OBVIOUS
<1>1. Pending = {} /\ \A p \in Path : ConnOf[p] \in Conn
  BY ConnOfAssumption DEF Init, Pending, Elems
<1>2. FoundersConnected /\ \A p \in Path : ServerHolds(p)
  BY DEF Init, FoundersConnected, ServerHolds
<1>3. \A p \in Path : Agreed(p)
  BY <1>1 DEF Init, Agreed, Elems
<1> QED
  BY <1>2, <1>3 DEF AInv

\* What the server holds, it keeps.
Kept == \A p \in Path : srvState[p] = "CONNECTED" =>
            srvState'[p] = "CONNECTED" /\ srvConnID'[p] = srvConnID[p]

\* The server's side of a step: what it has connected, it keeps, and the paths
\* that it connects are entered in a connection.
LEMMA ServerStep ==
    ASSUME TypeInv, IdInv, AInv, [Next]_vars
    PROVE  Kept /\ FoundersConnected' /\ \A p \in Path : ServerHolds(p)'
<1>1. CASE UNCHANGED srvVars
  BY <1>1 DEF srvVars, Kept, FoundersConnected, ServerHolds, AInv
<1>2. ASSUME NEW p \in Path, PathCreatedCallback(p)
      PROVE  Kept /\ FoundersConnected' /\ \A q \in Path : ServerHolds(q)'
  <2>1. /\ srvState[p] = "NONE" /\ srvState' = [srvState EXCEPT ![p] = "LISTEN"]
        /\ UNCHANGED <<srvConnID, srvConn, srvPaths, connectionIDs>>
    BY <1>2 DEF PathCreatedCallback
  <2>2. \A q \in Path : srvState'[q] = "CONNECTED" <=> srvState[q] = "CONNECTED"
    BY <2>1, ATypes
  <2>3. \A q \in Path : srvConn[q] # NoPath => srvConn[q] \in Path
    BY ATypes
  <2>4. \A id \in ConnIDs : connectionIDs[id] # NoPath => connectionIDs[id] \in Path
    BY ATypes
  <2>5. FoundersConnected'
    BY <2>1, <2>2, <2>4 DEF AInv, FoundersConnected
  <2>6. \A q \in Path : ServerHolds(q)'
    BY <2>1, <2>2, <2>3 DEF AInv, ServerHolds
  <2> QED
    BY <2>1, <2>2, <2>5, <2>6 DEF Kept
<1>3. ASSUME NEW p \in Path, ProcessListen(p)
      PROVE  Kept /\ FoundersConnected' /\ \A q \in Path : ServerHolds(q)'
  <2> DEFINE h == Head(toServer[p])
             id == SP_KEYS_TO_CONNEID(h.key, srvKey[p])
  <2>1. srvState[p] = "LISTEN" /\ h \in MultipathHeader
    <3>1. toServer[p] \in Seq(MultipathHeader) /\ toServer[p] # <<>>
      BY <1>3, ATypes DEF ProcessListen
    <3> QED
      BY <1>3, <3>1 DEF ProcessListen
  <2>2. ASSUME NEW i \in ConnIDs, Accept(p, i)
        PROVE  /\ Kept
               /\ srvState'[p] = "CONNECTED"
               /\ \A q \in Path : q # p => srvState'[q] = srvState[q]
               /\ \A q \in Path : srvState[q] = "CONNECTED" => srvState'[q] = "CONNECTED"
    <3>1. /\ srvState' = [srvState EXCEPT ![p] = "CONNECTED"]
          /\ srvConnID' = [srvConnID EXCEPT ![p] = i]
      BY <2>2 DEF Accept
    <3>2. /\ srvState'[p] = "CONNECTED"
          /\ \A q \in Path : q # p => srvState'[q] = srvState[q] /\ srvConnID'[q] = srvConnID[q]
      BY <3>1, ATypes
    <3> QED
      BY <2>1, <3>2 DEF Kept
  <2>3. CASE h.connId = 0
    <3>1. Accept(p, id) /\ NewConnectionBuilt(p, id)
      BY <1>3, <2>3 DEF ProcessListen
    <3>2. id \in ConnIDs
      BY <1>3, <2>1 DEF ProcessListen, TypeInv, AcceptedPathsHaveKeys, MultipathHeader, ConnIDs
    <3> HIDE DEF id, h
    <3>3. /\ srvConn' = [srvConn EXCEPT ![p] = p]
          /\ srvPaths' = [srvPaths EXCEPT ![p] = <<p>>]
          /\ connectionIDs' = [connectionIDs EXCEPT ![id] = p]
      BY <3>1 DEF NewConnectionBuilt
    <3>4. /\ srvConn'[p] = p /\ srvPaths'[p] = <<p>> /\ connectionIDs'[id] = p
          /\ \A q \in Path : q # p => srvConn'[q] = srvConn[q] /\ srvPaths'[q] = srvPaths[q]
          /\ \A i \in ConnIDs : i # id => connectionIDs'[i] = connectionIDs[i]
      BY <3>2, <3>3, ATypes
    <3>5. ASSUME NEW q \in Path PROVE ServerHolds(q)'
      <4>1. CASE q = p
        <5>1. p \in Elems(<<p>>)
          BY DEF Elems
        <5> QED
          BY <2>2, <3>1, <3>2, <3>4, <4>1, <5>1, NoPathAssumption DEF ServerHolds
      <4>2. CASE q # p /\ srvState[q] = "CONNECTED"
        <5>1. ServerHolds(q) /\ srvConn[q] \in Path
          BY <4>2, ATypes DEF AInv, ServerHolds
        <5>2. srvConn[q] # p
          BY <2>1, <4>2, <5>1 DEF ServerHolds
        <5> QED
          BY <2>2, <3>1, <3>2, <3>4, <4>2, <5>1, <5>2 DEF ServerHolds
      <4>3. CASE q # p /\ srvState[q] # "CONNECTED"
        BY <2>2, <3>1, <3>2, <4>3 DEF ServerHolds
      <4> QED
        BY <4>1, <4>2, <4>3
    <3>6. FoundersConnected'
      <4>1. \A i \in ConnIDs : connectionIDs[i] # NoPath => connectionIDs[i] \in Path
        BY ATypes
      <4> QED
        BY <2>2, <3>1, <3>2, <3>4, <4>1 DEF AInv, FoundersConnected
    <3> QED
      BY <2>2, <3>1, <3>2, <3>5, <3>6
  <2>4. CASE h.connId # 0 /\ ValidConnectionID(h.connId)
    <3> DEFINE f == connectionIDs[h.connId]
    <3>1. Accept(p, h.connId) /\ NewPathJoinConnection(p, h.connId)
      BY <1>3, <2>4 DEF ProcessListen
    <3>2. h.connId \in ConnIDs
      BY <2>1, <2>4 DEF MultipathHeader
    <3>3. f \in Path /\ srvState[f] = "CONNECTED"
      BY <2>4, <3>2, ATypes DEF ValidConnectionID, AInv, FoundersConnected
    <3>4. /\ srvConn' = [srvConn EXCEPT ![p] = f]
          /\ srvPaths' = [srvPaths EXCEPT ![f] = Append(@, p)]
          /\ connectionIDs' = connectionIDs
      BY <3>1 DEF NewPathJoinConnection
    <3>5. ASSUME NEW i \in ConnIDs, Accept(p, i)
          PROVE  Kept /\ FoundersConnected' /\ \A q \in Path : ServerHolds(q)'
      <4> HIDE DEF f, h
      <4>1. /\ srvConn'[p] = f /\ srvPaths'[f] = Append(srvPaths[f], p)
            /\ \A q \in Path : q # p => srvConn'[q] = srvConn[q]
            /\ \A q \in Path : q # f => srvPaths'[q] = srvPaths[q]
        BY <3>3, <3>4, ATypes
      <4>2. Elems(srvPaths'[f]) = Elems(srvPaths[f]) \cup {p}
        <5>1. srvPaths[f] \in Seq(Path)
          BY <3>3, ATypes
        <5> QED
          BY <4>1, <5>1, AppendElems
      <4>3. \A q \in Path : Elems(srvPaths[q]) \subseteq Elems(srvPaths'[q])
        BY <4>1, <4>2
      <4>4. ASSUME NEW q \in Path PROVE ServerHolds(q)'
        <5>1. CASE q = p
          BY <2>2, <3>3, <3>5, <4>1, <4>2, <5>1, NoPathAssumption DEF ServerHolds
        <5>2. CASE q # p /\ srvState[q] = "CONNECTED"
          <6>1. ServerHolds(q) /\ srvConn[q] \in Path
            BY <5>2, ATypes DEF AInv, ServerHolds
          <6> QED
            BY <2>2, <3>5, <4>1, <4>3, <5>2, <6>1 DEF ServerHolds
        <5>3. CASE q # p /\ srvState[q] # "CONNECTED"
          BY <2>2, <3>5, <5>3 DEF ServerHolds
        <5> QED
          BY <5>1, <5>2, <5>3
      <4>5. FoundersConnected'
        <5>1. \A j \in ConnIDs : connectionIDs[j] # NoPath => connectionIDs[j] \in Path
          BY ATypes
        <5> QED
          BY <2>2, <3>4, <3>5, <5>1 DEF AInv, FoundersConnected
      <4> QED
        BY <2>2, <3>5, <4>4, <4>5
    <3> QED
      BY <3>1, <3>2, <3>5
  <2>5. CASE h.connId # 0 /\ ~ValidConnectionID(h.connId)
    <3>1. UNCHANGED srvVars
      BY <1>3, <2>5 DEF ProcessListen, srvVars
    <3> QED
      BY <1>1, <3>1
  <2> QED
    BY <2>3, <2>4, <2>5
<1>4. CASE UNCHANGED vars
  BY <1>1, <1>4 DEF vars
<1>5. ASSUME NEW p \in Path, \/ PathConnectSucceeded(p) \/ PathConnectFailed(p)
                             \/ ProcessBuildSent(p) \/ ProcessJoinSent(p)
                             \/ PathCloseSucceeded(p) \/ PathCloseFailed(p)
      PROVE  UNCHANGED srvVars
  BY <1>5 DEF PathConnectSucceeded, PathConnectFailed, ProcessBuildSent, ProcessJoinSent,
     PathCloseSucceeded, PathCloseFailed, Break
<1>6. ASSUME Scheduled \/ \E c \in Conn : OnCybertwinInterfaceResolved(c)
      PROVE  UNCHANGED srvVars
  BY <1>6 DEF Scheduled, BuildConnection, AddInitConnectPath, ConnectOtherPath,
     PathJoinResult, OnCybertwinInterfaceResolved
<1> QED
  BY <1>1, <1>2, <1>3, <1>4, <1>5, <1>6 DEF Next

\* A step that brings path q nothing new on the client's side.
Calm(q) ==
    /\ \A i \in DOMAIN toClient'[q] : \E j \in DOMAIN toClient[q] :
          toClient'[q][i] = toClient[q][j]
    /\ pathState'[q] = "JOIN_SENT" => pathState[q] = "JOIN_SENT"
    /\ pathConnID'[q] = pathConnID[q]
    /\ connID'[ConnOf[q]] = connID[ConnOf[q]]
    /\ Elems(paths'[ConnOf[q]]) \subseteq Elems(paths[ConnOf[q]])
    /\ \A e \in Pending' : e.path = q => e \in Pending

\* After the step the server has path q under this id.
StillUnder(q, id) == srvState'[q] = "CONNECTED" /\ srvConnID'[q] = id

\* Such a step keeps the agreement.
LEMMA CalmAgreed ==
    ASSUME AInv, Kept, NEW q \in Path, Calm(q)
    PROVE  Agreed(q)'
<1>1. Agreed(q)
  BY DEF AInv
<1>2. \A id : Under(q, id) => StillUnder(q, id)
  BY DEF Kept, Under, StillUnder
<1> HIDE DEF Pending
<1>3. \A i \in DOMAIN toClient'[q] :
         toClient'[q][i].connId # 0 /\ StillUnder(q, toClient'[q][i].connId)
  BY <1>1, <1>2 DEF Agreed, Calm
<1> QED
  BY <1>1, <1>2, <1>3 DEF Agreed, Calm, Under, StillUnder

\* Taking the first answer leaves answers that were there before.
LEMMA TailSubset ==
    ASSUME NEW s \in Seq(MultipathHeader), s # <<>>
    PROVE  \A i \in DOMAIN Tail(s) : \E j \in DOMAIN s : Tail(s)[i] = s[j]
<1> SUFFICES ASSUME NEW i \in DOMAIN Tail(s)
             PROVE  \E j \in DOMAIN s : Tail(s)[i] = s[j]
  OBVIOUS
<1>1. i + 1 \in DOMAIN s /\ Tail(s)[i] = s[i + 1]
  OBVIOUS
<1> QED
  BY <1>1

\* A sequence without positions is empty.
LEMMA EmptyQueue ==
    ASSUME NEW S, NEW s \in Seq(S), ~(\E k \in DOMAIN s : TRUE)
    PROVE  s = <<>>
<1>1. Len(s) \in Nat /\ DOMAIN s = 1..Len(s)
  OBVIOUS
<1>2. 1 \notin 1..Len(s)
  BY <1>1
<1>3. Len(s) = 0
  BY <1>1, <1>2
<1> QED
  BY <1>3

\* Every step keeps the agreement of the two ends.
LEMMA AgreedStep ==
    ASSUME TypeInv, IdInv, PInv, AInv, Kept, [Next]_vars, NEW q \in Path
    PROVE  Agreed(q)'
<1>1. /\ toClient \in [Path -> Seq(MultipathHeader)]
      /\ pathState \in [Path -> PathStatus] /\ events \in Seq(ScheduledCall)
      /\ paths \in [Conn -> Seq(Path)] /\ connID \in [Conn -> ConnIDs \cup {0}]
      /\ pathConnID \in [Path -> ConnIDs \cup {0}]
      /\ ConnOf[q] \in Conn /\ CallsDiffer
  BY PTypes, ATypes, Ownership DEF PInv
<1>2. Agreed(q) /\ OnePlace(q) /\ Left(q)
  BY DEF AInv, PInv
<1>3. \A id : Under(q, id) => StillUnder(q, id)
  BY DEF Kept, Under, StillUnder
<1>4. CASE \/ UNCHANGED vars
           \/ \E c \in Conn : OnCybertwinInterfaceResolved(c)
           \/ \E p \in Path : PathCreatedCallback(p)
  <2>1. UNCHANGED <<toClient, pathState, pathConnID, connID, paths, events>>
    BY <1>4 DEF vars, OnCybertwinInterfaceResolved, PathCreatedCallback, connVars,
       pathVars, srvVars, netVars
  <2>2. Calm(q)
    BY <2>1 DEF Calm, Pending
  <2> QED
    BY <2>2, CalmAgreed
<1>5. ASSUME NEW p \in Path, PathConnectSucceeded(p) \/ PathConnectFailed(p)
      PROVE  Agreed(q)'
  <2> DEFINE b == Call("BuildConnection", ConnOf[p], NoPath, TRUE)
  <2>1. /\ UNCHANGED <<toClient, pathConnID, connID, paths>>
        /\ \E st \in {"READY", "ERROR"} : pathState' = [pathState EXCEPT ![p] = st]
        /\ events' = events \/ events' = Append(events, b)
    BY <1>5 DEF PathConnectSucceeded, PathConnectFailed, AddRawPath, netVars
  <2>2. b \in ScheduledCall /\ b.path = NoPath
    BY Ownership, CallIsScheduled DEF Ops, Call
  <2> HIDE DEF b
  <2>3. Pending' \subseteq Pending \cup {b}
    <3>1. CASE events' = events
      BY <3>1 DEF Pending
    <3>2. CASE events' = Append(events, b)
      BY <1>1, <2>2, <3>2, CallJoins
    <3> QED
      BY <2>1, <3>1, <3>2
  <2>4. pathState'[q] = "JOIN_SENT" => pathState[q] = "JOIN_SENT"
    BY <1>1, <2>1
  <2>5. Calm(q)
    BY <2>1, <2>2, <2>3, <2>4, NoPathAssumption DEF Calm
  <2> QED
    BY <2>5, CalmAgreed
<1>6. CASE BuildConnection
  <2>1. /\ events # <<>> /\ events' = Tail(events)
        /\ UNCHANGED <<toClient, pathConnID, connID, paths>>
        /\ \/ pathState' = pathState
           \/ \E p : pathState' = [pathState EXCEPT ![p] = "BUILD_SENT"]
    BY <1>6 DEF BuildConnection, InitConnection, Fires
  <2>2. Pending' \subseteq Pending
    BY <1>1, <2>1, CallTaken
  <2>3. pathState'[q] = "JOIN_SENT" => pathState[q] = "JOIN_SENT"
    BY <1>1, <2>1
  <2>4. Calm(q)
    BY <2>1, <2>2, <2>3 DEF Calm
  <2> QED
    BY <2>4, CalmAgreed
<1>7. CASE AddInitConnectPath
  <2> DEFINE e == Head(events)
             c == e.conn
             p == e.path
             x == Call("ConnectOtherPath", c, NoPath, TRUE)
  <2>1. /\ events # <<>> /\ e.op = "AddInitConnectPath" /\ e \in Pending
        /\ c \in Conn /\ p \in Path /\ c = ConnOf[p]
    BY <1>7, FirstPending DEF AddInitConnectPath, Fires
  <2>2. /\ connID' = [connID EXCEPT ![c] = pathConnID[p]]
        /\ paths' = [paths EXCEPT ![c] = Append(@, p)]
        /\ events' = Append(Tail(events), x)
        /\ UNCHANGED <<toClient, pathConnID, pathState>>
    BY <1>7 DEF AddInitConnectPath, pathVars, netVars
  <2>3. /\ connID[c] = 0 /\ paths[c] = <<>>
        /\ \A f \in Pending : f.conn = c => f.op \in {"BuildConnection", "AddInitConnectPath"}
        /\ \A r \in PathsOf(c) : pathState[r] # "JOIN_SENT"
    <3>1. connID[c] = 0
      BY <2>1 DEF PInv, OneToken, Building
    <3> QED
      BY <2>1, <3>1 DEF PInv, BuildFirst
  <2>4. Pending' = (Pending \ {e}) \cup {x} /\ x.path = NoPath
    <3>1. x.conn = c /\ x.op = "ConnectOtherPath" /\ x.path = NoPath
      BY DEF Call
    <3>2. x \in ScheduledCall
      BY <2>1, CallIsScheduled DEF Ops
    <3>3. x \notin Pending
      BY <2>3, <3>1
    <3> QED
      BY <1>1, <2>1, <2>2, <3>1, <3>2, <3>3, CallReplaced
  <2>5. pathConnID[p] # 0 /\ Under(p, pathConnID[p])
    BY <2>1 DEF AInv, Agreed
  <2>6. \A f \in Pending' : f.path = q => f \in Pending
    BY <2>4, NoPathAssumption
  <2>7. CASE ConnOf[q] = c
    <3>1. pathState'[q] # "JOIN_SENT"
      BY <2>2, <2>3, <2>7, Ownership
    <3>2. \A f \in Pending' : f.path = q => f.op # "PathJoinResult"
      <4>1. \A f \in Pending : f \in ScheduledCall
        BY <1>1 DEF Pending, Elems
      <4> QED
        BY <2>3, <2>6, <2>7, <4>1 DEF ScheduledCall
    <3>3. connID'[c] = pathConnID[p] /\ paths'[c] = <<p>>
      BY <1>1, <2>1, <2>2, <2>3
    <3>4. Elems(<<p>>) = {p}
      BY DEF Elems
    <3>5. q \in Elems(paths'[c]) => StillUnder(q, connID'[c])
      BY <1>3, <2>5, <3>3, <3>4
    <3> HIDE DEF c, p, e, x, Pending
    <3>6. \A i \in DOMAIN toClient'[q] :
             toClient'[q][i].connId # 0 /\ StillUnder(q, toClient'[q][i].connId)
      BY <1>2, <1>3, <2>2 DEF Agreed
    <3>7. \A f \in Pending' : f.path = q /\ f.op = "AddInitConnectPath" =>
             pathConnID'[q] # 0 /\ StillUnder(q, pathConnID'[q])
      BY <1>2, <1>3, <2>2, <2>6 DEF Agreed
    <3> QED
      BY <2>7, <3>1, <3>2, <3>5, <3>6, <3>7 DEF Agreed, Under, StillUnder
  <2>8. CASE ConnOf[q] # c
    <3>1. paths'[ConnOf[q]] = paths[ConnOf[q]] /\ connID'[ConnOf[q]] = connID[ConnOf[q]]
      BY <1>1, <2>2, <2>8
    <3>2. Calm(q)
      BY <2>2, <2>6, <3>1 DEF Calm
    <3> QED
      BY <3>2, CalmAgreed
  <2> QED
    BY <2>7, <2>8

<1>8. CASE ConnectOtherPath
  <2> DEFINE e == Head(events)
             c == e.conn
             joining == Elems(rawReady[c])
  <2>1. /\ events # <<>> /\ c \in Conn
    BY <1>8, FirstPending DEF ConnectOtherPath, Fires
  <2>2. /\ events' = Tail(events)
        /\ pathConnID' = [p \in Path |-> IF p \in joining THEN connID[c] ELSE pathConnID[p]]
        /\ pathState' = [p \in Path |-> IF p \in joining THEN "JOIN_SENT" ELSE pathState[p]]
        /\ UNCHANGED <<toClient, connID, paths>>
    BY <1>8 DEF ConnectOtherPath
  <2>3. Pending' \subseteq Pending
    BY <1>1, <2>1, <2>2, CallTaken
  <2>4. q \in joining => ConnOf[q] = c /\ pathState[q] = "READY"
    <3>1. rawReady[c] \in Seq(PathsOf(c))
      BY <2>1, PTypes
    <3>2. q \in joining => q \in PathsOf(c)
      BY <3>1 DEF Elems
    <3> QED
      BY <2>1, <3>2, Ownership DEF PInv, ReadyOnce
  <2> HIDE DEF e, c, joining, Pending
  <2>5. CASE q \in joining
    <3>1. pathConnID'[q] = connID'[ConnOf[q]]
      BY <2>2, <2>4, <2>5
    <3>2. \A f \in Pending' : f.path # q
      BY <1>2, <2>3, <2>4, <2>5 DEF Left
    <3>3. \A i \in DOMAIN toClient'[q] :
             toClient'[q][i].connId # 0 /\ StillUnder(q, toClient'[q][i].connId)
      BY <1>2, <1>3, <2>2 DEF Agreed
    <3>4. q \in Elems(paths'[ConnOf[q]]) => StillUnder(q, connID'[ConnOf[q]])
      BY <1>2, <1>3, <2>2 DEF Agreed
    <3> QED
      BY <3>1, <3>2, <3>3, <3>4 DEF Agreed, Under, StillUnder
  <2>6. CASE q \notin joining
    <3>1. pathConnID'[q] = pathConnID[q] /\ pathState'[q] = pathState[q]
      BY <2>2, <2>6
    <3>2. Calm(q)
      BY <2>2, <2>3, <3>1 DEF Calm
    <3> QED
      BY <3>2, CalmAgreed
  <2> QED
    BY <2>5, <2>6
<1>9. CASE PathJoinResult
  <2> DEFINE e == Head(events)
             p == e.path
             c == ConnOf[p]
  <2>1. /\ events # <<>> /\ e.op = "PathJoinResult" /\ e \in Pending
        /\ p \in Path /\ e.conn = c /\ c \in Conn
    BY <1>9, FirstPending, Ownership DEF PathJoinResult, Fires
  <2>2. /\ events' = Tail(events)
        /\ \/ e.ok /\ paths' = [paths EXCEPT ![c] = Append(@, p)]
           \/ UNCHANGED paths
        /\ UNCHANGED <<toClient, connID, pathConnID, pathState>>
    BY <1>9, <2>1 DEF PathJoinResult, pathVars, netVars
  <2>3. Pending' \subseteq Pending
    BY <1>1, <2>1, <2>2, CallTaken
  <2>4. e.ok => Under(p, connID[c])
    BY <2>1 DEF AInv, Agreed
  <2> HIDE DEF e, p, c, Pending
  <2>5. \/ Elems(paths'[ConnOf[q]]) \subseteq Elems(paths[ConnOf[q]])
        \/ /\ e.ok /\ ConnOf[q] = c
           /\ Elems(paths'[c]) = Elems(paths[c]) \cup {p}
    <3>1. CASE e.ok /\ paths' = [paths EXCEPT ![c] = Append(@, p)]
      <4>1. paths'[c] = Append(paths[c], p) /\ paths[c] \in Seq(Path)
            /\ (ConnOf[q] # c => paths'[ConnOf[q]] = paths[ConnOf[q]])
        BY <1>1, <2>1, <3>1
      <4>2. Elems(paths'[c]) = Elems(paths[c]) \cup {p}
        BY <2>1, <4>1, AppendElems
      <4> QED
        BY <3>1, <4>1, <4>2
    <3>2. CASE UNCHANGED paths
      BY <3>2
    <3> QED
      BY <2>2, <3>1, <3>2
  <2>6. q \in Elems(paths'[ConnOf[q]]) => StillUnder(q, connID'[ConnOf[q]])
    <3>1. CASE q \in Elems(paths[ConnOf[q]])
      BY <1>2, <1>3, <2>2, <3>1 DEF Agreed
    <3>2. CASE q \notin Elems(paths[ConnOf[q]]) /\ q \in Elems(paths'[ConnOf[q]])
      <4>1. e.ok /\ ConnOf[q] = c /\ q = p
        BY <2>5, <3>2
      <4> QED
        BY <1>3, <2>2, <2>4, <4>1
    <3> QED
      BY <3>1, <3>2
  <2> QED
    BY <1>2, <1>3, <2>2, <2>3, <2>6 DEF Agreed, Under, StillUnder
<1>10. ASSUME NEW p \in Path, ProcessListen(p) PROVE Agreed(q)'
  <2>1. /\ srvState[p] = "LISTEN"
        /\ UNCHANGED <<pathState, pathConnID, connID, paths, events>>
    BY <1>10 DEF ProcessListen, connVars, pathVars
  <2>2. \/ toClient' = toClient
        \/ \E id \in ConnIDs : /\ toClient' = [toClient EXCEPT ![p] = Append(@, Header(id, srvKey[p]))]
                               /\ srvState' = [srvState EXCEPT ![p] = "CONNECTED"]
                               /\ srvConnID' = [srvConnID EXCEPT ![p] = id]
    <3> DEFINE h == Head(toServer[p])
               id == SP_KEYS_TO_CONNEID(h.key, srvKey[p])
    <3>1. h \in MultipathHeader
      <4>1. toServer[p] \in Seq(MultipathHeader) /\ toServer[p] # <<>>
        BY <1>10, ATypes DEF ProcessListen
      <4> QED
        BY <4>1
    <3>2. h.connId = 0 => id \in ConnIDs /\ Accept(p, id)
      BY <1>10, <2>1, <3>1 DEF ProcessListen, TypeInv, AcceptedPathsHaveKeys, MultipathHeader, ConnIDs
    <3>3. h.connId # 0 => /\ h.connId \in ConnIDs
                          /\ Accept(p, h.connId) \/ toClient' = toClient
      BY <1>10, <3>1 DEF ProcessListen, MultipathHeader
    <3> QED
      BY <3>2, <3>3 DEF Accept
  <2>3. CASE toClient' = toClient \/ q # p
    <3>1. toClient'[q] = toClient[q]
      BY <1>1, <2>2, <2>3
    <3>2. Calm(q)
      BY <2>1, <3>1 DEF Calm, Pending
    <3> QED
      BY <3>2, CalmAgreed
  <2>4. CASE toClient' # toClient /\ q = p
    <3>1. PICK id \in ConnIDs : /\ toClient' = [toClient EXCEPT ![p] = Append(@, Header(id, srvKey[p]))]
                                /\ srvState' = [srvState EXCEPT ![p] = "CONNECTED"]
                                /\ srvConnID' = [srvConnID EXCEPT ![p] = id]
      BY <2>2, <2>4
    <3>2. StillUnder(q, id) /\ id # 0
      BY <2>4, <3>1, ATypes, ConnIDsArePositive DEF StillUnder
    <3>3. \A i : ~Under(q, i)
      BY <2>1, <2>4 DEF Under
    <3>4. ASSUME NEW i \in DOMAIN toClient'[q]
          PROVE  toClient'[q][i].connId = id
      <4>1. toClient[q] \in Seq(MultipathHeader) /\ ~(\E j \in DOMAIN toClient[q] : TRUE)
        BY <1>1, <1>2, <3>3 DEF Agreed
      <4>2. toClient[q] = <<>>
        BY <4>1, EmptyQueue
      <4>3. toClient'[q] = <<Header(id, srvKey[p])>>
        BY <1>1, <2>4, <3>1, <4>2
      <4> QED
        BY <3>4, <4>3 DEF Header
    <3>5. Pending' = Pending
      BY <2>1 DEF Pending
    <3> HIDE DEF Pending
    <3> QED
      BY <1>2, <2>1, <3>2, <3>3, <3>4, <3>5 DEF Agreed, Under, StillUnder
  <2> QED
    BY <2>3, <2>4
<1>11. ASSUME NEW p \in Path, p # q, NEW x \in ScheduledCall, x.path = p,
              toClient' = [toClient EXCEPT ![p] = Tail(@)],
              pathConnID' = pathConnID \/ \E i : pathConnID' = [pathConnID EXCEPT ![p] = i],
              \E st : pathState' = [pathState EXCEPT ![p] = st],
              events' = Append(events, x), UNCHANGED <<connID, paths>>
       PROVE  Agreed(q)'
  <2>1. Pending' = Pending \cup {x}
    BY <1>1, <1>11, CallJoins
  <2>2. toClient'[q] = toClient[q] /\ pathConnID'[q] = pathConnID[q] /\ pathState'[q] = pathState[q]
    BY <1>1, <1>11
  <2>3. Calm(q)
    BY <1>11, <2>1, <2>2 DEF Calm
  <2> QED
    BY <2>3, CalmAgreed
<1>12. ASSUME NEW p \in Path, ProcessBuildSent(p) PROVE Agreed(q)'
  <2> DEFINE x == Call("AddInitConnectPath", ConnOf[p], p, TRUE)
             id == Head(toClient[p]).connId
  <2>1. x \in ScheduledCall /\ x.path = p /\ x.op = "AddInitConnectPath"
    BY Ownership, CallIsScheduled DEF Ops, Call
  <2>2. /\ toClient[p] # <<>> /\ toClient' = [toClient EXCEPT ![p] = Tail(@)]
        /\ pathConnID' = [pathConnID EXCEPT ![p] = id]
        /\ pathState[p] = "BUILD_SENT"
        /\ pathState' = [pathState EXCEPT ![p] = "CONNECTED"]
        /\ events' = Append(events, x)
        /\ UNCHANGED <<connID, paths>>
    BY <1>12 DEF ProcessBuildSent, connVars
  <2> HIDE DEF x
  <2>3. CASE p # q
    BY <1>11, <2>1, <2>2, <2>3
  <2>4. CASE p = q
    <3>1. id # 0 /\ Under(q, id)
      <4>1. toClient[q] \in Seq(MultipathHeader) /\ toClient[q] # <<>>
        BY <1>1, <2>2, <2>4
      <4>2. 1 \in DOMAIN toClient[q] /\ Head(toClient[q]) = toClient[q][1]
        BY <4>1
      <4> QED
        BY <1>2, <2>4, <4>2 DEF Agreed
    <3> HIDE DEF id
    <3>2. pathConnID'[q] = id /\ pathState'[q] = "CONNECTED" /\ toClient'[q] = Tail(toClient[q])
      BY <1>1, <2>2, <2>4
    <3>3. Pending' = Pending \cup {x} /\ \A f \in Pending : f.path # q
      BY <1>1, <1>2, <2>1, <2>2, <2>4, CallJoins DEF Left
    <3>4. \A i \in DOMAIN toClient'[q] :
             toClient'[q][i].connId # 0 /\ StillUnder(q, toClient'[q][i].connId)
      <4>1. \A i \in DOMAIN toClient'[q] : \E j \in DOMAIN toClient[q] : toClient'[q][i] = toClient[q][j]
        BY <1>1, <2>2, <2>4, <3>2, TailSubset
      <4> QED
        BY <1>2, <1>3, <4>1 DEF Agreed
    <3>5. \A f \in Pending' : f.path = q => f.op = "AddInitConnectPath"
      BY <2>1, <3>3
    <3> HIDE DEF Pending
    <3> QED
      BY <1>2, <1>3, <2>2, <3>1, <3>2, <3>4, <3>5 DEF Agreed, Under, StillUnder
  <2> QED
    BY <2>3, <2>4
<1>13. ASSUME NEW p \in Path, ProcessJoinSent(p) PROVE Agreed(q)'
  <2> DEFINE j == Head(toClient[p]).connId = pathConnID[p]
             x == Call("PathJoinResult", ConnOf[p], p, j)
             st == IF j THEN "CONNECTED" ELSE "ERROR"
  <2>1. x \in ScheduledCall /\ x.path = p /\ x.op = "PathJoinResult" /\ x.ok = j
    BY Ownership, CallIsScheduled DEF Ops, Call
  <2>2. /\ toClient[p] # <<>> /\ toClient' = [toClient EXCEPT ![p] = Tail(@)]
        /\ pathState[p] = "JOIN_SENT"
        /\ pathState' = [pathState EXCEPT ![p] = st]
        /\ st # "JOIN_SENT"
        /\ events' = Append(events, x)
        /\ UNCHANGED <<connID, paths, pathConnID>>
    BY <1>13 DEF ProcessJoinSent, connVars
  <2> HIDE DEF x, st
  <2>3. CASE p # q
    BY <1>11, <2>1, <2>2, <2>3
  <2>4. CASE p = q
    <3>1. x.ok => Under(q, connID[ConnOf[q]])
      <4>1. toClient[q] \in Seq(MultipathHeader) /\ toClient[q] # <<>>
        BY <1>1, <2>2, <2>4
      <4>2. 1 \in DOMAIN toClient[q] /\ Head(toClient[q]) = toClient[q][1]
        BY <4>1
      <4>3. Under(q, Head(toClient[q]).connId)
        BY <1>2, <4>2 DEF Agreed
      <4>4. pathConnID[q] = connID[ConnOf[q]]
        BY <1>2, <2>2, <2>4 DEF Agreed
      <4> QED
        BY <2>1, <2>4, <4>3, <4>4
    <3>2. pathState'[q] # "JOIN_SENT" /\ toClient'[q] = Tail(toClient[q])
      BY <1>1, <2>2, <2>4
    <3>3. Pending' = Pending \cup {x} /\ \A f \in Pending : f.path # q
      BY <1>1, <1>2, <2>1, <2>2, <2>4, CallJoins DEF Left
    <3>4. \A i \in DOMAIN toClient'[q] :
             toClient'[q][i].connId # 0 /\ StillUnder(q, toClient'[q][i].connId)
      <4>1. \A i \in DOMAIN toClient'[q] : \E k \in DOMAIN toClient[q] : toClient'[q][i] = toClient[q][k]
        BY <1>1, <2>2, <2>4, <3>2, TailSubset
      <4> QED
        BY <1>2, <1>3, <4>1 DEF Agreed
    <3> HIDE DEF Pending
    <3>5. \A f \in Pending' : f.path = q =>
             f.op = "PathJoinResult" /\ (f.ok => StillUnder(q, connID'[ConnOf[q]]))
      BY <1>3, <2>1, <2>2, <3>1, <3>3
    <3> QED
      BY <1>2, <1>3, <2>2, <3>2, <3>4, <3>5 DEF Agreed, Under, StillUnder
  <2> QED
    BY <2>3, <2>4
<1>14. ASSUME NEW p \in Path, PathCloseSucceeded(p) \/ PathCloseFailed(p) PROVE Agreed(q)'
  <2>1. /\ toClient' = [toClient EXCEPT ![p] = <<>>]
        /\ \E st \in {"CLOSED", "ERROR"} : pathState' = [pathState EXCEPT ![p] = st]
        /\ UNCHANGED <<connID, paths, pathConnID, events>>
    BY <1>14 DEF PathCloseSucceeded, PathCloseFailed, Break, connVars
  <2>2. toClient'[q] = <<>> \/ toClient'[q] = toClient[q]
    BY <1>1, <2>1
  <2>3. pathState'[q] = "JOIN_SENT" => pathState[q] = "JOIN_SENT"
    BY <1>1, <2>1
  <2>4. Calm(q)
    BY <2>1, <2>2, <2>3 DEF Calm, Pending
  <2> QED
    BY <2>4, CalmAgreed
<1> QED
  BY <1>4, <1>5, <1>6, <1>7, <1>8, <1>9, <1>10, <1>12, <1>13, <1>14 DEF Next, Scheduled

-----------------------------------------------------------------------------
(* The theorems.                                                           *)

\* PInv and AInv are inductive together with the invariants of
\* MdtpHandshakeProofs: the token and place argument in one statement.
THEOREM HInductive == Spec => [](TypeInv /\ IdInv /\ PInv /\ AInv)
<1>1. Init => TypeInv /\ IdInv /\ PInv /\ AInv
  BY InitTypeInv, InitIdInv, InitPInv, InitAInv
<1>2. ASSUME TypeInv, IdInv, PInv, AInv, [Next]_vars
      PROVE  TypeInv' /\ IdInv' /\ PInv' /\ AInv'
  <2>1. TypeInv'
    BY <1>2, NextTypeInv
  <2>2. IdInv'
    BY <1>2, <2>1, NextIdInv
  <2>3. PInv'
    BY <1>2, NextPInv
  <2>4. Kept /\ FoundersConnected' /\ \A p \in Path : ServerHolds(p)'
    BY <1>2, ServerStep
  <2>5. \A p \in Path : Agreed(p)'
    BY <1>2, <2>4, AgreedStep
  <2> QED
    BY <2>1, <2>2, <2>3, <2>4, <2>5 DEF AInv
<1> QED
  BY <1>1, <1>2, PTL DEF Spec

\* A path the client has added to m_paths (AddInitConnectPath,
\* PathJoinResult) is one the server has aggregated, under the id the client
\* knows, in the list of a connection object.
THEOREM PathsAgree == Spec => []JoinedPathsAgree
<1>1. ASSUME TypeInv, IdInv, PInv, AInv
      PROVE  JoinedPathsAgree
  <2>1. SUFFICES ASSUME NEW c \in Conn, NEW p \in Elems(paths[c])
                 PROVE  /\ ConnOf[p] = c
                        /\ srvState[p] = "CONNECTED"
                        /\ srvConnID[p] = connID[c]
                        /\ srvConn[p] # NoPath
                        /\ p \in Elems(srvPaths[srvConn[p]])
    BY DEF JoinedPathsAgree
  <2>2. p \in PathsOf(c)
    BY <1>1, <2>1 DEF PInv, PathsOwn, Elems
  <2>3. p \in Path /\ ConnOf[p] = c
    BY <2>2 DEF PathsOf
  <2>4. Under(p, connID[c])
    BY <1>1, <2>1, <2>3 DEF AInv, Agreed
  <2>5. ServerHolds(p)
    BY <1>1, <2>3 DEF AInv
  <2> QED
    BY <2>3, <2>4, <2>5 DEF Under, ServerHolds
<1> QED
  BY <1>1, HInductive, PTL

\* m_paths holds no path twice, none that still waits in m_rawReadyPaths and
\* none that is in m_errorPath.
THEOREM PathsHeldOnce == Spec => []PathHeldOnce
<1>1. ASSUME TypeInv, IdInv, PInv, AInv
      PROVE  PathHeldOnce
  <2>1. SUFFICES ASSUME NEW c \in Conn
                 PROVE  /\ Cardinality(Elems(paths[c])) = Len(paths[c])
                        /\ Elems(paths[c]) \cap Elems(rawReady[c]) = {}
                        /\ errorPath[c] \cap Elems(paths[c]) = {}
    BY DEF PathHeldOnce
  <2>2. PathsOwn(c) /\ ReadyOnce(c) /\ \A p \in Path : OnePlace(p) /\ Left(p)
    BY <1>1 DEF PInv
  <2>3. \A p \in Elems(paths[c]) : p \in Path /\ ConnOf[p] = c
    BY <2>2 DEF PathsOwn, PathsOf, Elems
  <2>4. Injective(paths[c])
    BY <2>2, <2>3 DEF OnePlace, Injective, Elems
  <2>5. Cardinality(Elems(paths[c])) = Len(paths[c])
    BY <2>2, <2>4, InjectiveCardinality DEF PathsOwn
  <2>6. \A p \in Elems(paths[c]) : pathState[p] # "READY"
    BY <2>2, <2>3 DEF Left
  <2>7. \A p \in Elems(paths[c]) : p \notin errorPath[c]
    BY <2>2, <2>3 DEF OnePlace
  <2> QED
    BY <2>2, <2>5, <2>6, <2>7 DEF ReadyOnce
<1> QED
  BY <1>1, HInductive, PTL

\* A connection keeps the id it was built under: when AddInitConnectPath
\* runs, the connection has none yet.
THEOREM BuiltOnlyOnce == Spec => BuiltOnce
<1>1. ASSUME TypeInv, PInv, AddInitConnectPath
      PROVE  \A c \in Conn : connID[c] # 0 => connID'[c] = connID[c]
  <2> DEFINE d == Head(events).conn
  <2>1. /\ events # <<>> /\ Head(events).op = "AddInitConnectPath"
        /\ \E i : connID' = [connID EXCEPT ![d] = i]
    BY <1>1 DEF AddInitConnectPath, Fires
  <2>2. Head(events) \in Pending /\ d \in Conn
    BY <1>1, <2>1, FirstPending
  <2>3. Building(d, Head(events))
    BY <2>1 DEF Building
  <2>4. OneToken(d)
    BY <1>1, <2>2 DEF PInv
  <2>5. connID[d] = 0
    BY <2>2, <2>3, <2>4 DEF OneToken
  <2>6. connID \in [Conn -> ConnIDs \cup {0}]
    BY <1>1 DEF TypeInv, TypeOK
  <2> HIDE DEF d
  <2> QED
    BY <2>1, <2>5, <2>6
<1>2. ASSUME [Next]_vars, ~AddInitConnectPath
      PROVE  connID' = connID
  BY <1>2 DEF Next, Scheduled, vars, connVars, OnCybertwinInterfaceResolved,
     PathConnectSucceeded, PathConnectFailed, PathCreatedCallback, ProcessListen,
     ProcessBuildSent, ProcessJoinSent, PathCloseSucceeded, PathCloseFailed, Break,
     AddRawPath, BuildConnection, ConnectOtherPath, PathJoinResult
<1>3. TypeInv /\ PInv /\ [Next]_vars
        => [\A c \in Conn : connID[c] # 0 => connID'[c] = connID[c]]_vars
  BY <1>1, <1>2
<1> QED
  BY <1>3, HInductive, PTL DEF Spec, BuiltOnce
=============================================================================
