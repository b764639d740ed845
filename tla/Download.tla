------------------------------ MODULE Download ------------------------------
(***************************************************************************)
(* Downloads through a Cybertwin: the download clients of one host         *)
(* (cybertwin-app-download-client.cc), the Cybertwin that resolves their   *)
(* targets and relays the data (cybertwin.cc), and the download servers    *)
(* (cybertwin-app-download-server.cc), all in src/cybertwin/model, on top  *)
(* of the name service that NameService specifies.                         *)
(*                                                                         *)
(* A connection c of a client names everything that belongs to it: the     *)
(* client's socket, the socket the Cybertwin accepts for it, the socket    *)
(* that the callback bound to it opens towards the server, and the         *)
(* server's session.  Data is counted in units of SYSTEM_PACKET_SIZE bytes,*)
(* which is what one Send of the server and one TCP segment hold.          *)
(***************************************************************************)
EXTENDS Integers, Sequences, FiniteSets

CONSTANTS
    Client,      \* the download clients of the host
    Conn,        \* their sockets, a bound on how many they open
    NoConn,
    NoClient,
    Server,      \* download servers, by their cybertwin ids
    TwinId,      \* the id of the host's Cybertwin
    Target,      \* [Client]: TargetCybertwinId
    ServerIfs,   \* [Server]: the interfaces a server inserts
    TwinIfs,
    NoIfs,
    TwinNode,    \* the edge server; it has a superior
    NoReq,
    WaitTimes,   \* 10: calls scheduled by a start before the registration
    MaxPkts,     \* [Server]: MaxBytes / SYSTEM_PACKET_SIZE, rounded up
    ServerBuf,   \* units that fit into the send buffer of a server's socket
    HostBuf,     \* the same for the Cybertwin's socket towards the host
    MaxStops     \* bound on StopApplication calls

ASSUME ClientAssumption ==
    /\ NoClient \notin Client
    /\ NoConn \notin Conn /\ IsFiniteSet(Conn)
    /\ Target \in [Client -> Server]
ASSUME ServerAssumption ==
    /\ TwinId \notin Server
    /\ NoIfs # TwinIfs
    /\ \A s, t \in Server :
          /\ ServerIfs[s] \notin {NoIfs, TwinIfs}
          /\ s # t => ServerIfs[s] # ServerIfs[t]
ASSUME DownloadBounds ==
    /\ MaxPkts \in [Server -> Nat]
    /\ {WaitTimes, MaxStops} \subseteq Nat
    /\ {ServerBuf, HostBuf} \subseteq Nat \ {0}

VARIABLES
    registered,  \* m_isRegisteredToCybertwin of the host's daemon
    twin,        \* how far the Cybertwin has started
    starts,      \* [Client]: StartApplication calls that are scheduled
    mSocket,     \* [Client]: m_socket
    owner,       \* [Conn]: the client that opened the socket
    sock,        \* [Conn]: the client's socket
    request,     \* [Conn]: how far the download request has come
    accepted,    \* [Conn]: the Cybertwin's socket towards the host
    cloud2end,   \* [Conn]: m_cloud2endSockMap of the socket to the server
    peer,        \* [Conn]: the interfaces that socket connects to
    server,      \* [Server]: whether it listens
    session,     \* [Conn]: the connection between Cybertwin and server
    sent,        \* [Conn]: m_sendBytes
    cloud,       \* [Conn]: units under way from the server to the Cybertwin
    host,        \* [Conn]: units under way from the Cybertwin to the client
    got,         \* [Conn]: units the client has read
    dropped,     \* [Conn]: units whose Send towards the host failed
    stops,       \* how many StopApplication calls so far
    asked, answers, inserted    \* of the name service

clientVars == <<starts, mSocket, owner, sock>>
relayVars == <<request, accepted, cloud2end, peer>>
dataVars == <<sent, cloud, host, got, dropped>>
nameVars == <<asked, answers, inserted>>
vars == <<registered, twin, clientVars, relayVars, server, session, dataVars,
          stops, nameVars>>

Names == INSTANCE NameService WITH
            Node <- {TwinNode}, Top <- {}, Name <- Server \cup {TwinId},
            Ifs <- {ServerIfs[s] : s \in Server} \cup {TwinIfs},
            Request <- Conn

Lists == {ServerIfs[s] : s \in Server} \cup {TwinIfs, NoIfs}
Unit == [of : Conn, n : Nat]

TypeOK ==
    /\ registered \in BOOLEAN
    /\ twin \in {"off", "started", "listening", "unbound"}
    /\ starts \in [Client -> Nat]
    /\ mSocket \in [Client -> Conn \cup {NoConn}]
    /\ owner \in [Conn -> Client \cup {NoClient}]
    /\ sock \in [Conn -> {"none", "connecting", "astray", "failed", "open",
                          "closing", "closed"}]
    /\ request \in [Conn -> {"none", "sent", "scheduled", "asked"}]
    /\ accepted \in [Conn -> {"none", "open", "shut"}]
    /\ cloud2end \in [Conn -> Conn \cup {NoConn}]
    /\ peer \in [Conn -> Lists]
    /\ server \in [Server -> {"off", "listening", "stopped"}]
    /\ session \in [Conn -> {"none", "connecting", "refused", "sending",
                             "stalled", "closed"}]
    /\ sent \in [Conn -> Nat]
    /\ cloud \in [Conn -> Seq(Unit)]
    /\ host \in [Conn -> Seq(Unit)]
    /\ got \in [Conn -> Seq(Unit)]
    /\ dropped \in [Conn -> Nat]
    /\ stops \in 0..MaxStops
    /\ \A c \in Conn :
          Len(cloud[c]) <= ServerBuf /\ Len(host[c]) <= HostBuf

Init ==
    /\ registered = FALSE
    /\ twin = "off"
    /\ starts = [k \in Client |-> 1]
    /\ mSocket = [k \in Client |-> NoConn]
    /\ owner = [c \in Conn |-> NoClient]
    /\ sock = [c \in Conn |-> "none"]
    /\ request = [c \in Conn |-> "none"]
    /\ accepted = [c \in Conn |-> "none"]
    /\ cloud2end = [c \in Conn |-> NoConn]
    /\ peer = [c \in Conn |-> NoIfs]
    /\ server = [s \in Server |-> "off"]
    /\ session = [c \in Conn |-> "none"]
    /\ sent = [c \in Conn |-> 0]
    /\ cloud = [c \in Conn |-> <<>>]
    /\ host = [c \in Conn |-> <<>>]
    /\ got = [c \in Conn |-> <<>>]
    /\ dropped = [c \in Conn |-> 0]
    /\ stops = 0
    /\ Names!Init

-----------------------------------------------------------------------------
(* Registration and the start of the Cybertwin (see CybertwinManager): in  *)
(* any order, because the Cybertwin starts only some time after the manager*)
(* has created it and acknowledged the registration.                       *)

RegisterSuccess ==
    /\ ~registered
    /\ registered' = TRUE
    /\ UNCHANGED <<twin, clientVars, relayVars, server, session, dataVars,
                   stops, nameVars>>

\* The interfaces are inserted; listening is scheduled.
StartCybertwin ==
    /\ twin = "off"
    /\ twin' = "started"
    /\ Names!InsertCybertwinInterfaceName(TwinId, TwinIfs)
    /\ UNCHANGED <<registered, clientVars, relayVars, server, session,
                   dataVars, stops>>

\* The port may be in use already; then the Cybertwin never listens.
LocallyListen ==
    /\ twin = "started"
    /\ twin' \in {"listening", "unbound"}
    /\ UNCHANGED <<registered, clientVars, relayVars, server, session,
                   dataVars, stops, nameVars>>

-----------------------------------------------------------------------------
(* The client.                                                             *)

\* The socket that CreateSocket returns next; which of them is immaterial.
NewSocket == CHOOSE c \in Conn : sock[c] = "none"

\* A client that finds its host unregistered schedules WaitTimes further
\* starts and goes on: it connects to a port that was never initialised,
\* where the Cybertwin may listen or not.  A later start replaces m_socket.
StartApplication(k) ==
    /\ starts[k] > 0
    /\ \E c \in Conn : sock[c] = "none"
    /\ starts' = [starts EXCEPT ![k] = @ - 1 + IF registered THEN 0
                                               ELSE WaitTimes]
    /\ mSocket' = [mSocket EXCEPT ![k] = NewSocket]
    /\ owner' = [owner EXCEPT ![NewSocket] = k]
    /\ sock' = [sock EXCEPT ![NewSocket] = IF registered THEN "connecting"
                                           ELSE "astray"]
    /\ UNCHANGED <<registered, twin, relayVars, server, session, dataVars,
                   stops, nameVars>>

SendDownloadRequest(c) == request' = [request EXCEPT ![c] = "sent"]

LocalConnCreatedCallback(c) == accepted' = [accepted EXCEPT ![c] = "open"]

\* The Cybertwin accepts; the client sends its request at once.
ConnectSucceeded(c) ==
    /\ sock[c] \in {"connecting", "astray"}
    /\ twin = "listening"
    /\ sock' = [sock EXCEPT ![c] = "open"]
    /\ LocalConnCreatedCallback(c)
    /\ SendDownloadRequest(c)
    /\ UNCHANGED <<registered, twin, starts, mSocket, owner, cloud2end, peer,
                   server, session, dataVars, stops, nameVars>>

\* Only logged: the client does not try again.
ConnectFailed(c) ==
    /\ sock[c] = "astray" \/ (sock[c] = "connecting" /\ twin # "listening")
    /\ sock' = [sock EXCEPT ![c] = "failed"]
    /\ UNCHANGED <<registered, twin, starts, mSocket, owner, relayVars,
                   server, session, dataVars, stops, nameVars>>

\* Closes m_socket, the last one opened.  Starts that are scheduled stay so,
\* and a closing socket is still read.
StopApplication(k) ==
    /\ stops < MaxStops
    /\ stops' = stops + 1
    /\ mSocket[k] # NoConn
    /\ sock' = [sock EXCEPT ![mSocket[k]] =
                  CASE @ = "open" -> "closing"
                    [] @ \in {"connecting", "astray"} -> "closed"
                    [] OTHER -> @]
    /\ UNCHANGED <<registered, twin, starts, mSocket, owner, relayVars,
                   server, session, dataVars, nameVars>>

\* Faulty variant: the client looks at the data and leaves it there.
RecvCallback_Peek(c) ==
    /\ host[c] # <<>>
    /\ Len(got[c]) < MaxPkts[Target[owner[c]]] + 1
    /\ got' = [got EXCEPT ![c] = Append(@, Head(host[c]))]
    /\ UNCHANGED <<registered, twin, clientVars, relayVars, server, session,
                   sent, cloud, host, dropped, stops, nameVars>>

RecvCallback(c) ==
    /\ host[c] # <<>>
    /\ got' = [got EXCEPT ![c] = Append(@, Head(host[c]))]
    /\ host' = [host EXCEPT ![c] = Tail(@)]
    /\ UNCHANGED <<registered, twin, clientVars, relayVars, server, session,
                   sent, cloud, dropped, stops, nameVars>>

-----------------------------------------------------------------------------
(* The Cybertwin.                                                          *)

LocalRecvCallback(c) ==
    /\ request[c] = "sent"
    /\ request' = [request EXCEPT ![c] = "scheduled"]
    /\ UNCHANGED <<registered, twin, clientVars, accepted, cloud2end, peer,
                   server, session, dataVars, stops, nameVars>>

\* The client's FIN, which follows its request, ends the sending to it; the
\* connection to the server stays.
LocalNormalCloseCallback(c) ==
    /\ sock[c] = "closing"
    /\ accepted[c] = "open"
    /\ request[c] # "sent"
    /\ accepted' = [accepted EXCEPT ![c] = "shut"]
    /\ UNCHANGED <<registered, twin, clientVars, request, cloud2end, peer,
                   server, session, dataVars, stops, nameVars>>

\* Faulty variant: the host's socket is remembered in a member, which the
\* next request overwrites, instead of being bound to the callback.
StartDownloadProcess_Member(c, i) ==
    /\ session' = [session EXCEPT ![c] = "connecting"]
    /\ peer' = [peer EXCEPT ![c] = i]
    /\ \E e \in Conn :
          /\ asked'[e] # NoReq
          /\ cloud2end' = [cloud2end EXCEPT ![c] = e]

\* Connects to the first interface; of an empty list it would read past the
\* end (ConnectsToTarget shows that there is none).  What Connect returns is
\* not looked at: without a route the session ends here, unnoticed.
StartDownloadProcess(c, i) ==
    /\ \E s \in {"connecting", "refused"} :
          session' = [session EXCEPT ![c] = s]
    /\ peer' = [peer EXCEPT ![c] = i]
    /\ cloud2end' = [cloud2end EXCEPT ![c] = c]

\* Resolves the target.  If the name service knows it already, its callback
\* StartDownloadProcess runs before the call returns.
StartCybertwinDownloadProcess(c) ==
    /\ request[c] = "scheduled"
    /\ request' = [request EXCEPT ![c] = "asked"]
    /\ Names!GetCybertwinInterfaceByName(c, TwinNode, Target[owner[c]])
    /\ IF answers'[c] = <<>> THEN UNCHANGED <<session, peer, cloud2end>>
       ELSE StartDownloadProcess(c, answers'[c][1].ifs)
    /\ UNCHANGED <<registered, twin, clientVars, accepted, server, dataVars,
                   stops>>

TargetResolved(c) ==
    /\ Names!QueryResponse(c)
    /\ StartDownloadProcess(c, answers'[c][1].ifs)
    /\ UNCHANGED <<registered, twin, clientVars, request, accepted, server,
                   dataVars, stops>>

\* The socket has no connect callbacks: a refusal is not noticed.
ConnectionRefused(c) ==
    /\ session[c] = "connecting"
    /\ \A s \in Server : ServerIfs[s] = peer[c] => server[s] # "listening"
    /\ session' = [session EXCEPT ![c] = "refused"]
    /\ UNCHANGED <<registered, twin, clientVars, relayVars, server, dataVars,
                   stops, nameVars>>

\* A read takes the n units that have arrived as one packet, which goes to
\* the host as a whole or not at all; the result of Send is not looked at.
\* After the host's FIN it fails, but as long as older data is unsent the
\* packet is put behind it nevertheless.
DownloadSocketRecvCallback(c, n) ==
    /\ n <= Len(cloud[c])
    /\ cloud' = [cloud EXCEPT ![c] = SubSeq(@, n + 1, Len(@))]
    /\ LET e == cloud2end[c]
           fits == Len(host[e]) + n <= HostBuf
       IN  \/ /\ fits
              /\ accepted[e] = "shut" => host[e] # <<>>
              /\ host' = [host EXCEPT ![e] = @ \o SubSeq(cloud[c], 1, n)]
              /\ UNCHANGED dropped
           \/ /\ fits => accepted[e] = "shut"
              /\ dropped' = [dropped EXCEPT ![c] = @ + n]
              /\ UNCHANGED host
    /\ UNCHANGED <<registered, twin, clientVars, relayVars, server, session,
                   sent, got, stops, nameVars>>

-----------------------------------------------------------------------------
(* The server.                                                             *)

\* Faulty variant: the interfaces are inserted for the id that the other
\* server was configured with too.
StartServer_AnyId(s) ==
    /\ server[s] = "off"
    /\ server' = [server EXCEPT ![s] = "listening"]
    /\ \E id \in Server : Names!InsertCybertwinInterfaceName(id, ServerIfs[s])
    /\ UNCHANGED <<registered, twin, clientVars, relayVars, session, dataVars,
                   stops>>

StartServer(s) ==
    /\ server[s] = "off"
    /\ server' = [server EXCEPT ![s] = "listening"]
    /\ Names!InsertCybertwinInterfaceName(s, ServerIfs[s])
    /\ UNCHANGED <<registered, twin, clientVars, relayVars, session, dataVars,
                   stops>>

\* The listening socket is closed.  The name stays in the name service and
\* the sessions go on.
StopServer(s) ==
    /\ stops < MaxStops
    /\ stops' = stops + 1
    /\ server[s] = "listening"
    /\ server' = [server EXCEPT ![s] = "stopped"]
    /\ UNCHANGED <<registered, twin, clientVars, relayVars, session, dataVars,
                   nameVars>>

ConnCreatedCallback(c) ==
    /\ session[c] = "connecting"
    /\ \E s \in Server : ServerIfs[s] = peer[c] /\ server[s] = "listening"
    /\ session' = [session EXCEPT ![c] = "sending"]
    /\ sent' = [sent EXCEPT ![c] = 0]
    /\ UNCHANGED <<registered, twin, clientVars, relayVars, server, cloud,
                   host, got, dropped, stops, nameVars>>

\* The server of a session.
ServerOf(c) == CHOOSE s \in Server : ServerIfs[s] = peer[c]

\* Faulty variant: one unit too many, and a full buffer is not an error.
SendData_OneMore(c) ==
    /\ session[c] = "sending"
    /\ IF sent[c] > MaxPkts[ServerOf(c)]
       THEN /\ session' = [session EXCEPT ![c] = "closed"]
            /\ UNCHANGED <<cloud, sent>>
       ELSE /\ sent' = [sent EXCEPT ![c] = @ + 1]
            /\ cloud' = [cloud EXCEPT ![c] = Append(@, [of |-> c,
                                                        n |-> sent[c] + 1])]
            /\ UNCHANGED session
    /\ UNCHANGED <<registered, twin, clientVars, relayVars, server, host, got,
                   dropped, stops, nameVars>>

\* Faulty variant: the unit about to be sent is counted as sent.
SendData_OneLess(c) ==
    /\ session[c] = "sending"
    /\ IF sent[c] + 1 >= MaxPkts[ServerOf(c)]
       THEN /\ session' = [session EXCEPT ![c] = "closed"]
            /\ UNCHANGED <<cloud, sent>>
       ELSE /\ Len(cloud[c]) < ServerBuf
            /\ sent' = [sent EXCEPT ![c] = @ + 1]
            /\ cloud' = [cloud EXCEPT ![c] = Append(@, [of |-> c,
                                                        n |-> sent[c] + 1])]
            /\ UNCHANGED session
    /\ UNCHANGED <<registered, twin, clientVars, relayVars, server, host, got,
                   dropped, stops, nameVars>>

\* Runs every millisecond until everything is sent.  When the send buffer
\* is full it is not scheduled again: the session stalls for ever.
SendData(c) ==
    /\ session[c] = "sending"
    /\ \/ /\ sent[c] >= MaxPkts[ServerOf(c)]
          /\ session' = [session EXCEPT ![c] = "closed"]
          /\ UNCHANGED <<cloud, sent>>
       \/ /\ sent[c] < MaxPkts[ServerOf(c)]
          /\ IF Len(cloud[c]) < ServerBuf
             THEN /\ sent' = [sent EXCEPT ![c] = @ + 1]
                  /\ cloud' = [cloud EXCEPT
                                 ![c] = Append(@, [of |-> c,
                                                   n |-> sent[c] + 1])]
                  /\ UNCHANGED session
             ELSE /\ session' = [session EXCEPT ![c] = "stalled"]
                  /\ UNCHANGED <<cloud, sent>>
    /\ UNCHANGED <<registered, twin, clientVars, relayVars, server, host, got,
                   dropped, stops, nameVars>>

-----------------------------------------------------------------------------
Next ==
    \/ RegisterSuccess
    \/ StartCybertwin
    \/ LocallyListen
    \/ \E k \in Client : StartApplication(k) \/ StopApplication(k)
    \/ \E s \in Server : StartServer(s) \/ StopServer(s)
    \/ \E c \in Conn :
          \/ ConnectSucceeded(c)
          \/ ConnectFailed(c)
          \/ RecvCallback(c)
          \/ LocalRecvCallback(c)
          \/ LocalNormalCloseCallback(c)
          \/ StartCybertwinDownloadProcess(c)
          \/ TargetResolved(c)
          \/ ConnectionRefused(c)
          \/ \E n \in 1..ServerBuf : DownloadSocketRecvCallback(c, n)
          \/ ConnCreatedCallback(c)
          \/ SendData(c)

Spec == Init /\ [][Next]_vars

\* TCP delivers what was sent and ends the attempt to connect to a server;
\* scheduled calls run.  Registration, starts, stops, the connection to the
\* Cybertwin and answers of the name service are not promised.
Fairness ==
    \A c \in Conn :
        /\ WF_vars(LocalRecvCallback(c))
        /\ WF_vars(StartCybertwinDownloadProcess(c))
        /\ WF_vars(ConnCreatedCallback(c) \/ ConnectionRefused(c))
        /\ WF_vars(SendData(c))
        /\ WF_vars(\E n \in 1..ServerBuf : DownloadSocketRecvCallback(c, n))
        /\ WF_vars(RecvCallback(c))

FairSpec == Spec /\ Fairness

-----------------------------------------------------------------------------
(* Properties.                                                             *)

\* Whatever requests are under way at the same time, the data of a session
\* only ever goes to the connection that asked for it: neither the callback
\* bound to a resolution nor m_cloud2endSockMap mixes up two downloads.
NoCrossTalk ==
    \A c \in Conn :
        /\ \A k \in DOMAIN host[c] : host[c][k].of = c
        /\ \A k \in DOMAIN got[c] : got[c][k].of = c

Pipe(c) == got[c] \o host[c] \o cloud[c]

\* What the client has read, what is under way to it and what is under way
\* to the relay is, in this order, the server's stream with exactly the
\* dropped units missing: nothing is doubled, reordered or lost silently
\* other than by a failed Send of the relay, through stops and stalls.
StreamIntact ==
    \A c \in Conn :
        /\ Len(Pipe(c)) + dropped[c] = sent[c]
        /\ \A k, l \in DOMAIN Pipe(c) : k < l => Pipe(c)[k].n < Pipe(c)[l].n

\* StartDownloadProcess always has an interface to connect to, and it is the
\* one of the server that the client named; so no server ever sends more
\* than its own MaxBytes to a connection.
ConnectsToTarget ==
    \A c \in Conn :
        session[c] # "none" => /\ peer[c] = ServerIfs[Target[owner[c]]]
                               /\ sent[c] <= MaxPkts[Target[owner[c]]]

Complete(c) ==
    \E k \in Client : owner[c] = k /\ Len(got[c]) = MaxPkts[Target[k]]

\* A request reaches the name service, and once the target is resolved the
\* client gets all of it, unless the server does not listen any more or no
\* route leads to it, a buffer was full (the session stalled or the relay
\* dropped data), or the client closed the connection.
DownloadsComplete ==
    \A c \in Conn :
        /\ sock[c] = "open" ~> asked[c] # NoReq
        /\ []<>(\/ answers[c] = <<>> \/ sock[c] # "open"
                \/ Complete(c) \/ dropped[c] > 0
                \/ session[c] \in {"refused", "stalled"})
=============================================================================
