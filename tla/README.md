# FISim: models, checks and proofs

FISim is a fork of ns-3.37 with two future internet architectures added to it: the
*Cybertwin* network (`src/cybertwin/`) and *content centric networking* (`ccn-*` files in
`src/internet/model/` and `src/applications/model/`). This directory holds TLA+ models of the
protocols that these additions implement, TLC runs that check them on small instances and
TLAPS proofs of their safety properties for instances of any size. Paths below are relative to
the repository.

The simulator itself, its TCP/IP stack and its devices are stock ns-3 and are the *environment*
of the models: calls made with `Simulator::Schedule` fire once, in order of their time; a TCP
connection delivers a byte stream in order or breaks; UDP and raw IP packets between two nodes
keep their order or are lost. The program is single threaded. What makes it hard is that every
handler is a callback: whatever state it leaves behind is met by the next packet, timer or
scheduled call, in an order that the topology decides.

## 1. Inventory

| part | state | operations | talks to |
|---|---|---|---|
| **MDTP server** `CybertwinDataTransferServer` | registry `m_connectionIDs`, set of connections | accept a TCP connection, build a connection, join a path to one | its paths; the application (new connection) |
| **MDTP connection** `MultipathConnection` | id, state, queues of raw paths, `m_paths`, send and receive buffers and sequence numbers, round-robin index | connect, build, join, send, receive, close | CNRS (resolve the peer), its paths, the application |
| **MDTP path** `SinglePath` | socket, keys, connection id, state machine, receive buffer | connect, send, the state machine `StateProcesser` | TCP, its connection, the server |
| **CNRS** `NameResolutionService` | `itemCache`, `m_queryCache`, `m_queryClientCache` | insert and report a name, resolve a name, relay queries and answers | its superior (UDP), MDTP connections, Cybertwins |
| **Manager** `CybertwinManager` | `m_cybertwinTable`, port counter, set of assigned ports | register, destroy, reconnect a Cybertwin, assign ports | daemons (TCP), Cybertwins it creates |
| **Daemon** `CybertwinEndHostDaemon` | connected, registered, id and port of its Cybertwin | connect, ask every second, handle replies, stop | manager |
| **Cybertwin** `Cybertwin` | socket maps of the relay, streams | publish interfaces, relay downloads; stream forwarding (switched off) | CNRS, hosts, servers |
| **CCN** `CCNL4Protocol`, consumer, producer, applications | prefix table, pending interest table, consumers, producers | send an interest, answer it, deliver data | IP |
| **Download apps** `CybertwinAppDownloadClient`, `...Server` | socket, target; bytes sent for each session | wait for the registration, connect and ask; send every millisecond until `MaxBytes` | daemon, Cybertwin (TCP), CNRS |
| other applications, nodes, helpers, topology reader, tags | configuration, statistics | start, set up, generate traffic | all of the above |

How they interact: a daemon registers its host at the manager of its edge server; the manager
creates a Cybertwin with ports of its own; the Cybertwin inserts its interfaces in the CNRS of
its node, which reports them towards the root; a Cybertwin that wants to reach another resolves
its name and connects, by plain TCP or by MDTP over several paths. A download client connects to
the Cybertwin of its host and names a target; the Cybertwin resolves it, connects to the download
server and relays what comes back.

What is hard, by part, and what makes it correct (`PROJECT.json` lists the hazards line by line):

* MDTP set-up: reports of several paths, scheduled calls and server replies interleave; a path may
  never report; keys are random and unchecked. Correct: every path that comes up ends in the connection it belongs to,
  at both ends, once.
* MDTP data: TCP reads join messages and cut them, send buffers fill up, only one end notices a
  broken path, the round robin starts anywhere. Correct: a byte is in one place, no path reorders,
  no path starves, everything settles.
* CNRS: local queries and relayed queries share tables; datagrams are lost. Correct: answers are
  genuine, reach the one who asked, and come when the root knows the name.
* Registration: the retry timer races the answer; replies coalesce; the port counter wraps.
  Correct: one Cybertwin per table entry, unique ports, a registration that is never taken back.
* Downloads: clients start before, while or after their host registers and its Cybertwin listens;
  several requests wait for resolutions at once; two send buffers may fill up. Correct: data reaches
  the connection that asked, in order, complete unless a buffer was full or somebody stopped.
* CCN: one table entry per name, several consumers and producers. Correct: data goes to nodes that
  asked, in full.

## 2. Modules

| module | models | extended by |
|---|---|---|
| `MdtpHandshake` | set-up of MDTP connections: clients, paths, server registry | `MCMdtpHandshake`, `MdtpHandshakeProofs`, `MdtpHandshakePaths` |
| `MdtpData` | data transfer of one established MDTP connection, one direction | `MCMdtpData`, `MdtpDataProofs` |
| `Cnrs` | the tree of name resolution servers | `MCCnrs`, `CnrsProofs`, `CnrsRefinement` |
| `NameService` | what the name service promises its callers (abstract) | instantiated by `Cnrs` and `Download` |
| `Download` | download clients of a host, the relay of its Cybertwin, download servers | `MCDownload`, `DownloadProofs` |
| `CybertwinManager` | daemons of several hosts and the manager of their edge server | `MCCybertwinManager`, `CybertwinManagerProofs` |
| `Ccn` | interests, data, pending interest table, both applications | `MCCcn`, `CcnProofs` |

The `MC*` modules only name model values and give the functions that `.cfg` files cannot write.
In each module variables keep the names of the members (`m_` dropped) and actions the names of the
functions; the comment at a variable says which member it is. `X_Y` definitions marked "Faulty
variant" are wrong versions of action `X`; they are not part of any specification and
serve to confirm that each property can fail.

**MdtpHandshake.** A TCP connection is named by its client path, so `pathState[p]` is the client's
`SinglePath` and `srvState[p]` the server's. A server connection is named by the path that founded
it. Scheduled calls are the queue `events`. `toServer`/`toClient` are the TCP streams, of which the
handlers read connection id and key. Keys are small numbers and the shift of
`SP_KEYS_TO_CONNEID` is the constant `KeyShift` (2^32). A path may break once the client has sent
something on it (`PathCloseSucceeded`, `PathCloseFailed`); the server is not told, as in the code.
`PathConnect` ignores the result of `Connect`, which is -1, without any callback, when no route leads
through the device of the path: `OnCybertwinInterfaceResolved` leaves any set of paths `UNROUTED`, and
these never report.

**MdtpData.** Starts when the connection is built over `FirstPath`; other paths join at any time.
A path is a TCP stream of bytes, which are numbered: the message of a packet is a header of `HeaderLen`
(20) and `PayloadLen` bytes behind the message before it; the server's answer to the build or join
(`ReplyLen`, 28 bytes) comes first in the stream and shares segments with what follows. A read takes
what has arrived, as *one* packet: up to the end of the stream or of a segment that TCP ended early
(`Cuts`). `ProcessAnswer` drops whatever was read behind the answer, so later reads may begin inside a
message. Their first bytes are taken for a header all the same: a whole header reads as the number
that `Send` gave, anything else as some number of `StrayNumbers`, 0 ("buffer empty") among them; a
chunk shorter than a header fails the assertion of `PeekHeader` (`HeaderCut`) or, in builds without
assertions, goes on. `m_lastPathIndex` is an `int32_t`, uninitialised, that is converted to `size_t` before
the modulo; `Int32`, `Unsigned` and `Ahead` keep its width, its sign and the wrap-around of the compiled increment.
`SenderIsClient` selects the direction. `halted` records that the
program looped for ever or failed an assertion.

**Cnrs.** `up[n]`/`down[n]` are the datagrams between `n` and its superior. A query of another node
stores `Relay` in `queryCache`, standing for `QueryResponseCallback`. That callback has three
parameters and is stored as one with two; it is only ever invoked on a miss at the root, and is
modelled as doing nothing, like its body. Answers to insertions are sent through an unconnected
socket, which fails, so there are none. Whether a node reports an insertion to its superior depends
on `m_isCNRSRoot`, copied from a member of the node that is set for the root and initialised
nowhere else (`cybertwin-node.h:87`): below the root the model lets an insertion be reported or not,
and `unreported` remembers the names where it was not.

**NameService.** Calls, answers and insertions only: a call is answered at once, later or never, at most
once, and with a list that was inserted for its name; an empty list is given only to a call at the
root. `Cnrs` instantiates it as `Service` (the nodes without a superior are its `Top`, the other
parameters and variables are those of the same name) and claims `ImplementsNameService`; caches, ids,
datagrams, losses and the unreported names are what the mapping hides.

**Download.** A connection names the client's socket, the Cybertwin's socket towards the host, its
socket towards the server and the server's session. `Names` is the abstract name service, so the
relay is checked against every resolution that the tree could give. Data is
counted in units of `SYSTEM_PACKET_SIZE`; a read of the relay takes any number of
the units that arrived as one packet, which fits into the send buffer towards the host or is lost as a whole. A start on an
unregistered host schedules `WaitTimes` (10) more starts and still connects, to a port that was never
initialised (`astray`: it may be refused or happen to reach the Cybertwin). Registration and the start of the
Cybertwin are single steps here, in any order: their protocol is `CybertwinManager`. Stops close what
the code closes: the last socket of a client, the listening socket of a server. `LocallyListen` may
find its port in use, the outcome of `manager_ports`. The result of the relay's `Connect` is ignored
(`cybertwin.cc:183`); without a route the session is refused at once and nobody is told.

**CybertwinManager.** `Authenticate` repeats while the host is not registered. Reads take 1..n
messages and handle the first. `AssignInterfaces` is a function of the counter and the set, on a ring of
`PortMod` (2^16) ports. The destruction and reconnect commands have handlers but no
sender in the repository: `HostCommand` sends them as an external input. `StopApplication` of the daemon
closes its socket; answers under way still arrive, and its timer goes on (nothing cancels it). `published` is what
the name service of the node was last told by a starting Cybertwin; what becomes of it there is `Cnrs`.
`fatal` is `NS_FATAL_ERROR`.

**Ccn.** A name is a sequence of components. Interests and data travel on one FIFO link for each ordered pair of
nodes. `HandleInterestPacket` includes the whole answer of the producer, since the code calls
it synchronously; pieces carry their offset. `GetHostAddressFromContentName` is the loop of the code, as a
recursive function of the passes. The prefix table is filled before the simulation runs
and is a constant. `aborted` is the assertion or exception for names of 20 characters and more.

## 3. Runs

| run | instance | states | result |
|---|---|---|---|
| `mdtp_handshake` | 2 clients with 2 and 1 paths, 2 keys, any set of paths without a route, 1 break | 69,908 | 5 invariants, 1 action property, 1 liveness property hold |
| `mdtp_connect_report` | same, no break | | **violated**: all paths fail and nobody is told |
| `mdtp_data` | server sends 3 packets of 2 + 1 bytes behind an answer of 1, batches of 2, 3 paths, index from -2, 1 break | 181,280 | 4 invariants, 1 liveness property hold |
| `mdtp_reassembly` | 3 packets, no break | | **violated**: packets of two paths are delivered out of order |
| `mdtp_no_path` | client sends, 2 breaks | | **violated**: `ChoosePathRoundRobin` loops |
| `cnrs` | root, one server below it, two below that; 2 names, 2 requests, 2 insertions, 1 loss | 221,024 | 4 invariants, 2 liveness properties and the refinement of `NameService` hold |
| `cnrs_miss` | 1 insertion, no loss | | **violated**: an unknown name is never answered |
| `manager` | 2 hosts of one name, 2 global addresses, 10 ports, 2 messages in flight, 2 commands or stops | 236,762 | 5 invariants, 1 action property, 2 liveness properties hold |
| `manager_ports` | 3 hosts, 1 global address, 4 ports | | **violated**: the counter wraps and ports are used twice |
| `download` | 2 clients with a server each (3 units and 1), 2 sockets, 2 further starts, buffers of 2, 1 stop | 175,692 | 4 invariants, 1 liveness property hold |
| `ccn` | 2 nodes, 5 consumers, 2 producers, 1 loss | 103,818 | 3 invariants, 1 liveness property hold |
| `ccn_requester` | 3 consumers, no loss | | **violated**: the second consumer on a node gets nothing |

The six violated properties state what a comment, a document or an error branch of the repository
says of the program; `PROJECT.json` quotes the lines under `findings`.

*Why the bounds are enough.* Two clients with two keys give every pattern of equal and different
keys; two paths of one client give success/success, success/failure, and both orders of every pair
of reports; one break hits each path in each state. For data, three packets in batches of two give
full and short batches, of which TCP takes all, some or nothing; three paths show the jump of the round robin
where the index goes from -1 to 0 (2^64 is a multiple of two, so two paths would not show it); with segments that may end
behind the answer or inside the first header, reads begin at a header, inside one and inside a payload, and hold
less than a header, one message or several. The CNRS tree has
a server that relays for two others and a root; two requests meet in the same tables (one interface
list per name: updates are covered by the proof of `Authentic`, which is for any lists). Two hosts of
one name exercise the retry, the shared table entry, and the order of destruction and
registration; ten ports reach the fatal end of the counter with two addresses, four ports its wrap
with one. For downloads, a
stream of three units with buffers of two fills both buffers and leaves data behind a drop; two sockets
are one for each client, or two of one client (started early and again); the one stop hits a client or a server in every
state. The CCN instance has two consumers of one name on one node, one on the producer's node
(over loopback), a missing file, a file that is a multiple of the read size, an overriding longer
prefix, and a name that fills the header. `StrayNumbers` and `Cuts` stand for what payloads and
TCP may do, and the proofs are for any. `MaxBreaks`, `MaxLosses`, `MaxInserts`, `MaxSends`, `MaxInFlight`,
`MaxCommands`, `MaxStops` and the number of `Conn` are the only bounds that are not the code's own.

*Deadlock* checking is off in all configurations: each protocol legitimately comes to rest when the
applications have nothing more to do.

*Fairness.* Weak fairness of scheduled calls (the simulator runs every event), of the handlers of
messages that were sent and not lost (links deliver), and, in `MdtpHandshake`, of every SYN that left
being answered or given up (TCP exhausts its retries); a path without a route sends none. In `Download`: of what TCP delivers, of the
attempt to connect to a server that has a route, of scheduled calls and of the server's millisecond loop, and not of the registration,
the start of the Cybertwin, the connection to it or the answers of the name service. In `CybertwinManager`: of the
starts of Cybertwins, and for each host of its timer and the two reads together, none of which can go on for ever
without the others because the queues between them are bounded. Breaks, losses, stops, application calls
and starts are never fair. Liveness properties except executions with a break, a loss or a missing route where the code
has no retry; what remains is that the code itself never forgets a step.

## 4. Proofs

`MdtpHandshakeProofs` proves three theorems of `MdtpHandshake!Spec`, for any finite or infinite set of
clients and keys, any finite set of paths and any number of breaks. Assumptions: those named in
`MdtpHandshake` (paths belong to clients; keys lie strictly between 0 and `KeyShift`, which is what
`GenerateKey` and the 32-bit type give; the null path is no path).

* `TypeCorrectness`: `[]TypeOK`. `TypeOK` is not inductive: a scheduled call carries "no path" when it needs
  none, and the server's key is 0 before it accepts. `TypeInv` adds that calls about a path
  name a path of their connection (`EventsNamePaths`) and that an accepted path has a genuine key
  (`AcceptedPathsHaveKeys`).
* `JoinsAlwaysRegistered`: `[]JoinsAreRegistered`, the silent "non-exist connection" branch of
  `ProcessListen` is unreachable.
* `MisjoinOnlyOnCollision`: `[]MisjoinNeedsKeyCollision`, a path only ever joins a connection founded
  with its own client's key.

The last two share the inductive invariant `IdInv`, which follows an id through its whole life: a
request on path `p` carries the key of `p`'s client and id 0 or an id the client *may use*; an id
may be used if the registry holds it and its high word is the client's key; replies, the ids stored
in paths and connections, and the queue of ready paths obey the same rule; and the registry maps an
id to a founder whose client key is the id's high word. The arithmetic core is
`IdsOfDistinctKeys`: `k1 * KeyShift + k2` determines `k1` when `k2 < KeyShift`.

`CnrsProofs` proves two theorems of `Cnrs!Spec`, for every set of nodes, every superior function
without a self-loop, any names, requests and id pools (pools that overlap included, where the run
`cnrs` uses disjoint ones), and any number of insertions and losses.

* `TypeCorrectness`: `[]TypeOK`. It needs `RootSilent` (the root neither schedules reports nor sends
  upwards, so a datagram in `up[n]` has a receiver) and `ClientsBelow` (`m_queryClientCache` of a node
  names its inferiors only).
* `AlwaysAuthentic`: `[]Authentic`. `Authentic` says nothing of insertions on their way up, which
  `ProcessInsert` turns into cache entries; `ReportedGenuine` adds that they were made by an application.

The conjunction `IInv` of the five is inductive. The queue lemmas (`DeliveredAt`, `SentAt`,
`Relayed`) say which datagrams a step may add to the queues; each handler is then an instance of
"what it adds is genuine".

An insertion that is not reported (`unreported`) only removes a datagram and changes neither invariant.

Every safety invariant and every action property of the passing runs is a theorem. The sections
below give, module by module, the inductive invariant and why the property alone would not do.

**`MdtpHandshakePaths`** (`PathsAgree`, `PathsHeldOnce`, `BuiltOnlyOnce`; same assumptions as above). Two
things must not be duplicated. A connection has one *token* at most: the scheduled `BuildConnection`, then
the path that waits for the server's answer, then the scheduled `AddInitConnectPath`; it is created by
the last path to report, which needs the count of reports (`ReportsCounted`), and used up when the
connection gets its id. A path that has left the handshake has one *place* at most: a scheduled call, an index
of `m_paths`, or `m_errorPath`. `PInv` states both, `AInv` that the server holds a path under the id
that every place of it carries; they are inductive together with `TypeInv` and `IdInv` (`HInductive`).

**`MdtpDataProofs`** (`TypeCorrectness`, `PathsInOrder`, `BytesHaveOnePlace`, `RoundRobinIsFair`), for any set of
paths that an `int32_t` can count, any lengths of headers, answer and payload, any cuts and stray numbers, any
number of packets and batch size. `TypeOK` needs `AnswerInv`: the bytes of the server's answer are the
head of a stream whose reader waits for them and are nowhere else. `OrderInv` orders the three places on a path (read before
buffered before in the stream), byte by byte and across chunks; `TxInv` says that the send buffer holds the last packets, and `PlaceInv`
that exactly the bytes of the packets which left it are on one path or dropped. The round robin has an invariant of its own,
`TurnInv`. The negative indexes and the others are a *row* each, within which the paths follow each other in
step; a connected path has had its turn wherever the index passed it in its row, and the row was entered with
less than a lap behind it. So fewer than two laps pass, and one is not enough: from index -3 three paths are
served in the order 1, 2, 0, 0, 1, 2.

**`CnrsRefinement`** (`AnswersGoHome`, `RefinesNameService`, `EntriesOutliveTheWait`). `RInv` follows the
one datagram that a query id has, the query on its way up or the answer on its way down: there is never
a second one, and as long as it is under way the node that drew the id keeps the entry of the call, whose
name the datagram carries. So an id is drawn again only when nothing of its former use is left, and
every step of the tree maps to a call, an answer, an insertion or a stutter of `NameService`. Two hypotheses go beyond the
assumptions of `Cnrs`, and stand in the theorems:

* `PoolsDisjoint`: no two nodes draw the same query id. The code draws 32-bit random numbers and compares them
  with the node's own table only, so this is likely and not certain; `Authentic` is proved without it.
* `Hierarchy(level)`, for the last theorem: no chain of superiors leads back to a node. A query that came
  back to the node that sent it would overwrite the entry of the call that waits.

**`DownloadProofs`** (`TypeCorrectness`, `DownloadsStayApart`, `StreamsStayIntact`, `TargetsAreReached`), for any number of clients, connections, servers, buffer sizes and stops. In `DInv`,
`NamesOwned` says that only its owner inserts a name; `Bound` keeps the stages of a connection (socket,
request, question, answer, session) in step, so that the callback of a resolution runs once for a connection
and on the list of the client's own target; `Flow` says that the three queues of a connection, taken in
order, are the stream of that session with the dropped units missing.

**`CybertwinManagerProofs`** (`TypeCorrectness`, `HostsHoldOwnTwin`, `TwinsPerLife`, and
`PortsStayUnique`, `TwinsNotShared`, `RegistrationsAreKept`), for any number of hosts, names, addresses and ports
and any hash of names. The search of `AssignInterfaces` is settled first, by counting the steps at which it
may stop. `OwnInv` carries "a Cybertwin with that port was created under that id" through the messages under way;
`LifeInv` counts creations against destructions.
The last three theorems need `PortInv` (ports are told to one host, in increasing order, and all lie below the counter) and the
hypothesis `[]PortsLeft`: no registration begins with the counter at 65534 or beyond. Without it ports
are used twice, which is the finding of `manager_ports`; the run `manager`, whose counter ends in the fatal error, checks
the three properties without it.

**`CcnProofs`** (`TypeCorrectness`, `LongestPrefixWins`, `NothingUnsolicited`, `FilesArriveWhole`), for any nodes, names, files and prefix table and
any number of losses. `RouteInv`: an interest for a name travels only to the host of the name, from a node with a
consumer of it, and data only back. `BudgetInv`: interests on their way, copies of a piece on their way
and copies given are together no more than the consumers that asked; an interest is traded for one copy of
each piece, which holds since the pieces of an answer are all different (`ChunksFacts`). `GivenInv`: only the first consumer of
a name on its node is ever given anything. `FlowInv`, as long as nothing was lost: packets of a link hold
files without gaps, so that a full piece is followed by the next one, within the link or from the consumer's last
piece to the head of the link; that the last read comes short is what separates two copies of a file.
`LongestPrefixWins` says what the loop over the layers of a name ends with, by induction over its passes; that the
recursive function which stands for the loop is well defined is a lemma (`SearchExists`). The other theorems hold whatever it finds.

*Induction.* The provers cannot use the library's induction theorems. `NatInd` states induction for a *set*
of naturals closed under the successor, and is proved from the cardinality of finite sets; the
other searches (`First`, `Stops`) are defined without recursion.

*Only model-checked.* The liveness properties `ReadyPathsJoin`, `BytesArrive`, `KnownNamesResolve`, `RootLearns`,
`HostsRegister`, `TwinsAreAnnounced`, `DownloadsComplete` and `FirstAskerGetsContent`: fairness and `ENABLED` are out of the prover's reach.

## 5. Not modelled

`PROJECT.json` lists every part with its status. Most of the tree, some 830,000 lines, is stock ns-3
(devices, LTE, Wi-Fi, TCP, routing, a JSON library): the environment of the models and not FISim's own logic.
Of what FISim adds, left out are:

* code that nothing reaches: `MultipathConnection::Close` (called by nobody but its own rescheduling),
  `Cybertwin::StopApplication`, `FullDuplexStream`, `SendPendingPackets`, shaping and policing (only from
  code under `#if 0` or with `MDTP_ENABLED 1`), the callbacks of the Cybertwin's global port (no modelled
  application connects to it), `apps/download-*.cc` and `EndHostBulkSend` (never instantiated),
  `cybertwin-edge.cc` (not built);
* statistics, logging, trace files and byte layouts of headers (their lengths are kept where reads cut them);
* straight-line set-up: topology parsing, node construction, helpers, traffic generators.

A peer with fewer interfaces than the client leads to undefined reads in MDTP and is outside the models.
So are the values that stray bytes read as: the model lets them be any of `StrayNumbers`. The bundled drivers set no stop
times; stops of downloads are modelled because the attribute is there for every application.

## 6. Plan

All protocols that the repository can reach are modelled, and their safety properties are proved. What is left:

facts on the way to the liveness properties that are themselves safe, for instance that a call
which waits, with nothing lost, has its datagram under way.
