------------------------------ MODULE MdtpData ------------------------------
(***************************************************************************)
(* Data transfer over an MDTP connection, in one direction                 *)
(* (src/cybertwin/model/networks/multipath-data-transfer-protocol.cc).     *)
(*                                                                         *)
(* The sender queues packets, gives batches of them to its paths in turn   *)
(* and forgets them; the receiver moves what its paths read to the         *)
(* application.  Paths join while data already flows.  A path is a TCP     *)
(* stream of bytes: a read returns the bytes that have arrived, wherever   *)
(* they begin and end, and its first bytes are taken for a header.  The    *)
(* sender is the server or the client (SenderIsClient): the server's paths *)
(* have no close callbacks, and its answer to the build or join request    *)
(* precedes its data in the stream.                                        *)
(*                                                                         *)
(* Bytes are numbers.  The message of packet i is HeaderLen + PayloadLen   *)
(* bytes, numbered on from the message before; the answer is ReplyLen      *)
(* bytes, numbered up to 0.                                                *)
(***************************************************************************)
EXTENDS Integers, Sequences, FiniteSets

CONSTANTS
    Path,
    FirstPath,       \* the path that built the connection
    SenderIsClient,
    ConnID,          \* the initial sequence number of both directions
    SeqMod,          \* 2^64: sequence numbers are uint64_t
    PayloadLen,      \* bytes of a packet of the application
    HeaderLen,       \* 20: the serialized MultipathHeaderDSN
    ReplyLen,        \* 28: the serialized MultipathHeader
    Cuts,            \* bytes after which TCP may end a segment early
    StrayNumbers,    \* [byte]: sequence numbers that what begins there may read
                     \* as, when it is not a whole header
    MaxSentOnce,     \* MULTIPATH_MAXSENT_PACKET_ONCE
    IndexMax,        \* 2^31 - 1: m_lastPathIndex is an int32_t
    SizeMod,         \* 2^64: it is converted to a size_t
    FirstIndexes,    \* what the uninitialised m_lastPathIndex may hold
    MaxSends,        \* bound on the packets the application sends
    MaxBreaks        \* bound on broken TCP connections

ASSUME PathAssumption ==
    /\ FirstPath \in Path
    /\ IsFiniteSet(Path) /\ Cardinality(Path) <= IndexMax + 1
ASSUME SenderAssumption == SenderIsClient \in BOOLEAN
ASSUME SeqAssumption ==
    /\ SeqMod \in Nat \ {0} /\ ConnID \in 1..(SeqMod - 1)
    /\ PayloadLen \in Nat \ {0} /\ HeaderLen \in Nat /\ ReplyLen \in Nat \ {0}
    /\ StrayNumbers \in [1..(MaxSends * (HeaderLen + PayloadLen)) ->
                            SUBSET (0..(SeqMod - 1))]
ASSUME IndexAssumption ==
    /\ IndexMax \in Nat /\ SizeMod \in Nat /\ SizeMod > IndexMax
    /\ FirstIndexes \subseteq (-(IndexMax + 1))..IndexMax
ASSUME BoundAssumption ==
    /\ MaxSentOnce \in Nat \ {0} /\ MaxSends \in Nat /\ MaxBreaks \in Nat

VARIABLES
    sent,           \* packets sent by the application; they are 1..sent
    txBuffer,       \* m_txBuffer
    sendCalls,      \* scheduled calls of SendData
    paths,          \* m_paths of the sender
    lastPathIndex,  \* m_lastPathIndex
    sndState,       \* [Path]: m_pathState at the sender
    rcvState,       \* [Path]: m_pathState at the receiver
    broken,         \* paths whose TCP connection is gone
    flight,         \* [Path]: bytes in the TCP stream, oldest first
    rxPath,         \* [Path]: m_rxBuffer of the SinglePath, a queue of chunks
    rxNumber,       \* [Path]: the sequence number each chunk's header reads as
    notices,        \* scheduled calls of PathRecvedData
    recvSeq,        \* m_recvSeqNum
    delivered,      \* chunks given to the application, with their paths
    lost,           \* bytes dropped on the way
    idle,           \* [Path]: batches since the path had its turn
    halted          \* how the program ended: "no", "loop" or "assert"

sendVars == <<sent, txBuffer, sendCalls, lastPathIndex, idle>>
pathVars == <<paths, sndState, rcvState, broken>>
recvVars == <<rxPath, rxNumber, notices, recvSeq, delivered>>
vars == <<sendVars, pathVars, flight, recvVars, lost, halted>>

Elems(s) == {s[i] : i \in DOMAIN s}
Lesser(m, n) == IF m < n THEN m ELSE n

\* The data sequence number that Send gives packet i.
SeqOf(i) == (ConnID + (i - 1) * PayloadLen) % SeqMod

\* The bytes of the messages of the first n packets, and of the answer.
MsgLen == HeaderLen + PayloadLen
Bytes(n) == 1..(n * MsgLen)
ReplyBytes == (1 - ReplyLen)..0
IsReply(b) == b <= 0

\* The bytes of a sequence of packets.
Wire(s) ==
    [k \in Bytes(Len(s)) |->
        (s[((k - 1) \div MsgLen) + 1] - 1) * MsgLen + ((k - 1) % MsgLen) + 1]

\* The values of an int32_t, and one as a size_t.
Int32 == (-(IndexMax + 1))..IndexMax
Unsigned(i) == IF i < 0 THEN i + SizeMod ELSE i

TypeOK ==
    /\ sent \in 0..MaxSends
    /\ txBuffer \in Seq(1..sent)
    /\ sendCalls \in Nat
    /\ paths \in Seq(Path)
    /\ lastPathIndex \in Int32
    /\ sndState \in [Path -> {"INIT", "CONNECTED", "ERROR"}]
    /\ rcvState \in [Path -> {"WAITING", "CONNECTED", "ERROR"}]
    /\ broken \subseteq Path
    /\ flight \in [Path -> Seq(ReplyBytes \cup Bytes(sent))]
    /\ rxPath \in [Path -> Seq(Seq(Bytes(sent)))]
    /\ rxNumber \in [Path -> Seq(0..(SeqMod - 1))]
    /\ notices \in Seq(Path)
    /\ recvSeq \in 0..(SeqMod - 1)
    /\ delivered \in Seq([path : Path, chunk : Seq(Bytes(sent))])
    /\ lost \subseteq Bytes(sent)
    /\ idle \in [Path -> Nat]
    /\ halted \in {"no", "loop", "assert"}

\* A server that sends has just answered on the path; a client that sends
\* has the answer, and its server is connected.
Stream == IF SenderIsClient THEN <<>> ELSE [i \in 1..ReplyLen |-> i - ReplyLen]
Peer == IF SenderIsClient THEN "CONNECTED" ELSE "WAITING"

Init ==
    /\ sent = 0
    /\ txBuffer = <<>>
    /\ sendCalls = 0
    /\ paths = <<FirstPath>>
    /\ lastPathIndex \in FirstIndexes
    /\ sndState = [p \in Path |-> IF p = FirstPath THEN "CONNECTED" ELSE "INIT"]
    /\ rcvState = [p \in Path |-> Peer]
    /\ broken = {}
    /\ flight = [p \in Path |-> IF p = FirstPath THEN Stream ELSE <<>>]
    /\ rxPath = [p \in Path |-> <<>>]
    /\ rxNumber = [p \in Path |-> <<>>]
    /\ notices = <<>>
    /\ recvSeq = ConnID
    /\ delivered = <<>>
    /\ lost = {}
    /\ idle = [p \in Path |-> 0]
    /\ halted = "no"

-----------------------------------------------------------------------------
(* The sender.                                                             *)

Send ==
    /\ sent < MaxSends
    /\ sent' = sent + 1
    /\ txBuffer' = Append(txBuffer, sent + 1)
    /\ sendCalls' = sendCalls + 1
    /\ UNCHANGED <<lastPathIndex, idle, pathVars, flight, recvVars, lost, halted>>

\* AddOtherConnectPath at the server, PathJoinResult at the client.
AddOtherConnectPath(p) ==
    /\ p \notin Elems(paths)
    /\ paths' = Append(paths, p)
    /\ sndState' = [sndState EXCEPT ![p] = "CONNECTED"]
    /\ flight' = [flight EXCEPT ![p] = Stream]
    /\ idle' = [q \in Path |-> 0]
    /\ UNCHANGED <<sent, txBuffer, sendCalls, lastPathIndex, rcvState, broken,
                   recvVars, lost, halted>>

\* m_lastPathIndex after d increments.  It steps from its largest value to
\* its smallest, as the compiled increment does.
Ahead(d) ==
    LET i == lastPathIndex + d
    IN IF i > IndexMax THEN i - 2 * (IndexMax + 1) ELSE i

\* The path an index stands for.
PathAt(i) == paths[(Unsigned(i) % Len(paths)) + 1]

\* How far ahead the search finds a connected path.  Where the index passes
\* from -1 to 0 or wraps around a lap is cut short, so two laps have all.
Usable == {d \in 0..(2 * Len(paths) - 1) :
              sndState[PathAt(Ahead(d))] = "CONNECTED"}

\* Faulty variant: the index is not advanced.
ChoosePathRoundRobin_Stuck(d) ==
    /\ d \in Usable /\ \A e \in Usable : d <= e
    /\ UNCHANGED lastPathIndex

\* The first connected path from m_lastPathIndex on.
ChoosePathRoundRobin(d) ==
    /\ d \in Usable /\ \A e \in Usable : d <= e
    /\ lastPathIndex' = Ahead(d + 1)

\* How many of a batch the TCP socket takes: a message that does not fit
\* into its send buffer is refused as a whole, and so are those behind it.
\* A socket that is closed takes none.
Accepted(p, batch) == IF p \in broken THEN {0} ELSE 0..batch

\* Faulty variant: a refused packet is kept, and the ones before it too.
SendBatch_Kept(p, batch, n) ==
    /\ flight' = [flight EXCEPT ![p] = @ \o Wire(SubSeq(txBuffer, 1, n))]
    /\ UNCHANGED lost
    /\ txBuffer' = IF n = batch THEN SubSeq(txBuffer, batch + 1, Len(txBuffer))
                                ELSE txBuffer

\* SinglePath::Send for each packet of the batch: what the socket refuses is
\* popped from the buffer all the same.
SendBatch(p, batch, n) ==
    /\ flight' = [flight EXCEPT ![p] = @ \o Wire(SubSeq(txBuffer, 1, n))]
    /\ lost' = lost \cup Elems(Wire(SubSeq(txBuffer, n + 1, batch)))
    /\ txBuffer' = SubSeq(txBuffer, batch + 1, Len(txBuffer))

\* Without a connected path the search for one never ends.
SendData ==
    /\ sendCalls > 0
    /\ sendCalls' = sendCalls - 1
    /\ IF txBuffer = <<>>
       THEN UNCHANGED <<txBuffer, lastPathIndex, idle, flight, lost, halted>>
       ELSE IF Usable = {}
       THEN /\ halted' = "loop"
            /\ UNCHANGED <<txBuffer, lastPathIndex, idle, flight, lost>>
       ELSE \E d \in Usable :
              LET p == PathAt(Ahead(d))
                  batch == Lesser(MaxSentOnce, Len(txBuffer))
              IN /\ ChoosePathRoundRobin(d)
                 /\ \E n \in Accepted(p, batch) : SendBatch(p, batch, n)
                 /\ idle' = [q \in Path |-> IF q = p THEN 0 ELSE idle[q] + 1]
                 /\ UNCHANGED halted
    /\ UNCHANGED <<sent, pathVars, recvVars>>

-----------------------------------------------------------------------------
(* The receiver.                                                           *)

\* A read takes the first n bytes of the stream, as one packet: those that
\* have arrived, up to the end of a segment.
Reads(p, n) ==
    /\ n \in 1..Len(flight[p]) /\ p \notin broken
    /\ n = Len(flight[p]) \/ flight[p][n] \in Cuts
Unread(p, n) == [flight EXCEPT ![p] = SubSeq(@, n + 1, Len(@))]

\* Faulty variant: the whole packet is queued as data.
ProcessAnswer_Queued(p, n) ==
    /\ rcvState[p] = "WAITING"
    /\ Reads(p, n) /\ n >= ReplyLen
    /\ flight' = Unread(p, n)
    /\ rxPath' = [rxPath EXCEPT ![p] = Append(@, SubSeq(flight[p], 1, n))]
    /\ rxNumber' = [rxNumber EXCEPT ![p] = Append(@, ConnID)]
    /\ rcvState' = [rcvState EXCEPT ![p] = "CONNECTED"]
    /\ UNCHANGED <<sendVars, paths, sndState, broken, notices, recvSeq,
                   delivered, lost, halted>>

\* ProcessBuildSent and ProcessJoinSent take the first header for the
\* server's answer, which fits into a segment, and drop the rest of the
\* packet: the next read may begin inside a message.
ProcessAnswer(p, n) ==
    /\ rcvState[p] = "WAITING"
    /\ Reads(p, n) /\ n >= ReplyLen
    /\ flight' = Unread(p, n)
    /\ lost' = lost \cup Elems(SubSeq(flight[p], ReplyLen + 1, n))
    /\ rcvState' = [rcvState EXCEPT ![p] = "CONNECTED"]
    /\ UNCHANGED <<sendVars, paths, sndState, broken, recvVars, halted>>

\* What PeekHeader may make of the first bytes of a chunk: the number Send
\* wrote, when they are a whole header, and otherwise whatever payload,
\* shifted fields or memory behind the chunk give.
Numbers(chunk) ==
    IF Len(chunk) >= HeaderLen /\ (chunk[1] - 1) % MsgLen = 0
    THEN {SeqOf(((chunk[1] - 1) \div MsgLen) + 1)}
    ELSE StrayNumbers[chunk[1]]

\* Faulty variant: the connection is not told.
ProcessConnected_Silent(p, n) ==
    /\ rcvState[p] = "CONNECTED"
    /\ Reads(p, n)
    /\ flight' = Unread(p, n)
    /\ rxPath' = [rxPath EXCEPT ![p] = Append(@, SubSeq(flight[p], 1, n))]
    /\ \E number \in Numbers(SubSeq(flight[p], 1, n)) :
          rxNumber' = [rxNumber EXCEPT ![p] = Append(@, number)]
    /\ UNCHANGED <<sendVars, pathVars, notices, recvSeq, delivered, lost, halted>>

ProcessConnected(p, n) ==
    /\ rcvState[p] = "CONNECTED"
    /\ Reads(p, n)
    /\ flight' = Unread(p, n)
    /\ rxPath' = [rxPath EXCEPT ![p] = Append(@, SubSeq(flight[p], 1, n))]
    /\ \E number \in Numbers(SubSeq(flight[p], 1, n)) :
          rxNumber' = [rxNumber EXCEPT ![p] = Append(@, number)]
    /\ notices' = Append(notices, p)
    /\ UNCHANGED <<sendVars, pathVars, recvSeq, delivered, lost, halted>>

\* PeekHeader asserts that it stays inside the packet, in builds that have
\* assertions; the others go on with ProcessConnected.
HeaderCut(p, n) ==
    /\ rcvState[p] = "CONNECTED"
    /\ Reads(p, n) /\ n < HeaderLen
    /\ halted' = "assert"
    /\ UNCHANGED <<sendVars, pathVars, flight, recvVars, lost>>

\* What Recv leaves of a chunk: HeaderLen bytes are removed, or all.  Other
\* headers in the chunk count as data.
Size(chunk) == IF Len(chunk) < HeaderLen THEN 0 ELSE Len(chunk) - HeaderLen

\* m_recvSeqNum after k chunks of the path.
SeqAfter(p, k) ==
    LET f[i \in 0..Len(rxPath[p])] ==
            IF i = 0 THEN recvSeq ELSE (f[i - 1] + Size(rxPath[p][i])) % SeqMod
    IN f[k]

\* HeadPacketSeqNum after k chunks: 0 stands for an empty buffer as well.
HeadPacketSeqNum(p, k) ==
    IF k = Len(rxPath[p]) THEN 0 ELSE rxNumber[p][k + 1]

\* The condition of the loop in PathRecvedData.
TakesNext(p, k) ==
    SeqAfter(p, k) = HeadPacketSeqNum(p, k) \/ HeadPacketSeqNum(p, k) # 0

\* Faulty variant: the chunks are taken from the back of the buffer.
Taken_Reversed(p, k) ==
    [i \in 1..k |-> [path |-> p, chunk |-> rxPath[p][k + 1 - i]]]

Taken(p, k) == [i \in 1..k |-> [path |-> p, chunk |-> rxPath[p][i]]]

\* The application's callback reads until the buffer is empty.
PathRecvedData ==
    /\ notices # <<>>
    /\ notices' = Tail(notices)
    /\ LET p == Head(notices)
           size == Len(rxPath[p])
       IN \E k \in 0..size :
            /\ \A j \in 0..(k - 1) : TakesNext(p, j)
            /\ k < size => ~TakesNext(p, k)
            /\ IF k = size /\ TakesNext(p, size)
               THEN /\ halted' = "assert"    \* NS_ASSERT_MSG(pack != nullptr)
                    /\ UNCHANGED <<rxPath, rxNumber, recvSeq, delivered>>
               ELSE /\ rxPath' = [rxPath EXCEPT ![p] = SubSeq(@, k + 1, size)]
                    /\ rxNumber' = [rxNumber EXCEPT ![p] = SubSeq(@, k + 1, Len(@))]
                    /\ recvSeq' = SeqAfter(p, k)
                    /\ delivered' = delivered \o Taken(p, k)
                    /\ UNCHANGED halted
    /\ UNCHANGED <<sendVars, pathVars, flight, lost>>

\* A TCP connection breaks.  PathCloseSucceeded or PathCloseFailed tells the
\* client's SinglePath; the server's path stays CONNECTED.
Break(p) ==
    /\ p \in Elems(paths) \ broken
    /\ Cardinality(broken) < MaxBreaks
    /\ broken' = broken \cup {p}
    /\ IF SenderIsClient
       THEN /\ sndState' = [sndState EXCEPT ![p] = "ERROR"]
            /\ UNCHANGED rcvState
       ELSE /\ rcvState' = [rcvState EXCEPT ![p] = "ERROR"]
            /\ UNCHANGED sndState
    /\ flight' = [flight EXCEPT ![p] = <<>>]
    /\ lost' = lost \cup {b \in Elems(flight[p]) : ~IsReply(b)}
    /\ UNCHANGED <<sendVars, paths, recvVars, halted>>

-----------------------------------------------------------------------------
Reception(p) ==
    \E n \in 1..(ReplyLen + MaxSends * MsgLen) :
        ProcessAnswer(p, n) \/ ProcessConnected(p, n) \/ HeaderCut(p, n)

Next ==
    /\ halted = "no"
    /\ \/ Send
       \/ SendData
       \/ PathRecvedData
       \/ \E p \in Path : AddOtherConnectPath(p) \/ Reception(p) \/ Break(p)

Spec == Init /\ [][Next]_vars

\* The simulator runs what is scheduled and TCP delivers what was sent.
Fairness ==
    /\ WF_vars(halted = "no" /\ SendData)
    /\ WF_vars(halted = "no" /\ PathRecvedData)
    /\ \A p \in Path : WF_vars(halted = "no" /\ Reception(p))

FairSpec == Spec /\ Fairness

-----------------------------------------------------------------------------
(* Properties.                                                             *)

\* The bytes of a sequence of chunks, in order.
Flatten(chunks) ==
    LET f[i \in 0..Len(chunks)] == IF i = 0 THEN <<>> ELSE f[i - 1] \o chunks[i]
    IN f[Len(chunks)]

DeliveredOn(S) ==
    Flatten([i \in DOMAIN delivered |->
               IF delivered[i].path \in S THEN delivered[i].chunk ELSE <<>>])

\* The bytes of a stream, without the server's answer.
Data(s) == Flatten([i \in DOMAIN s |-> IF IsReply(s[i]) THEN <<>> ELSE <<s[i]>>])

\* Everything of path p, the oldest first: read by the application, in the
\* path's buffer, in the stream.
OnPath(p) == DeliveredOn({p}) \o Flatten(rxPath[p]) \o Data(flight[p])

Increasing(s) == \A i, j \in DOMAIN s : i < j => s[i] < s[j]

\* A byte is in exactly one place: waiting, on one path, or dropped.  No
\* batch, break, join of a path or read that ends inside a message doubles a
\* byte or makes it vanish without a trace (SendData, ProcessJoinSent,
\* PathRecvedData).
BytesAccountedFor ==
    LET on == [p \in Path |-> Elems(OnPath(p))]
        waiting == Elems(Wire(txBuffer))
    IN \A b \in Bytes(sent) :
         LET places == {p \in Path : b \in on[p]}
         IN /\ Cardinality(places) <= 1
            /\ b \in waiting => places = {} /\ b \notin lost
            /\ b \in lost => places = {}
            /\ b \in waiting \/ b \in lost \/ places # {}

\* Each path by itself keeps the order in which the application sent and
\* delivers nothing twice, through reads of any size and repeated notices
\* (ProcessConnected, PathRecvedData).
PathsKeepOrder == \A p \in Path : Increasing(OnPath(p))

\* The round robin starves no path: while no path joins, fewer than two laps
\* of batches pass before a connected path has its turn, whatever
\* m_lastPathIndex held at first (ChoosePathRoundRobin).  One lap is not
\* enough: a path is met twice, and another late, where a negative index
\* becomes 0 or the index wraps around.
NoPathStarves ==
    \A p \in Elems(paths) :
        sndState[p] = "CONNECTED" => idle[p] < 2 * Len(paths) - 1

\* The bytes queued on a path whose first chunk reads as number 0, which
\* PathRecvedData takes for an empty buffer.
Stuck == UNION {Elems(Flatten(rxPath[p])) :
                  p \in {q \in Path : rxPath[q] # <<>> /\ rxNumber[q][1] = 0}}

\* Each byte of packet i is in the application's hands, dropped or stuck, or
\* an assertion has ended the program.
Settled(i) ==
    \/ i > sent \/ halted = "assert"
    \/ Bytes(i) \ Bytes(i - 1) \subseteq lost \cup Elems(DeliveredOn(Path)) \cup Stuck

\* Every byte reaches the application or is dropped, or a chunk that reads as
\* number 0 blocks its path: no other byte stays in a buffer for ever, and
\* the loops of SendData and PathRecvedData end.
BytesArrive == \A i \in 1..MaxSends : []<>Settled(i)

\* The receiver puts the data of all paths together in the order in which
\* it was sent ("Reassemble Data" in DataTransmission.puml).
DataReassembled == Increasing(DeliveredOn(Path))

\* SendData finds a path or returns ("No path to send.").
SendDataReturns == halted # "loop"
=============================================================================
