--------------------------------- MODULE Ccn ---------------------------------
(***************************************************************************)
(* Content centric networking over IP                                      *)
(* (src/internet/model/ccn-l4-protocol.cc, the content consumer, producer  *)
(* and header beside it, and the two applications that use them).          *)
(*                                                                         *)
(* A consumer sends one interest to the host its table gives for the name; *)
(* the producer there answers with its file in pieces, to the address in   *)
(* the pending interest table.  Packets of one sender to one receiver      *)
(* arrive in the order they were sent, or are lost; nothing is sent again. *)
(***************************************************************************)
EXTENDS Integers, Sequences, FiniteSets

CONSTANTS
    Node,
    NoNode,      \* Ipv4Address(): an address that no node has
    NodeName,    \* Names::FindName
    Consumer, ConsumerNode,
    Wanted,      \* the name a consumer asks for: a sequence of components
    Producer, ProducerNode,
    Path,        \* m_contentName of the CCNProducerApp
    FileSize,    \* bytes of the content file, or NoFile
    NoFile,
    HostTable,   \* m_contentPrefixToHostAddress, the same on every node
    NameLength,  \* characters of a name
    MaxName,     \* 20: m_name_length
    ChunkLen,    \* 16: the buffer of SendContentResponse
    MaxLosses    \* bound on lost packets

Name == {Wanted[c] : c \in Consumer}

ASSUME NodeAssumption ==
    /\ NoNode \notin Node
    /\ ConsumerNode \in [Consumer -> Node]
    /\ ProducerNode \in [Producer -> Node]
    /\ \A prefix \in DOMAIN HostTable : HostTable[prefix] \in Node
ASSUME NameAssumption ==
    /\ NodeName \in [Node -> STRING]
    /\ Wanted \in [Consumer -> Seq(STRING)]
    /\ Path \in [Producer -> Seq(STRING)]
ASSUME FileAssumption ==
    NoFile \notin Nat /\ FileSize \in [Producer -> Nat \cup {NoFile}]
ASSUME LengthAssumption ==
    /\ ChunkLen \in Nat \ {0} /\ MaxName \in Nat /\ MaxLosses \in Nat
    /\ NameLength \in [Name -> Nat]

VARIABLES
    consumers,  \* [Node]: m_contentConsumers
    producers,  \* [Node]: m_contentProducers
    pit,        \* [Node]: m_pendingInterestTable
    net,        \* [Node \X Node]: packets on the way
    received,   \* [Consumer]: what its callback was given
    aborted,    \* an assertion or an exception ended the program
    losses

vars == <<consumers, producers, pit, net, received, aborted, losses>>

Chunk == [by : Producer, offset : Nat, bytes : 0..ChunkLen]
Interest(name) == [type |-> "INTEREST", name |-> name]
Data(name, chunk) == [type |-> "DATA", name |-> name, chunk |-> chunk]
Packet == [type : {"INTEREST"}, name : Name]
             \cup [type : {"DATA"}, name : Name, chunk : Chunk]
Link == Node \X Node

TypeOK ==
    /\ consumers \in [Node -> Seq(Consumer)]
    /\ producers \in [Node -> Seq(Producer)]
    /\ pit \in [Node -> [Name -> Node \cup {NoNode}]]
    /\ net \in [Link -> Seq(Packet)]
    /\ received \in [Consumer -> Seq(Chunk)]
    /\ aborted \in BOOLEAN
    /\ losses \in Nat

Init ==
    /\ consumers = [n \in Node |-> <<>>]
    /\ producers = [n \in Node |-> <<>>]
    /\ pit = [n \in Node |-> [x \in Name |-> NoNode]]
    /\ net = [l \in Link |-> <<>>]
    /\ received = [c \in Consumer |-> <<>>]
    /\ aborted = FALSE
    /\ losses = 0

-----------------------------------------------------------------------------
(* Searches.                                                               *)

Elems(s) == {s[i] : i \in DOMAIN s}

\* The first member of sequence s that is in S, as a set that is empty if
\* there is none.
First(s, S) ==
    {s[i] : i \in {j \in DOMAIN s :
                      s[j] \in S /\ \A k \in 1..(j - 1) : s[k] \notin S}}

-----------------------------------------------------------------------------
(* Names.                                                                  *)

\* The name up to its k-th "/" is in the table; the last layer has no "/"
\* behind it, so the whole name is not looked up.
Known(name, k) == k < Len(name) /\ SubSeq(name, 1, k) \in DOMAIN HostTable

\* Faulty variant: the search stops at the first match.
GetHostAddressFromContentName_First(name) ==
    LET hostAddress[k \in 0..Len(name)] ==
            IF k = 0 THEN NoNode
            ELSE IF hostAddress[k - 1] # NoNode THEN hostAddress[k - 1]
            ELSE IF Known(name, k) THEN HostTable[SubSeq(name, 1, k)]
            ELSE NoNode
    IN hostAddress[Len(name)]

\* The loop goes from one "/" to the next; hostAddress[k] is the variable
\* after the k-th pass, which overwrites it when the prefix is in the table.
GetHostAddressFromContentName(name) ==
    LET hostAddress[k \in 0..Len(name)] ==
            IF k = 0 THEN NoNode
            ELSE IF Known(name, k) THEN HostTable[SubSeq(name, 1, k)]
            ELSE hostAddress[k - 1]
    IN hostAddress[Len(name)]

\* CCNHeader::Serialize asserts that the name fits.
TooLong(name) == NameLength[name] > MaxName

\* A name that fills the field arrives without a null character, and
\* erase(find('\0')) throws out_of_range.
Unterminated(name) == NameLength[name] = MaxName

ContentName(p) == <<NodeName[ProducerNode[p]]>> \o Path[p]

ProducersOf == [x \in Name |-> {p \in Producer : ContentName(p) = x}]
ConsumersOf == [x \in Name |-> {c \in Consumer : Wanted[c] = x}]

-----------------------------------------------------------------------------
(* The applications start.                                                 *)

\* CCNProducerApp::StartApplication.
StartProducer(p) ==
    LET n == ProducerNode[p] IN
    /\ p \notin Elems(producers[n])
    /\ producers' = [producers EXCEPT ![n] = Append(@, p)]
    /\ UNCHANGED <<consumers, pit, net, received, aborted, losses>>

\* An address that is not known is no null address either: the interest is
\* sent, and no node receives it.
SendInterest(c) ==
    LET host == GetHostAddressFromContentName(Wanted[c]) IN
    IF TooLong(Wanted[c])
    THEN aborted' = TRUE /\ UNCHANGED net
    ELSE /\ net' = IF host = NoNode THEN net
                   ELSE [net EXCEPT ![<<ConsumerNode[c], host>>] =
                                         Append(@, Interest(Wanted[c]))]
         /\ UNCHANGED aborted

\* CCNConsumerApp::StartApplication: a new consumer asks at once.
GetContent(c) ==
    LET n == ConsumerNode[c] IN
    /\ c \notin Elems(consumers[n])
    /\ consumers' = [consumers EXCEPT ![n] = Append(@, c)]
    /\ SendInterest(c)
    /\ UNCHANGED <<producers, pit, received, losses>>

-----------------------------------------------------------------------------
(* Packets arrive.                                                         *)

\* Faulty variant: a piece has the size of the buffer, not that of the read.
Chunks_WholeBuffer(p) ==
    [k \in 1..((FileSize[p] \div ChunkLen) + 1) |->
        [by |-> p, offset |-> (k - 1) * ChunkLen, bytes |-> ChunkLen]]

\* Faulty variant: the last piece is counted from the end of the buffer.
Chunks_OffByOne(p) ==
    [k \in 1..((FileSize[p] \div ChunkLen) + 1) |->
        [by |-> p, offset |-> (k - 1) * ChunkLen,
         bytes |-> IF k <= FileSize[p] \div ChunkLen THEN ChunkLen
                   ELSE FileSize[p] - k * ChunkLen]]

\* The reads until the end of the file shows: the last one comes short, and
\* is empty when the size is a multiple of the buffer.
Chunks(p) ==
    [k \in 1..((FileSize[p] \div ChunkLen) + 1) |->
        [by |-> p, offset |-> (k - 1) * ChunkLen,
         bytes |-> IF k <= FileSize[p] \div ChunkLen THEN ChunkLen
                   ELSE FileSize[p] % ChunkLen]]

\* SendContentResponse: a file that does not open is not answered.
SendContentResponse(p) ==
    IF FileSize[p] = NoFile THEN <<>>
    ELSE [k \in DOMAIN Chunks(p) |-> Data(ContentName(p), Chunks(p)[k])]

\* The first producer of the name on node n answers, and no other.
Answer(n, name) ==
    LET serving == First(producers[n], ProducersOf[name])
    IN IF serving = {} THEN <<>>
       ELSE SendContentResponse(CHOOSE p \in serving : TRUE)

\* The packet at the head of link in is taken, packets are sent on link out.
Forward(in, out, packets) ==
    net' = [l \in Link |-> (IF l = in THEN Tail(net[l]) ELSE net[l])
                              \o (IF l = out THEN packets ELSE <<>>)]

\* Faulty variant: an entry that is there already is kept.
Pending_Kept(n, name, s) ==
    IF pit[n][name] # NoNode THEN pit ELSE [pit EXCEPT ![n][name] = s]

\* The table as the new interest leaves it: the last asker is remembered.
Pending(n, name, s) == [pit EXCEPT ![n][name] = s]

\* The answer goes to the address that the table holds; there is no other
\* entry than that of this interest to be found.
HandleInterestPacket(s, n) ==
    /\ net[<<s, n>>] # <<>>
    /\ Head(net[<<s, n>>]).type = "INTEREST"
    /\ LET name == Head(net[<<s, n>>]).name
       IN IF Unterminated(name)
          THEN aborted' = TRUE /\ UNCHANGED <<pit, net>>
          ELSE /\ pit' = Pending(n, name, s)
               /\ Forward(<<s, n>>, <<n, pit'[n][name]>>, Answer(n, name))
               /\ UNCHANGED aborted
    /\ UNCHANGED <<consumers, producers, received, losses>>

\* The first consumer of the name on node n is notified, and no other.
Notified(n, name) == First(consumers[n], ConsumersOf[name])

\* The name is never unterminated here: the interest would have ended the
\* program.
HandleDataPacket(s, n) ==
    /\ net[<<s, n>>] # <<>>
    /\ Head(net[<<s, n>>]).type = "DATA"
    /\ Forward(<<s, n>>, <<s, n>>, <<>>)
    /\ LET m == Head(net[<<s, n>>])
           notified == Notified(n, m.name)
       IN received' = IF notified = {} THEN received
                      ELSE [received EXCEPT ![CHOOSE c \in notified : TRUE] =
                                Append(@, m.chunk)]
    /\ UNCHANGED <<consumers, producers, pit, aborted, losses>>

\* CCNL4Protocol::Receive.
Receive(s, n) == HandleInterestPacket(s, n) \/ HandleDataPacket(s, n)

\* A packet is dropped on the way.
Lose(l) ==
    /\ losses < MaxLosses
    /\ net[l] # <<>>
    /\ losses' = losses + 1
    /\ net' = [net EXCEPT ![l] = Tail(@)]
    /\ UNCHANGED <<consumers, producers, pit, received, aborted>>

-----------------------------------------------------------------------------
Next ==
    /\ ~aborted
    /\ \/ \E p \in Producer : StartProducer(p)
       \/ \E c \in Consumer : GetContent(c)
       \/ \E s, n \in Node : Receive(s, n)
       \/ \E l \in Link : Lose(l)

Spec == Init /\ [][Next]_vars

\* Packets that are not lost arrive.  The applications start when they like.
Fairness == \A s, n \in Node : WF_vars(~aborted /\ Receive(s, n))

FairSpec == Spec /\ Fairness
-----------------------------------------------------------------------------
(* Properties.                                                             *)

Asking(n, name) == {c \in Elems(consumers[n]) : Wanted[c] = name}

Here(n) == {c \in Consumer : ConsumerNode[c] = n}

\* The pieces that node n was given, or will be.
ChunksTo(n) ==
    (UNION {{m.chunk : m \in {x \in Elems(net[<<s, n>>]) : x.type = "DATA"}} :
               s \in Node})
       \cup (UNION {Elems(received[c]) : c \in Here(n)})

At(s, x) == {i \in DOMAIN s : s[i] = x}

\* How often node n was given the chunk, or will be.
Copies(n, chunk) ==
    LET data == Data(ContentName(chunk.by), chunk) IN
    Cardinality(UNION {{c} \X At(received[c], chunk) : c \in Here(n)})
      + Cardinality(UNION {{s} \X At(net[<<s, n>>], data) : s \in Node})

\* A consumer is given only the content it asked for, and a node receives a
\* piece of content at most once for each of its consumers that asked,
\* however the interests of several nodes cross in the one entry that the
\* pending interest table has for a name (HandleInterestPacket, SendData).
NoUnsolicitedData ==
    /\ \A c \in Consumer : \A i \in DOMAIN received[c] :
          ContentName(received[c][i].by) = Wanted[c]
    /\ \A n \in Node : \A chunk \in ChunksTo(n) :
          Copies(n, chunk) <= Cardinality(Asking(n, ContentName(chunk.by)))

Ends(chunk) == chunk.offset + chunk.bytes = FileSize[chunk.by]

\* Unless a packet is lost, the pieces a consumer is given lie end to end in
\* the file, whatever its size: the loop over file.eof() neither skips nor
\* invents a byte, and copies of the file do not mix.
ContentIntact ==
    losses = 0 => \A c \in Consumer : \A i \in DOMAIN received[c] :
        LET this == received[c][i]
            last == received[c][i - 1]
        IN \/ this.offset = 0 /\ (i > 1 => Ends(last))
           \/ i > 1 /\ this.offset = last.offset + last.bytes

\* The interest of a consumer is on its way and a producer of the content is
\* there, at the host that the longest prefix in the table names.
Reachable(c) ==
    /\ \E n \in Node : Interest(Wanted[c]) \in Elems(net[<<ConsumerNode[c], n>>])
    /\ \E p \in Producer :
          /\ p \in Elems(producers[ProducerNode[p]])
          /\ ContentName(p) = Wanted[c]
          /\ FileSize[p] # NoFile
          /\ \E k \in 1..(Len(Wanted[c]) - 1) :
                /\ SubSeq(Wanted[c], 1, k) \in DOMAIN HostTable
                /\ HostTable[SubSeq(Wanted[c], 1, k)] = ProducerNode[p]
                /\ \A j \in (k + 1)..(Len(Wanted[c]) - 1) :
                      SubSeq(Wanted[c], 1, j) \notin DOMAIN HostTable

Complete(c) == \E i \in DOMAIN received[c] : Ends(received[c][i])

IsFirst(c) == c \in Notified(ConsumerNode[c], Wanted[c])

\* The first consumer of a name on a node is given all of a content that a
\* running producer has, unless a packet is lost or a name aborts the program.
FirstAskerGetsContent ==
    \A c \in Consumer :
        Reachable(c) /\ IsFirst(c) ~> Complete(c) \/ losses > 0 \/ aborted

\* README: "the network is responsible for delivering that data to the
\* requester", to every consumer that asked and not just to the first.
RequesterGetsData ==
    \A c \in Consumer :
        Reachable(c) /\ c \in Elems(consumers[ConsumerNode[c]])
           ~> Complete(c) \/ losses > 0 \/ aborted
=============================================================================
