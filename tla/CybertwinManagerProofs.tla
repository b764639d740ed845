----------------------- MODULE CybertwinManagerProofs -----------------------
(***************************************************************************)
(* Proofs about CybertwinManager, for any number of hosts, names and       *)
(* addresses, any number of ports and any hash of the names.               *)
(***************************************************************************)
EXTENDS CybertwinManager, FiniteSetTheorems, TLAPS

-----------------------------------------------------------------------------
(* The search for free ports (AssignInterfaces).                           *)

\* The steps that end a search are finitely many.
LEMMA StopsFinite ==
    ASSUME NEW last, NEW used, NEW n \in Nat
    PROVE  /\ IsFiniteSet(Stops(last, used, n))
           /\ Cardinality(Stops(last, used, n)) \in Nat
<1>1. IsFiniteSet(0..(n - 1))
  BY FS_Interval
<1>2. Stops(last, used, n) \subseteq 0..(n - 1)
  BY DEF Stops
<1> QED
  BY <1>1, <1>2, FS_Subset, FS_CardinalityType

\* A longer search has at least as many ends.
LEMMA StopsGrow ==
    ASSUME NEW last, NEW used, NEW m \in Nat, NEW n \in Nat, m <= n
    PROVE  Cardinality(Stops(last, used, m)) <= Cardinality(Stops(last, used, n))
<1>1. Stops(last, used, m) \subseteq Stops(last, used, n)
  BY DEF Stops
<1>2. IsFiniteSet(Stops(last, used, n))
  BY StopsFinite
<1> QED
  BY <1>1, <1>2, FS_Subset

\* ... and more, if the counter passes an end.
LEMMA StopsGrowStrictly ==
    ASSUME NEW last, NEW used, NEW k \in Nat, NEW n \in Nat, k < n,
           LeavesOff(PortAfter(last, k), used)
    PROVE  Cardinality(Stops(last, used, k)) < Cardinality(Stops(last, used, n))
<1> DEFINE S == Stops(last, used, n)
           T == Stops(last, used, k)
<1>1. k \in S
  BY DEF Stops
<1>2. T \in SUBSET (S \ {k})
  BY DEF Stops
<1>3. IsFiniteSet(S) /\ Cardinality(S) \in Nat
  BY StopsFinite
<1> HIDE DEF S, T
<1>4. IsFiniteSet(S \ {k}) /\ Cardinality(S \ {k}) = Cardinality(S) - 1
  BY <1>1, <1>3, FS_RemoveElement
<1>5. IsFiniteSet(T) /\ Cardinality(T) <= Cardinality(S \ {k})
  BY <1>2, <1>4, FS_Subset
<1>6. Cardinality(T) \in Nat
  BY <1>5, FS_CardinalityType
<1>7. Cardinality(T) < Cardinality(S)
  BY <1>3, <1>4, <1>5, <1>6
<1> QED
  BY <1>7 DEF S, T

\* How many ends of a search there are in a round of the counter.
Ends(last, used) == Cardinality(Stops(last, used, PortMod))

IsStop(last, used, i, k) ==
    /\ k \in 0..(PortMod - 1)
    /\ LeavesOff(PortAfter(last, k), used)
    /\ Cardinality(Stops(last, used, k)) = i - 1

\* Every address up to the last end finds one: counting the ends maps them
\* onto the numbers from 0 on.
LEMMA StopExists ==
    ASSUME NEW last, NEW used, NEW i \in 1..Ends(last, used)
    PROVE  IsStop(last, used, i, Stop(last, used, i))
<1> DEFINE S == Stops(last, used, PortMod)
           n == Cardinality(S)
           f == [k \in S |-> Cardinality(Stops(last, used, k))]
<1>1. PortMod \in Nat
  BY PortAssumption
<1>2. IsFiniteSet(S) /\ n \in Nat /\ i \in 1..n
  BY <1>1, StopsFinite DEF Ends
<1>3. \A k \in S : k \in Nat /\ k < PortMod /\ LeavesOff(PortAfter(last, k), used)
  BY <1>1 DEF Stops
<1>4. \A k \in S : f[k] \in 0..(n - 1)
  <2>1. SUFFICES ASSUME NEW k \in S
                 PROVE  Cardinality(Stops(last, used, k)) \in 0..(n - 1)
    OBVIOUS
  <2>2. Cardinality(Stops(last, used, k)) < n
    BY <1>1, <1>3, StopsGrowStrictly
  <2>3. Cardinality(Stops(last, used, k)) \in Nat
    BY <1>3, StopsFinite
  <2> QED
    BY <1>2, <2>2, <2>3
<1>5. \A k, m \in S : k < m => f[k] # f[m]
  <2>1. SUFFICES ASSUME NEW k \in S, NEW m \in S, k < m
                 PROVE  Cardinality(Stops(last, used, k)) # Cardinality(Stops(last, used, m))
    OBVIOUS
  <2>2. Cardinality(Stops(last, used, k)) < Cardinality(Stops(last, used, m))
    BY <1>3, <2>1, StopsGrowStrictly
  <2>3. Cardinality(Stops(last, used, k)) \in Nat
    BY <1>3, StopsFinite
  <2> QED
    BY <2>2, <2>3
<1>6. f \in Injection(S, 0..(n - 1))
  <2>1. f \in [S -> 0..(n - 1)]
    BY <1>4
  <2>2. \A k, m \in S : f[k] = f[m] => k = m
    BY <1>3, <1>5
  <2> QED
    BY <2>1, <2>2 DEF Injection, IsInjective
<1>7. IsFiniteSet(0..(n - 1)) /\ Cardinality(0..(n - 1)) = n
  <2>1. 0 \in Int /\ n - 1 \in Int /\ n >= 1
    BY <1>2
  <2> HIDE DEF n
  <2>2. /\ IsFiniteSet(0..(n - 1))
        /\ Cardinality(0..(n - 1)) = IF 0 > n - 1 THEN 0 ELSE n - 1 - 0 + 1
    BY <2>1, FS_Interval
  <2> QED
    BY <1>2, <2>1, <2>2
<1>8. f \in Surjection(S, 0..(n - 1))
  <2> HIDE DEF f, S
  <2> QED
    BY <1>6, <1>7, FS_Injection
<1>9. \E k \in S : f[k] = i - 1
  <2>1. i - 1 \in 0..(n - 1)
    BY <1>2
  <2> HIDE DEF f, S
  <2> QED
    BY <1>8, <2>1 DEF Surjection
<1>10. \E k \in 0..(PortMod - 1) : IsStop(last, used, i, k)
  BY <1>1, <1>3, <1>9 DEF IsStop
<1> QED
  BY <1>10 DEF Stop, IsStop

\* The ends of the searches follow each other, and no end is passed over.
LEMMA StopsInOrder ==
    ASSUME NEW last, NEW used,
           NEW i \in 1..Ends(last, used), NEW j \in 1..Ends(last, used), i < j
    PROVE  Stop(last, used, i) < Stop(last, used, j)
<1> DEFINE k == Stop(last, used, i)
           m == Stop(last, used, j)
<1>1. IsStop(last, used, i, k) /\ IsStop(last, used, j, m)
  BY StopExists
<1> HIDE DEF k, m
<1>2. k \in Nat /\ m \in Nat /\ PortMod \in Nat
  BY <1>1, PortAssumption DEF IsStop
<1>3. Ends(last, used) \in Nat
  BY <1>2, StopsFinite DEF Ends
<1>4. ~(m <= k)
  <2>1. m <= k => Cardinality(Stops(last, used, m)) <= Cardinality(Stops(last, used, k))
    BY <1>2, StopsGrow
  <2> QED
    BY <1>1, <1>3, <2>1 DEF IsStop
<1>5. k < m
  BY <1>2, <1>4
<1> QED
  BY <1>5 DEF k, m

\* The search passes no stop: a port before the i-th stop at which AssignInterfaces
\* leaves the loop is an earlier stop.
LEMMA NoStopPassed ==
    ASSUME NEW last, NEW used, NEW i \in 1..Ends(last, used),
           NEW k \in 0..(PortMod - 1), LeavesOff(PortAfter(last, k), used),
           k < Stop(last, used, i)
    PROVE  \E j \in 1..Ends(last, used) : j < i /\ Stop(last, used, j) = k
<1> DEFINE m == Stop(last, used, i)
           j == Cardinality(Stops(last, used, k)) + 1
           l == Stop(last, used, j)
<1>1. IsStop(last, used, i, m)
  BY StopExists
<1>2. k \in Nat /\ m \in Nat /\ PortMod \in Nat
  BY <1>1, PortAssumption DEF IsStop
<1>3. Ends(last, used) \in Nat
  BY <1>2, StopsFinite DEF Ends
<1>4. Cardinality(Stops(last, used, k)) \in Nat
  BY <1>2, StopsFinite
<1>5. Cardinality(Stops(last, used, k)) < i - 1
  <2>1. Cardinality(Stops(last, used, k)) < Cardinality(Stops(last, used, m))
    BY <1>2, StopsGrowStrictly
  <2> QED
    BY <1>1, <2>1 DEF IsStop
<1>6. j \in 1..Ends(last, used) /\ j < i
  BY <1>3, <1>4, <1>5
<1>7. IsStop(last, used, j, l)
  BY <1>6, StopExists
<1>8. l \in Nat /\ LeavesOff(PortAfter(last, l), used)
      /\ Cardinality(Stops(last, used, l)) = Cardinality(Stops(last, used, k))
  <2>1. Cardinality(Stops(last, used, l)) = j - 1
    BY <1>7 DEF IsStop
  <2>2. l \in Nat /\ LeavesOff(PortAfter(last, l), used)
    BY <1>2, <1>7 DEF IsStop
  <2> QED
    BY <1>4, <2>1, <2>2
<1>9. ~(l < k) /\ ~(k < l)
  <2>1. l < k => Cardinality(Stops(last, used, l)) < Cardinality(Stops(last, used, k))
    BY <1>2, <1>8, StopsGrowStrictly
  <2>2. k < l => Cardinality(Stops(last, used, k)) < Cardinality(Stops(last, used, l))
    BY <1>2, <1>8, StopsGrowStrictly
  <2> QED
    BY <1>4, <1>8, <2>1, <2>2
<1>10. l = k
  BY <1>2, <1>8, <1>9
<1> QED
  BY <1>6, <1>10

\* What a % b is while a is less than b, and that it is less than b.
LEMMA Remainder ==
    ASSUME NEW b \in Nat, b >= 2, NEW a \in Nat
    PROVE  /\ a % b \in 0..(b - 1)
           /\ a < b => a % b = a
  OBVIOUS

\* The interfaces of a new Cybertwin are one port each for a first part of
\* the addresses.
LEMMA FoundPorts ==
    ASSUME NEW last, NEW used
    PROVE  \E z \in Nat :
              /\ z <= Ends(last, used)
              /\ Candidates(last, used)
                    = [i \in 1..z |-> PortAfter(last, Stop(last, used, i))]
<1>1. GlobalAddrs \in Nat /\ Ends(last, used) \in Nat
  BY PortAssumption, StopsFinite DEF Ends
<1> QED
  BY <1>1 DEF Candidates, Ends

\* AssignInterfaces returns ports, and the ports it marks as used are ports.
LEMMA AssignTypes ==
    ASSUME NEW last \in Port, NEW used \in SUBSET Port
    PROVE  /\ AssignInterfaces(last, used).ifs \in Seq(Port)
           /\ AssignInterfaces(last, used).used \in SUBSET Port
           /\ AssignInterfaces(last, used).last \in Port
           /\ AssignInterfaces(last, used).fatal \in BOOLEAN
<1> DEFINE found == Candidates(last, used)
<1>1. PICK z \in Nat : /\ z <= Ends(last, used)
                       /\ found = [i \in 1..z |-> PortAfter(last, Stop(last, used, i))]
  BY FoundPorts
<1>2. PortMod \in Nat /\ PortMod >= 2 /\ Ends(last, used) \in Nat
  BY PortAssumption, StopsFinite DEF Ends
<1>3. ASSUME NEW i \in 1..z
      PROVE  PortAfter(last, Stop(last, used, i)) \in Port
  <2>1. IsStop(last, used, i, Stop(last, used, i))
    BY <1>1, <1>2, StopExists
  <2>2. last \in Nat /\ Stop(last, used, i) \in Nat
    BY <1>2, <2>1 DEF IsStop, Port
  <2>3. last + Stop(last, used, i) \in Nat
    BY <2>2
  <2> QED
    BY <1>2, <2>3, Remainder DEF PortAfter, Port
<1>4. found \in Seq(Port) /\ Len(found) = z /\ DOMAIN found = 1..z
  BY <1>1, <1>3
<1>5. found # <<>> => (found[Len(found)] + 1) % PortMod \in Port
  <2>1. SUFFICES ASSUME found # <<>>
                 PROVE  (found[Len(found)] + 1) % PortMod \in Port
    OBVIOUS
  <2> HIDE DEF found
  <2>2. z >= 1
    BY <1>4, <2>1
  <2>3. found[z] \in Port
    BY <1>4, <2>2
  <2>4. found[z] + 1 \in Nat
    BY <1>2, <2>3 DEF Port
  <2> QED
    BY <1>2, <1>4, <2>4, Remainder DEF Port
<1> HIDE DEF found
<1>6. /\ AssignInterfaces(last, used).ifs = found
      /\ AssignInterfaces(last, used).used = used \cup {found[i] : i \in DOMAIN found}
      /\ AssignInterfaces(last, used).last =
            IF found = <<>> THEN last ELSE (found[Len(found)] + 1) % PortMod
      /\ AssignInterfaces(last, used).fatal =
            (PortMod - 2 \in {found[i] : i \in DOMAIN found})
  BY DEF AssignInterfaces, found
<1> QED
  BY <1>4, <1>5, <1>6

\* Below 65535 the search hands out ports in increasing order and leaves the
\* counter behind the last of them.
LEMMA AssignOrder ==
    ASSUME NEW last \in Port, last < PortMod - 1, NEW used,
           ~AssignInterfaces(last, used).fatal,
           NEW ifs, ifs = AssignInterfaces(last, used).ifs
    PROVE  /\ AssignInterfaces(last, used).last >= last
           /\ \A i \in DOMAIN ifs : /\ ifs[i] >= last
                                    /\ ifs[i] < AssignInterfaces(last, used).last
           /\ \A i, j \in DOMAIN ifs : i < j => ifs[i] < ifs[j]
<1> DEFINE found == Candidates(last, used)
           next == AssignInterfaces(last, used).last
           st(i) == Stop(last, used, i)
<1>1. PICK z \in Nat : /\ z <= Ends(last, used)
                       /\ found = [i \in 1..z |-> PortAfter(last, st(i))]
  BY FoundPorts
<1>2. PortMod \in Nat /\ PortMod >= 2 /\ Ends(last, used) \in Nat /\ last \in Nat
  BY PortAssumption, StopsFinite DEF Ends, Port
<1>3. /\ ifs = found /\ DOMAIN found = 1..z /\ Len(found) = z
      /\ next = IF found = <<>> THEN last ELSE (found[Len(found)] + 1) % PortMod
      /\ \A i \in 1..z : found[i] # PortMod - 2
  <2>1. DOMAIN found = 1..z /\ Len(found) = z
    BY <1>1
  <2> QED
    BY <2>1 DEF AssignInterfaces
<1>4. \A i \in 1..z : /\ IsStop(last, used, i, st(i))
                      /\ st(i) \in 0..(PortMod - 1)
  BY <1>1, <1>2, StopExists DEF IsStop
<1>5. \A i, j \in 1..z : i < j => st(i) < st(j)
  BY <1>1, <1>2, StopsInOrder
<1>6. ASSUME NEW k \in Nat, last + k < PortMod
      PROVE  PortAfter(last, k) = last + k
  <2>1. last + k \in Nat
    BY <1>2, <1>6
  <2> QED
    BY <1>2, <1>6, <2>1, Remainder DEF PortAfter
<1>7. ASSUME NEW i \in 1..z
      PROVE  last + st(i) < PortMod - 2
  <2> DEFINE k == (PortMod - 2) - last
  <2>1. k \in 0..(PortMod - 1) /\ k \in Nat /\ PortAfter(last, k) = PortMod - 2
    BY <1>2, <1>6
  <2>2. LeavesOff(PortAfter(last, k), used)
    BY <2>1 DEF LeavesOff
  <2>3. \A j \in 1..z : st(j) # k
    BY <1>1, <1>3, <2>1
  <2>4. ~(k < st(i))
    <3>1. SUFFICES ASSUME k < st(i) PROVE FALSE
      OBVIOUS
    <3>2. PICK j \in 1..Ends(last, used) : j < i /\ st(j) = k
      <4>1. i \in 1..Ends(last, used)
        BY <1>1, <1>2
      <4> HIDE DEF k
      <4> QED
        BY <2>1, <2>2, <3>1, <4>1, NoStopPassed
    <3> QED
      BY <1>1, <1>2, <2>3, <3>2
  <2> QED
    BY <1>2, <1>4, <2>3, <2>4
<1>8. \A i \in 1..z : found[i] = last + st(i)
  <2>1. SUFFICES ASSUME NEW i \in 1..z
                 PROVE  PortAfter(last, st(i)) = last + st(i)
    BY <1>1
  <2>2. st(i) \in Nat /\ last + st(i) < PortMod
    BY <1>2, <1>4, <1>7
  <2> HIDE DEF st
  <2> QED
    BY <1>6, <2>2
<1> HIDE DEF found, next, st
<1>9. CASE z = 0
  <2>1. found = <<>>
    BY <1>1, <1>9
  <2> QED
    BY <1>2, <1>3, <1>9, <2>1 DEF next
<1>10. CASE z # 0
  <2>1. z \in 1..z /\ found # <<>>
    BY <1>3, <1>10
  <2>2. found[z] + 1 \in Nat /\ found[z] + 1 < PortMod
    BY <1>2, <1>4, <1>7, <1>8, <2>1
  <2>3. next = found[z] + 1
    BY <1>2, <1>3, <2>1, <2>2, Remainder
  <2>4. \A i \in 1..z : st(i) <= st(z)
    BY <1>4, <1>5, <2>1
  <2>5. \A i \in 1..z : found[i] >= last /\ found[i] < next
    BY <1>2, <1>4, <1>8, <2>1, <2>3, <2>4
  <2>6. \A i, j \in 1..z : i < j => found[i] < found[j]
    BY <1>2, <1>4, <1>5, <1>8
  <2>7. next >= last
    BY <1>2, <1>4, <1>8, <2>1, <2>3
  <2> QED
    BY <1>3, <2>5, <2>6, <2>7 DEF next
<1> QED
  BY <1>9, <1>10

-----------------------------------------------------------------------------
(* Types.                                                                  *)

\* What a read leaves of a queue is its tail, and its head was there.
LEMMA RestOfQueue ==
    ASSUME NEW S, NEW q \in Seq(S), NEW n, Chunk(q, n)
    PROVE  /\ Rest(q, n) \in Seq(S)
           /\ DOMAIN Rest(q, n) = 1..(Len(q) - n)
           /\ \A i \in DOMAIN Rest(q, n) : /\ i + n \in DOMAIN q
                                           /\ Rest(q, n)[i] = q[i + n]
           /\ 1 \in DOMAIN q /\ Head(q) = q[1] /\ Head(q) \in S
           /\ n \in Nat /\ n >= 1
<1>1. Len(q) \in Nat /\ n \in 1..Len(q) /\ DOMAIN q = 1..Len(q)
  BY DEF Chunk
<1>2. \A i \in 1..Len(q) : q[i] \in S
  OBVIOUS
<1>3. 1 \in DOMAIN q /\ Head(q) = q[1] /\ Head(q) \in S
  BY <1>1, <1>2
<1>4. /\ Rest(q, n) \in Seq(S)
      /\ DOMAIN Rest(q, n) = 1..(Len(q) - n)
      /\ \A i \in DOMAIN Rest(q, n) : Rest(q, n)[i] = q[i + n]
  BY <1>1, <1>2 DEF Rest
<1> QED
  BY <1>1, <1>3, <1>4

\* The members of a queue that was appended to.
LEMMA AppendQueue ==
    ASSUME NEW S, NEW q \in Seq(S), NEW e \in S
    PROVE  /\ Append(q, e) \in Seq(S)
           /\ DOMAIN q = 1..Len(q) /\ Len(q) \in Nat
           /\ DOMAIN Append(q, e) = 1..(Len(q) + 1)
           /\ Append(q, e)[Len(q) + 1] = e
           /\ \A i \in DOMAIN q : Append(q, e)[i] = q[i]
  OBVIOUS

\* Init is well typed.
LEMMA InitTypeOK == Init => TypeOK
<1> SUFFICES ASSUME Init PROVE TypeOK
  OBVIOUS
<1>1. FirstPort \in Port /\ 0 \in Nat
  BY PortAssumption DEF Port
<1>2. /\ conn \in [Host -> {"connecting", "connected", "failed", "closed"}]
      /\ timer \in [Host -> BOOLEAN] /\ registered \in [Host -> BOOLEAN]
      /\ hostTwin \in [Host -> [cuid : Cuid, port : Port] \cup {NoTwin}]
      /\ fatal \in BOOLEAN /\ commands \in Nat /\ destroyed \in [Cuid -> Nat]
  BY DEF Init
<1>3. /\ toManager \in [Host -> Seq(Request)] /\ toHost \in [Host -> Seq(Reply)]
      /\ published \in [Cuid -> Seq(Port)] /\ twins \in Seq(Twin)
  BY DEF Init
<1>4. table \subseteq Cuid /\ lastPort \in Port /\ assigned \subseteq Port
  BY <1>1 DEF Init
<1> QED
  BY <1>2, <1>3, <1>4 DEF TypeOK

\* A message sent by the manager, one read from its queue.
LEMMA SendTypes ==
    ASSUME TypeOK, NEW h \in Host, NEW n, Chunk(toManager[h], n),
           NEW reply \in Reply, Send(h, n, reply)
    PROVE  /\ toManager' \in [Host -> Seq(Request)]
           /\ toHost' \in [Host -> Seq(Reply)]
<1>1. toManager \in [Host -> Seq(Request)] /\ toHost \in [Host -> Seq(Reply)]
  BY DEF TypeOK
<1>2. toManager[h] \in Seq(Request) /\ toHost[h] \in Seq(Reply)
  BY <1>1
<1>3. Rest(toManager[h], n) \in Seq(Request)
  BY <1>2, RestOfQueue
<1>4. Append(toHost[h], reply) \in Seq(Reply)
  BY <1>2
<1> QED
  BY <1>1, <1>3, <1>4 DEF Send

\* The three ways to answer a request.
LEMMA ReplyTypes ==
    ASSUME NEW name \in Name
    PROVE  /\ \A c \in Results : Result(c, name) \in Reply
           /\ \A port \in Port : RegistrationAck(name, port) \in Reply
           /\ CuidOf[name] \in Cuid
<1>1. CuidOf[name] \in Cuid
  BY NamesAssumption
<1> QED
  BY <1>1 DEF Result, RegistrationAck, Reply

\* CreateCybertwin with its parts named: a is what AssignInterfaces found.
LEMMA Created ==
    ASSUME NEW h, NEW n, NEW name, CreateCybertwin(h, n, name)
    PROVE  \E a : /\ a = AssignInterfaces((lastPort + 1) % PortMod, assigned)
                  /\ lastPort' = a.last /\ assigned' = a.used /\ fatal' = a.fatal
                  /\ a.fatal => UNCHANGED <<table, twins, toManager, toHost>>
                  /\ ~a.fatal =>
                        /\ table' = table \cup {CuidOf[name]}
                        /\ twins' = Append(twins,
                              [cuid |-> CuidOf[name], local |-> lastPort,
                               globals |-> a.ifs, started |-> FALSE])
                        /\ Send(h, n, RegistrationAck(name, lastPort))
  BY DEF CreateCybertwin, netVars

\* Creating a twin keeps the types of what the manager holds and of the messages.
LEMMA CreateTypes ==
    ASSUME TypeOK, NEW h \in Host, NEW n, Chunk(toManager[h], n), NEW name \in Name,
           CreateCybertwin(h, n, name)
    PROVE  /\ toManager' \in [Host -> Seq(Request)] /\ toHost' \in [Host -> Seq(Reply)]
           /\ table' \subseteq Cuid /\ twins' \in Seq(Twin) /\ lastPort' \in Port
           /\ assigned' \subseteq Port /\ fatal' \in BOOLEAN
<1>1. PICK a : /\ a = AssignInterfaces((lastPort + 1) % PortMod, assigned)
               /\ lastPort' = a.last /\ assigned' = a.used /\ fatal' = a.fatal
               /\ a.fatal => UNCHANGED <<table, twins, toManager, toHost>>
               /\ ~a.fatal =>
                     /\ table' = table \cup {CuidOf[name]}
                     /\ twins' = Append(twins,
                           [cuid |-> CuidOf[name], local |-> lastPort,
                            globals |-> a.ifs, started |-> FALSE])
                     /\ Send(h, n, RegistrationAck(name, lastPort))
  BY Created
<1>2. /\ lastPort \in Port /\ assigned \in SUBSET Port /\ table \subseteq Cuid
      /\ twins \in Seq(Twin) /\ toManager \in [Host -> Seq(Request)]
      /\ toHost \in [Host -> Seq(Reply)]
  BY DEF TypeOK
<1>3. PortMod \in Nat /\ PortMod >= 2 /\ lastPort + 1 \in Nat
  BY <1>2, PortAssumption DEF Port
<1>4. (lastPort + 1) % PortMod \in Port
  BY <1>3, Remainder DEF Port
<1>5. a.ifs \in Seq(Port) /\ a.used \in SUBSET Port /\ a.last \in Port /\ a.fatal \in BOOLEAN
  BY <1>1, <1>2, <1>4, AssignTypes
<1>6. CuidOf[name] \in Cuid /\ RegistrationAck(name, lastPort) \in Reply
  BY <1>2, ReplyTypes
<1>7. CASE a.fatal
  BY <1>1, <1>2, <1>5, <1>7
<1>8. CASE ~a.fatal
  <2>1. toManager' \in [Host -> Seq(Request)] /\ toHost' \in [Host -> Seq(Reply)]
    BY <1>1, <1>6, <1>8, SendTypes
  <2> DEFINE t == [cuid |-> CuidOf[name], local |-> lastPort,
                   globals |-> a.ifs, started |-> FALSE]
  <2>2. t \in Twin
    BY <1>2, <1>5, <1>6 DEF Twin
  <2>3. twins' = Append(twins, t)
    BY <1>1, <1>8
  <2> HIDE DEF t
  <2>4. twins' \in Seq(Twin)
    BY <1>2, <2>2, <2>3
  <2> QED
    BY <1>1, <1>2, <1>5, <1>6, <1>8, <2>1, <2>4
<1> QED
  BY <1>7, <1>8

\* The manager handles the first request of what it read, by its command.
LEMMA Handled ==
    ASSUME TypeOK, NEW h \in Host, NEW n, ReceiveFromHost(h, n)
    PROVE  /\ Chunk(toManager[h], n) /\ UNCHANGED <<hostVars, commands>>
           /\ Head(toManager[h]).name \in Name
           /\ \/ HandleCybertwinRegistration(h, n, Head(toManager[h]).name)
              \/ HandleCybertwinDestruction(h, n, Head(toManager[h]).name)
              \/ HandleCybertwinReconnect(h, n, Head(toManager[h]).name)
<1>1. Chunk(toManager[h], n) /\ UNCHANGED <<hostVars, commands>>
  BY DEF ReceiveFromHost
<1>2. toManager[h] \in Seq(Request)
  BY DEF TypeOK
<1>3. Head(toManager[h]) \in Request
  BY <1>1, <1>2, RestOfQueue
<1>4. /\ Head(toManager[h]).command \in {"REGISTRATION", "DESTRUCTION", "RECONNECT"}
      /\ Head(toManager[h]).name \in Name
  BY <1>3 DEF Request, Commands
<1> QED
  BY <1>1, <1>4 DEF ReceiveFromHost

\* What the host does with the first reply of what it read.
LEMMA Answered ==
    ASSUME TypeOK, NEW h \in Host, NEW n, RecvFromCybertwinManager(h, n)
    PROVE  /\ Chunk(toHost[h], n) /\ toHost' = [toHost EXCEPT ![h] = Rest(@, n)]
           /\ UNCHANGED <<conn, timer, toManager, managerVars, commands>>
           /\ \/ UNCHANGED <<registered, hostTwin>>
              \/ /\ Head(toHost[h]).command = "REGISTRATION_ACK"
                 /\ RegisterSuccessHandler(h, Head(toHost[h]))
  BY DEF RecvFromCybertwinManager, RegisterFailureHandler

\* The manager's ReceiveFromHost keeps the types, whatever the request is.
LEMMA ReceiveTypes ==
    ASSUME TypeOK, NEW h \in Host, NEW n, ReceiveFromHost(h, n)
    PROVE  TypeOK'
<1> DEFINE name == Head(toManager[h]).name
<1>1. /\ Chunk(toManager[h], n) /\ UNCHANGED <<hostVars, commands>> /\ name \in Name
      /\ \/ HandleCybertwinRegistration(h, n, name)
         \/ HandleCybertwinDestruction(h, n, name)
         \/ HandleCybertwinReconnect(h, n, name)
  BY Handled
<1> HIDE DEF name
<1>2. CuidOf[name] \in Cuid /\ \A c \in Results : Result(c, name) \in Reply
  BY <1>1, ReplyTypes
<1>3. ASSUME NEW c \in Results, Send(h, n, Result(c, name))
      PROVE  toManager' \in [Host -> Seq(Request)] /\ toHost' \in [Host -> Seq(Reply)]
  BY <1>1, <1>2, <1>3, SendTypes
<1>4. CASE HandleCybertwinRegistration(h, n, name)
  <2>1. UNCHANGED <<published, destroyed>>
    BY <1>4 DEF HandleCybertwinRegistration
  <2>2. CASE CuidOf[name] \in table
    <3>1. /\ Send(h, n, Result("REGISTRATION_ERROR", name))
          /\ UNCHANGED <<table, twins, lastPort, assigned, fatal>>
      BY <1>4, <2>2 DEF HandleCybertwinRegistration, portVars
    <3>2. toManager' \in [Host -> Seq(Request)] /\ toHost' \in [Host -> Seq(Reply)]
      BY <1>3, <3>1 DEF Results
    <3> QED
      BY <1>1, <2>1, <3>1, <3>2 DEF TypeOK, hostVars
  <2>3. CASE CuidOf[name] \notin table
    <3>1. CreateCybertwin(h, n, name)
      BY <1>4, <2>3 DEF HandleCybertwinRegistration
    <3>2. /\ toManager' \in [Host -> Seq(Request)] /\ toHost' \in [Host -> Seq(Reply)]
          /\ table' \subseteq Cuid /\ twins' \in Seq(Twin) /\ lastPort' \in Port
          /\ assigned' \subseteq Port /\ fatal' \in BOOLEAN
      BY <1>1, <3>1, CreateTypes
    <3> QED
      BY <1>1, <2>1, <3>2 DEF TypeOK, hostVars
  <2> QED
    BY <2>2, <2>3
<1>5. CASE HandleCybertwinDestruction(h, n, name)
  <2>1. /\ table' = table \ {CuidOf[name]}
        /\ UNCHANGED <<twins, lastPort, assigned, published, fatal>>
    BY <1>5 DEF HandleCybertwinDestruction, portVars
  <2>2. \E c \in Results : Send(h, n, Result(c, name))
    BY <1>5 DEF HandleCybertwinDestruction, Results
  <2>3. toManager' \in [Host -> Seq(Request)] /\ toHost' \in [Host -> Seq(Reply)]
    BY <1>3, <2>2
  <2>4. destroyed \in [Cuid -> Nat]
    BY DEF TypeOK
  <2>5. destroyed' \in [Cuid -> Nat]
    BY <1>2, <1>5, <2>4 DEF HandleCybertwinDestruction
  <2> QED
    BY <1>1, <2>1, <2>3, <2>5 DEF TypeOK, hostVars
<1>6. CASE HandleCybertwinReconnect(h, n, name)
  <2>1. UNCHANGED <<table, twins, lastPort, assigned, published, fatal, destroyed>>
    BY <1>6 DEF HandleCybertwinReconnect, portVars
  <2>2. \E c \in Results : Send(h, n, Result(c, name))
    BY <1>6 DEF HandleCybertwinReconnect, Results
  <2>3. toManager' \in [Host -> Seq(Request)] /\ toHost' \in [Host -> Seq(Reply)]
    BY <1>3, <2>2
  <2> QED
    BY <1>1, <2>1, <2>3 DEF TypeOK, hostVars
<1> QED
  BY <1>1, <1>4, <1>5, <1>6

\* An acknowledgement gives the host an id and a port.
LEMMA AckFields ==
    ASSUME NEW r \in Reply, r.command = "REGISTRATION_ACK"
    PROVE  r.cuid \in Cuid /\ r.port \in Port /\ r.name \in Name
  BY DEF Reply, Results

\* A host that reads the manager's answer keeps the types.
LEMMA AnswerTypes ==
    ASSUME TypeOK, NEW h \in Host, NEW n, RecvFromCybertwinManager(h, n)
    PROVE  TypeOK'
<1>1. /\ Chunk(toHost[h], n) /\ toHost' = [toHost EXCEPT ![h] = Rest(@, n)]
      /\ UNCHANGED <<conn, timer, toManager, managerVars, commands>>
      /\ \/ UNCHANGED <<registered, hostTwin>>
         \/ /\ Head(toHost[h]).command = "REGISTRATION_ACK"
            /\ RegisterSuccessHandler(h, Head(toHost[h]))
  BY Answered
<1>2. toHost \in [Host -> Seq(Reply)] /\ toHost[h] \in Seq(Reply)
  BY DEF TypeOK
<1>3. Rest(toHost[h], n) \in Seq(Reply) /\ Head(toHost[h]) \in Reply
  BY <1>1, <1>2, RestOfQueue
<1>4. toHost' \in [Host -> Seq(Reply)]
  BY <1>1, <1>2, <1>3
<1>5. registered \in [Host -> BOOLEAN] /\ hostTwin \in [Host -> [cuid : Cuid, port : Port] \cup {NoTwin}]
  BY DEF TypeOK
<1>6. registered' \in [Host -> BOOLEAN] /\ hostTwin' \in [Host -> [cuid : Cuid, port : Port] \cup {NoTwin}]
  <2>1. CASE UNCHANGED <<registered, hostTwin>>
    BY <1>5, <2>1
  <2>2. CASE /\ Head(toHost[h]).command = "REGISTRATION_ACK"
             /\ RegisterSuccessHandler(h, Head(toHost[h]))
    <3>1. Head(toHost[h]).cuid \in Cuid /\ Head(toHost[h]).port \in Port
      BY <1>3, <2>2, AckFields
    <3> QED
      BY <1>5, <2>2, <3>1 DEF RegisterSuccessHandler
  <2> QED
    BY <1>1, <2>1, <2>2
<1> QED
  BY <1>1, <1>4, <1>6 DEF TypeOK, managerVars, portVars

\* A Cybertwin that starts stays where it is in the list.
LEMMA StartedTwins ==
    ASSUME TypeOK, NEW i \in DOMAIN twins, StartCybertwin(i)
    PROVE  /\ twins' \in Seq(Twin) /\ DOMAIN twins' = DOMAIN twins
           /\ \A j \in DOMAIN twins :
                 /\ twins'[j].cuid = twins[j].cuid
                 /\ twins'[j].local = twins[j].local
                 /\ twins'[j].globals = twins[j].globals
                 /\ twins'[j].started = (twins[j].started \/ j = i)
<1>1. twins \in Seq(Twin) /\ DOMAIN twins = 1..Len(twins) /\ Len(twins) \in Nat
  BY DEF TypeOK
<1>2. \A j \in DOMAIN twins : twins[j] \in Twin
  BY <1>1
<1>3. twins' = [twins EXCEPT ![i] = [twins[i] EXCEPT !.started = TRUE]]
  BY DEF StartCybertwin
<1>4. [twins[i] EXCEPT !.started = TRUE] \in Twin
  BY <1>2 DEF Twin
<1>5. twins' \in Seq(Twin) /\ DOMAIN twins' = DOMAIN twins
  BY <1>1, <1>3, <1>4
<1>6. ASSUME NEW j \in DOMAIN twins
      PROVE  /\ twins'[j].cuid = twins[j].cuid
             /\ twins'[j].local = twins[j].local
             /\ twins'[j].globals = twins[j].globals
             /\ twins'[j].started = (twins[j].started \/ j = i)
  <2>1. twins[j] \in Twin
    BY <1>2
  <2>2. CASE j = i
    <3>1. twins'[j] = [twins[j] EXCEPT !.started = TRUE]
      BY <1>1, <1>3, <2>2
    <3> QED
      BY <2>1, <2>2, <3>1 DEF Twin
  <2>3. CASE j # i
    <3>1. twins'[j] = twins[j]
      BY <1>1, <1>3, <2>3
    <3> QED
      BY <2>1, <2>3, <3>1 DEF Twin
  <2> QED
    BY <2>2, <2>3
<1> QED
  BY <1>5, <1>6

\* The steps of a host that leave the manager and the answers alone.
HostStep(h) ==
    \/ ConnectSucceeded(h) \/ ConnectFailed(h) \/ Authenticate(h)
    \/ StopApplication(h)
    \/ \E command \in {"DESTRUCTION", "RECONNECT"} : HostCommand(h, command)

\* The host's other steps only append a request with the host's own name.
LEMMA HostSteps ==
    ASSUME TypeOK, NEW h \in Host, HostStep(h)
    PROVE  /\ UNCHANGED <<registered, hostTwin, toHost, managerVars>>
           /\ \/ UNCHANGED toManager
              \/ \E command \in Commands :
                    toManager' = [toManager EXCEPT ![h] = Append(@,
                        [command |-> command, name |-> NameOf[h]])]
  BY DEF HostStep, ConnectSucceeded, ConnectFailed, Authenticate, StopApplication,
         HostCommand, hostVars, netVars, Commands

\* The host's other steps keep the types.
LEMMA HostTypes ==
    ASSUME TypeOK, NEW h \in Host, HostStep(h)
    PROVE  TypeOK'
<1>1. /\ UNCHANGED <<registered, hostTwin, toHost, managerVars>>
      /\ \/ UNCHANGED toManager
         \/ \E command \in Commands :
               toManager' = [toManager EXCEPT ![h] = Append(@,
                   [command |-> command, name |-> NameOf[h]])]
  BY HostSteps
<1>2. /\ conn \in [Host -> {"connecting", "connected", "failed", "closed"}]
      /\ timer \in [Host -> BOOLEAN] /\ commands \in Nat
      /\ toManager \in [Host -> Seq(Request)] /\ toManager[h] \in Seq(Request)
  BY DEF TypeOK
<1>3. /\ conn' \in [Host -> {"connecting", "connected", "failed", "closed"}]
      /\ timer' \in [Host -> BOOLEAN] /\ commands' \in Nat
  <2>1. /\ \/ conn' = conn
           \/ \E s \in {"connected", "failed", "closed"} : conn' = [conn EXCEPT ![h] = s]
        /\ timer' = timer \/ \E b \in BOOLEAN : timer' = [timer EXCEPT ![h] = b]
        /\ commands' = commands \/ commands' = commands + 1
    BY DEF HostStep, ConnectSucceeded, ConnectFailed, Authenticate, StopApplication,
           HostCommand, hostVars
  <2>2. conn' \in [Host -> {"connecting", "connected", "failed", "closed"}]
    BY <1>2, <2>1
  <2>3. timer' \in [Host -> BOOLEAN]
    BY <1>2, <2>1
  <2>4. commands' \in Nat
    BY <1>2, <2>1
  <2> QED
    BY <2>2, <2>3, <2>4
<1>4. NameOf[h] \in Name
  BY NamesAssumption
<1>5. \A command \in Commands : [command |-> command, name |-> NameOf[h]] \in Request
  BY <1>4 DEF Request
<1>6. toManager' \in [Host -> Seq(Request)]
  <2>1. CASE UNCHANGED toManager
    BY <1>2, <2>1
  <2>2. ASSUME NEW m \in Request, toManager' = [toManager EXCEPT ![h] = Append(@, m)]
        PROVE  toManager' \in [Host -> Seq(Request)]
    <3>1. Append(toManager[h], m) \in Seq(Request)
      BY <1>2
    <3> QED
      BY <1>2, <2>2, <3>1
  <2> QED
    BY <1>1, <1>5, <2>1, <2>2
<1> QED
  BY <1>1, <1>3, <1>6 DEF TypeOK, managerVars, portVars

\* The kinds of step, for the proofs below.
LEMMA Steps ==
    ASSUME [Next]_vars
    PROVE  \/ UNCHANGED vars
           \/ ~fatal /\ \E h \in Host : HostStep(h)
           \/ ~fatal /\ \E h \in Host, n \in 1..MaxInFlight : RecvFromCybertwinManager(h, n)
           \/ ~fatal /\ \E h \in Host, n \in 1..MaxInFlight : ReceiveFromHost(h, n)
           \/ ~fatal /\ \E i \in DOMAIN twins : StartCybertwin(i)
  BY DEF Next, HostNext, HostStep

\* Every step keeps the types.
LEMMA NextTypeOK == TypeOK /\ [Next]_vars => TypeOK'
<1> SUFFICES ASSUME TypeOK, [Next]_vars PROVE TypeOK'
  OBVIOUS
<1>1. ASSUME NEW i \in DOMAIN twins, StartCybertwin(i) PROVE TypeOK'
  <2>1. twins \in Seq(Twin) /\ published \in [Cuid -> Seq(Port)]
    BY DEF TypeOK
  <2>2. twins[i].cuid \in Cuid /\ twins[i].globals \in Seq(Port)
    <3>1. twins[i] \in Twin
      BY <2>1
    <3> QED
      BY <3>1 DEF Twin
  <2>3. published' = [published EXCEPT ![twins[i].cuid] = twins[i].globals]
    BY <1>1 DEF StartCybertwin
  <2>4. published' \in [Cuid -> Seq(Port)]
    BY <2>1, <2>2, <2>3
  <2>5. twins' \in Seq(Twin)
    BY <1>1, StartedTwins
  <2>6. UNCHANGED <<hostVars, netVars, table, portVars, fatal, commands, destroyed>>
    BY <1>1 DEF StartCybertwin
  <2> QED
    BY <2>4, <2>5, <2>6 DEF TypeOK, hostVars, netVars, portVars
<1>2. CASE UNCHANGED vars
  BY <1>2 DEF TypeOK, vars, hostVars, netVars, managerVars, portVars
<1>3. ASSUME NEW h \in Host, HostStep(h) PROVE TypeOK'
  BY <1>3, HostTypes
<1>4. ASSUME NEW h \in Host, NEW n, RecvFromCybertwinManager(h, n) PROVE TypeOK'
  BY <1>4, AnswerTypes
<1>5. ASSUME NEW h \in Host, NEW n, ReceiveFromHost(h, n) PROVE TypeOK'
  BY <1>5, ReceiveTypes
<1> QED
  BY <1>1, <1>2, <1>3, <1>4, <1>5, Steps

\* The daemons and the manager keep their variables within their types: the
\* port counter and every port stay in uint16_t, whatever is in use already.
THEOREM TypeCorrectness == Spec => []TypeOK
<1> QED
  BY InitTypeOK, NextTypeOK, PTL DEF Spec

-----------------------------------------------------------------------------
(* Hosts and their Cybertwins.                                             *)

\* The manager answers a request and creates nothing; a destruction takes
\* the id out of the table.
Answers(h, n, name) ==
    /\ \E c \in Results : Send(h, n, Result(c, name))
    /\ UNCHANGED <<twins, lastPort, assigned, published, fatal>>
    /\ \/ UNCHANGED <<table, destroyed>>
       \/ /\ CuidOf[name] \in table
          /\ table' = table \ {CuidOf[name]}
          /\ destroyed' = [destroyed EXCEPT ![CuidOf[name]] = @ + 1]

\* The manager creates the Cybertwin of an id that is free.
Creates(h, n, name, a) ==
    /\ CuidOf[name] \notin table
    /\ a = AssignInterfaces((lastPort + 1) % PortMod, assigned) /\ ~a.fatal
    /\ lastPort' = a.last /\ assigned' = a.used /\ fatal' = FALSE
    /\ table' = table \cup {CuidOf[name]}
    /\ twins' = Append(twins, [cuid |-> CuidOf[name], local |-> lastPort,
                               globals |-> a.ifs, started |-> FALSE])
    /\ Send(h, n, RegistrationAck(name, lastPort))
    /\ UNCHANGED <<published, destroyed>>

\* What ReceiveFromHost does, in three cases: it answers without a new twin, it
\* creates one, or the program ends.
LEMMA ManagerSteps ==
    ASSUME TypeOK, NEW h \in Host, NEW n, ReceiveFromHost(h, n)
    PROVE  /\ Chunk(toManager[h], n) /\ UNCHANGED <<hostVars, commands>>
           /\ Head(toManager[h]).name \in Name
           /\ \/ Answers(h, n, Head(toManager[h]).name)
              \/ \E a : Creates(h, n, Head(toManager[h]).name, a)
              \/ /\ fatal'
                 /\ UNCHANGED <<table, twins, toManager, toHost, published, destroyed>>
<1> DEFINE name == Head(toManager[h]).name
<1>1. /\ Chunk(toManager[h], n) /\ UNCHANGED <<hostVars, commands>> /\ name \in Name
      /\ \/ HandleCybertwinRegistration(h, n, name)
         \/ HandleCybertwinDestruction(h, n, name)
         \/ HandleCybertwinReconnect(h, n, name)
  BY Handled
<1> HIDE DEF name
<1> SUFFICES \/ Answers(h, n, name)
             \/ \E a : Creates(h, n, name, a)
             \/ fatal' /\ UNCHANGED <<table, twins, toManager, toHost, published, destroyed>>
  BY <1>1 DEF name
<1>2. CASE HandleCybertwinRegistration(h, n, name)
  <2>1. UNCHANGED <<published, destroyed>>
    BY <1>2 DEF HandleCybertwinRegistration
  <2>2. CASE CuidOf[name] \in table
    BY <1>2, <2>1, <2>2 DEF HandleCybertwinRegistration, Answers, Results, portVars
  <2>3. CASE CuidOf[name] \notin table
    <3>1. CreateCybertwin(h, n, name)
      BY <1>2, <2>3 DEF HandleCybertwinRegistration
    <3>2. PICK a : /\ a = AssignInterfaces((lastPort + 1) % PortMod, assigned)
                   /\ lastPort' = a.last /\ assigned' = a.used /\ fatal' = a.fatal
                   /\ a.fatal => UNCHANGED <<table, twins, toManager, toHost>>
                   /\ ~a.fatal =>
                         /\ table' = table \cup {CuidOf[name]}
                         /\ twins' = Append(twins,
                               [cuid |-> CuidOf[name], local |-> lastPort,
                                globals |-> a.ifs, started |-> FALSE])
                         /\ Send(h, n, RegistrationAck(name, lastPort))
      BY <3>1, Created
    <3>3. CASE a.fatal
      <4>1. fatal'
        BY <3>2, <3>3
      <4> QED
        BY <2>1, <3>2, <3>3, <4>1
    <3>4. CASE ~a.fatal
      <4>1. lastPort + 1 \in Nat /\ PortMod \in Nat /\ PortMod >= 2
        BY PortAssumption DEF TypeOK, Port
      <4>2. (lastPort + 1) % PortMod \in Port
        BY <4>1, Remainder DEF Port
      <4>3. assigned \in SUBSET Port
        BY DEF TypeOK
      <4>4. a.fatal \in BOOLEAN
        BY <3>2, <4>2, <4>3, AssignTypes
      <4>5. fatal' = FALSE
        BY <3>2, <3>4, <4>4
      <4>6. Creates(h, n, name, a)
        BY <2>1, <2>3, <3>2, <3>4, <4>5 DEF Creates
      <4> QED
        BY <4>6
    <3> QED
      BY <3>3, <3>4
  <2> QED
    BY <2>2, <2>3
<1>3. CASE HandleCybertwinDestruction(h, n, name)
  <2>1. CASE CuidOf[name] \in table
    BY <1>3, <2>1 DEF HandleCybertwinDestruction, Answers, Results, portVars
  <2>2. CASE CuidOf[name] \notin table
    <3>1. UNCHANGED <<table, destroyed>>
      BY <1>3, <2>2 DEF HandleCybertwinDestruction
    <3> QED
      BY <1>3, <2>2, <3>1 DEF HandleCybertwinDestruction, Answers, Results, portVars
  <2> QED
    BY <2>1, <2>2
<1>4. CASE HandleCybertwinReconnect(h, n, name)
  <2>1. Answers(h, n, name)
    BY <1>4 DEF HandleCybertwinReconnect, Answers, Results, portVars
  <2> QED
    BY <2>1
<1> QED
  BY <1>1, <1>2, <1>3, <1>4

\* The twin that Creates adds comes behind the others.
LEMMA TwinAdded ==
    ASSUME TypeOK, NEW h, NEW n, NEW name \in Name, NEW a, Creates(h, n, name, a)
    PROVE  /\ DOMAIN twins = 1..Len(twins) /\ Len(twins) \in Nat
           /\ DOMAIN twins' = 1..(Len(twins) + 1)
           /\ \A j \in DOMAIN twins : twins'[j] = twins[j]
           /\ twins'[Len(twins) + 1] = [cuid |-> CuidOf[name], local |-> lastPort,
                                        globals |-> a.ifs, started |-> FALSE]
<1> DEFINE t == [cuid |-> CuidOf[name], local |-> lastPort,
                 globals |-> a.ifs, started |-> FALSE]
<1>1. lastPort \in Port /\ assigned \in SUBSET Port /\ twins \in Seq(Twin)
  BY DEF TypeOK
<1>2. lastPort + 1 \in Nat /\ PortMod \in Nat /\ PortMod >= 2
  BY <1>1, PortAssumption DEF Port
<1>3. (lastPort + 1) % PortMod \in Port
  BY <1>2, Remainder DEF Port
<1>4. a.ifs \in Seq(Port)
  BY <1>1, <1>3, AssignTypes DEF Creates
<1>5. CuidOf[name] \in Cuid
  BY NamesAssumption
<1>6. t \in Twin
  BY <1>1, <1>4, <1>5 DEF Twin
<1>7. twins' = Append(twins, t)
  BY DEF Creates
<1> HIDE DEF t
<1>8. /\ DOMAIN twins = 1..Len(twins) /\ Len(twins) \in Nat
      /\ DOMAIN twins' = 1..(Len(twins) + 1)
      /\ \A j \in DOMAIN twins : twins'[j] = twins[j]
      /\ twins'[Len(twins) + 1] = t
  BY <1>1, <1>6, <1>7, AppendQueue
<1> QED
  BY <1>8 DEF t

\* No step takes a Cybertwin from the list or changes its id or its ports.
LEMMA TwinsStay ==
    ASSUME TypeOK, [Next]_vars, NEW j \in DOMAIN twins
    PROVE  /\ j \in DOMAIN twins' /\ twins'[j].cuid = twins[j].cuid
           /\ twins'[j].local = twins[j].local /\ twins'[j].globals = twins[j].globals
<1>1. CASE UNCHANGED twins
  BY <1>1
<1>2. ASSUME NEW i \in DOMAIN twins, StartCybertwin(i)
      PROVE  /\ j \in DOMAIN twins' /\ twins'[j].cuid = twins[j].cuid
             /\ twins'[j].local = twins[j].local /\ twins'[j].globals = twins[j].globals
  BY <1>2, StartedTwins
<1>3. ASSUME NEW h \in Host, NEW n, ReceiveFromHost(h, n), ~UNCHANGED twins
      PROVE  /\ j \in DOMAIN twins' /\ twins'[j].cuid = twins[j].cuid
             /\ twins'[j].local = twins[j].local /\ twins'[j].globals = twins[j].globals
  <2>1. Head(toManager[h]).name \in Name /\ \E a : Creates(h, n, Head(toManager[h]).name, a)
    BY <1>3, ManagerSteps DEF Answers
  <2>2. /\ DOMAIN twins = 1..Len(twins) /\ Len(twins) \in Nat
        /\ DOMAIN twins' = 1..(Len(twins) + 1)
        /\ \A i \in DOMAIN twins : twins'[i] = twins[i]
    BY <2>1, TwinAdded
  <2> QED
    BY <2>2
<1>4. ASSUME NEW h \in Host, HostStep(h) PROVE UNCHANGED twins
  BY <1>4, HostSteps DEF managerVars
<1>5. ASSUME NEW h \in Host, NEW n, RecvFromCybertwinManager(h, n) PROVE UNCHANGED twins
  BY <1>5, Answered DEF managerVars
<1>6. UNCHANGED vars => UNCHANGED twins
  BY DEF vars, managerVars
<1> QED
  BY <1>1, <1>2, <1>3, <1>4, <1>5, <1>6, Steps

\* The ends of a connection exchange only messages about the host's name, and
\* an acknowledgement names a Cybertwin that exists.
OwnReply(h, r) ==
    /\ r.name = NameOf[h]
    /\ r.command = "REGISTRATION_ACK" =>
          r.cuid = HostCuid(h) /\ IsTwin(r.cuid, r.port)

MessagesOwn(h) ==
    /\ \A i \in DOMAIN toManager[h] : toManager[h][i].name = NameOf[h]
    /\ \A i \in DOMAIN toHost[h] : OwnReply(h, toHost[h][i])

OwnTwin(h) ==
    registered[h] => /\ hostTwin[h] # NoTwin
                     /\ hostTwin[h].cuid = HostCuid(h)
                     /\ IsTwin(hostTwin[h].cuid, hostTwin[h].port)

OwnInv == \A h \in Host : MessagesOwn(h) /\ OwnTwin(h)

\* At first no message is under way and no host is registered.
LEMMA InitOwnInv == Init => OwnInv
<1> SUFFICES ASSUME Init, NEW h \in Host PROVE MessagesOwn(h) /\ OwnTwin(h)
  BY DEF OwnInv
<1>1. toManager[h] = <<>> /\ toHost[h] = <<>> /\ ~registered[h]
  BY DEF Init
<1>2. DOMAIN toManager[h] = {} /\ DOMAIN toHost[h] = {}
  BY <1>1
<1> QED
  BY <1>1, <1>2 DEF MessagesOwn, OwnTwin

\* The queues of host g after the manager has answered host h.
LEMMA SentTo ==
    ASSUME TypeOK, NEW h \in Host, NEW g \in Host, NEW n, Chunk(toManager[h], n),
           NEW reply \in Reply, Send(h, n, reply)
    PROVE  /\ \A i \in DOMAIN toManager'[g] :
                 \E j \in DOMAIN toManager[g] : toManager'[g][i] = toManager[g][j]
           /\ DOMAIN toHost[g] = 1..Len(toHost[g]) /\ Len(toHost[g]) \in Nat
           /\ \A i \in DOMAIN toHost[g] : toHost'[g][i] = toHost[g][i]
           /\ g # h => DOMAIN toHost'[g] = DOMAIN toHost[g]
           /\ g = h => /\ DOMAIN toHost'[g] = 1..(Len(toHost[g]) + 1)
                       /\ toHost'[g][Len(toHost[g]) + 1] = reply
<1>1. /\ toManager \in [Host -> Seq(Request)] /\ toHost \in [Host -> Seq(Reply)]
      /\ toManager[h] \in Seq(Request) /\ toHost[h] \in Seq(Reply)
      /\ toHost[g] \in Seq(Reply)
  BY DEF TypeOK
<1>2. /\ toManager' = [toManager EXCEPT ![h] = Rest(@, n)]
      /\ toHost' = [toHost EXCEPT ![h] = Append(@, reply)]
  BY DEF Send
<1>3. \A i \in DOMAIN Rest(toManager[h], n) :
         /\ i + n \in DOMAIN toManager[h]
         /\ Rest(toManager[h], n)[i] = toManager[h][i + n]
  BY <1>1, RestOfQueue
<1>4. CASE g = h
  <2>1. toManager'[g] = Rest(toManager[h], n) /\ toHost'[g] = Append(toHost[h], reply)
    BY <1>1, <1>2, <1>4
  <2> QED
    BY <1>1, <1>3, <1>4, <2>1, AppendQueue
<1>5. CASE g # h
  <2>1. toManager'[g] = toManager[g] /\ toHost'[g] = toHost[g]
    BY <1>1, <1>2, <1>5
  <2> QED
    BY <1>1, <1>5, <2>1, AppendQueue
<1> QED
  BY <1>4, <1>5

\* Every step keeps messages and twins with the host they belong to.
LEMMA NextOwnInv ==
    ASSUME TypeOK, OwnInv, [Next]_vars
    PROVE  OwnInv'
<1>1. \A c, p : IsTwin(c, p) => IsTwin(c, p)'
  BY TwinsStay DEF IsTwin
<1>2. \A g \in Host : \A r : OwnReply(g, r) => OwnReply(g, r)'
  BY <1>1 DEF OwnReply, HostCuid
<1>3. \A g \in Host : registered'[g] = registered[g] /\ hostTwin'[g] = hostTwin[g]
                        => OwnTwin(g)'
  BY <1>1 DEF OwnInv, OwnTwin, HostCuid
<1>4. ASSUME UNCHANGED <<toManager, toHost, registered, hostTwin>>
      PROVE  OwnInv'
  BY <1>2, <1>3, <1>4 DEF OwnInv, MessagesOwn
<1>5. ASSUME NEW h \in Host, HostStep(h)
      PROVE  OwnInv'
  <2>1. /\ UNCHANGED <<registered, hostTwin, toHost>>
        /\ \/ UNCHANGED toManager
           \/ \E command \in Commands :
                 toManager' = [toManager EXCEPT ![h] = Append(@,
                     [command |-> command, name |-> NameOf[h]])]
    BY <1>5, HostSteps
  <2>2. ASSUME NEW command \in Commands,
               toManager' = [toManager EXCEPT ![h] = Append(@,
                   [command |-> command, name |-> NameOf[h]])]
        PROVE  OwnInv'
    <3> DEFINE m == [command |-> command, name |-> NameOf[h]]
    <3>1. m \in Request /\ m.name = NameOf[h]
      BY NamesAssumption DEF Request
    <3>2. toManager \in [Host -> Seq(Request)] /\ toManager[h] \in Seq(Request)
      BY DEF TypeOK
    <3>3. toManager'[h] = Append(toManager[h], m) /\ \A g \in Host \ {h} : toManager'[g] = toManager[g]
      BY <2>2, <3>2
    <3> HIDE DEF m
    <3>4. \A i \in DOMAIN toManager'[h] : \/ i \in DOMAIN toManager[h] /\ toManager'[h][i] = toManager[h][i]
                                          \/ toManager'[h][i] = m
      BY <3>1, <3>2, <3>3, AppendQueue
    <3>5. \A i \in DOMAIN toManager'[h] : toManager'[h][i].name = NameOf[h]
      BY <3>1, <3>4 DEF OwnInv, MessagesOwn
    <3> QED
      BY <1>2, <1>3, <2>1, <3>3, <3>5 DEF OwnInv, MessagesOwn
  <2> QED
    BY <1>4, <2>1, <2>2
<1>6. ASSUME NEW h \in Host, NEW n, RecvFromCybertwinManager(h, n)
      PROVE  OwnInv'
  <2>1. /\ Chunk(toHost[h], n) /\ toHost' = [toHost EXCEPT ![h] = Rest(@, n)]
        /\ UNCHANGED toManager
        /\ \/ UNCHANGED <<registered, hostTwin>>
           \/ /\ Head(toHost[h]).command = "REGISTRATION_ACK"
              /\ RegisterSuccessHandler(h, Head(toHost[h]))
    BY <1>6, Answered
  <2>2. toHost \in [Host -> Seq(Reply)] /\ toHost[h] \in Seq(Reply)
    BY DEF TypeOK
  <2>3. /\ \A i \in DOMAIN Rest(toHost[h], n) :
              i + n \in DOMAIN toHost[h] /\ Rest(toHost[h], n)[i] = toHost[h][i + n]
        /\ 1 \in DOMAIN toHost[h] /\ Head(toHost[h]) = toHost[h][1] /\ Head(toHost[h]) \in Reply
    BY <2>1, <2>2, RestOfQueue
  <2>4. toHost'[h] = Rest(toHost[h], n) /\ \A g \in Host \ {h} : toHost'[g] = toHost[g]
    BY <2>1, <2>2
  <2>5. \A g \in Host : MessagesOwn(g)'
    BY <1>2, <2>1, <2>3, <2>4 DEF OwnInv, MessagesOwn
  <2>6. OwnReply(h, Head(toHost[h]))
    BY <2>3 DEF OwnInv, MessagesOwn
  <2>7. CASE UNCHANGED <<registered, hostTwin>>
    BY <1>3, <2>5, <2>7 DEF OwnInv
  <2>8. CASE /\ Head(toHost[h]).command = "REGISTRATION_ACK"
             /\ RegisterSuccessHandler(h, Head(toHost[h]))
    <3> DEFINE r == Head(toHost[h])
    <3>1. r.cuid \in Cuid /\ r.port \in Port /\ r.name = NameOf[h]
      BY <2>3, <2>6, <2>8, AckFields DEF OwnReply
    <3>2. [cuid |-> r.cuid, port |-> r.port] # NoTwin
      <4>1. r.port \in Nat
        BY <3>1, PortAssumption DEF Port
      <4> QED
        BY <3>1, <4>1, NoTwinAssumption
    <3>3. registered \in [Host -> BOOLEAN] /\ hostTwin \in [Host -> [cuid : Cuid, port : Port] \cup {NoTwin}]
      BY DEF TypeOK
    <3>4. /\ hostTwin'[h] = [cuid |-> r.cuid, port |-> r.port]
          /\ \A g \in Host \ {h} : registered'[g] = registered[g] /\ hostTwin'[g] = hostTwin[g]
      BY <2>8, <3>1, <3>3 DEF RegisterSuccessHandler
    <3>5. hostTwin'[h].cuid = r.cuid /\ hostTwin'[h].port = r.port
      BY <3>4
    <3>6. r.cuid = HostCuid(h) /\ IsTwin(r.cuid, r.port)
      BY <2>6, <2>8 DEF OwnReply
    <3> HIDE DEF r
    <3>7. OwnTwin(h)'
      BY <1>1, <3>2, <3>4, <3>5, <3>6 DEF OwnTwin, HostCuid
    <3> QED
      BY <1>3, <2>5, <3>4, <3>7 DEF OwnInv
  <2> QED
    BY <2>1, <2>7, <2>8
<1>7. ASSUME NEW h \in Host, NEW n, ReceiveFromHost(h, n)
      PROVE  OwnInv'
  <2> DEFINE name == Head(toManager[h]).name
  <2>1. /\ Chunk(toManager[h], n) /\ UNCHANGED <<hostVars, commands>> /\ name \in Name
        /\ \/ Answers(h, n, name)
           \/ \E a : Creates(h, n, name, a)
           \/ UNCHANGED <<twins, toManager, toHost>>
    BY <1>7, ManagerSteps
  <2>2. UNCHANGED <<registered, hostTwin>>
    BY <2>1 DEF hostVars
  <2>3. name = NameOf[h]
    <3>1. toManager[h] \in Seq(Request)
      BY DEF TypeOK
    <3>2. 1 \in DOMAIN toManager[h] /\ Head(toManager[h]) = toManager[h][1]
      BY <2>1, <3>1, RestOfQueue
    <3> QED
      BY <3>2 DEF OwnInv, MessagesOwn
  <2> HIDE DEF name
  <2>4. ASSUME NEW reply \in Reply, Send(h, n, reply), OwnReply(h, reply)'
        PROVE  OwnInv'
    <3>1. ASSUME NEW g \in Host
          PROVE  MessagesOwn(g)'
      <4>1. /\ \A i \in DOMAIN toManager'[g] :
                  \E j \in DOMAIN toManager[g] : toManager'[g][i] = toManager[g][j]
            /\ DOMAIN toHost[g] = 1..Len(toHost[g]) /\ Len(toHost[g]) \in Nat
            /\ \A i \in DOMAIN toHost[g] : toHost'[g][i] = toHost[g][i]
            /\ g # h => DOMAIN toHost'[g] = DOMAIN toHost[g]
            /\ g = h => /\ DOMAIN toHost'[g] = 1..(Len(toHost[g]) + 1)
                        /\ toHost'[g][Len(toHost[g]) + 1] = reply
        <5>1. Chunk(toManager[h], n) /\ Send(h, n, reply)
          BY <2>1, <2>4
        <5>2. \A i \in DOMAIN toManager'[g] :
                 \E j \in DOMAIN toManager[g] : toManager'[g][i] = toManager[g][j]
          BY <5>1, SentTo
        <5>3. /\ DOMAIN toHost[g] = 1..Len(toHost[g]) /\ Len(toHost[g]) \in Nat
              /\ \A i \in DOMAIN toHost[g] : toHost'[g][i] = toHost[g][i]
          BY <5>1, SentTo
        <5>4. g # h => DOMAIN toHost'[g] = DOMAIN toHost[g]
          BY <5>1, SentTo
        <5>5. g = h => /\ DOMAIN toHost'[g] = 1..(Len(toHost[g]) + 1)
                       /\ toHost'[g][Len(toHost[g]) + 1] = reply
          BY <5>1, SentTo
        <5> QED
          BY <5>2, <5>3, <5>4, <5>5
      <4>2. \A i \in DOMAIN toHost'[g] :
               \/ i \in DOMAIN toHost[g] /\ toHost'[g][i] = toHost[g][i]
               \/ g = h /\ toHost'[g][i] = reply
        BY <4>1
      <4> QED
        BY <1>2, <2>4, <4>1, <4>2 DEF OwnInv, MessagesOwn
    <3> QED
      BY <1>3, <2>2, <3>1 DEF OwnInv
  <2>5. CASE Answers(h, n, name)
    <3>1. PICK c \in Results : Send(h, n, Result(c, name))
      BY <2>5 DEF Answers
    <3>2. Result(c, name) \in Reply
      BY <2>1, ReplyTypes
    <3>3. Result(c, name).name = NameOf[h] /\ Result(c, name).command # "REGISTRATION_ACK"
      BY <2>3 DEF Result, Results
    <3>4. PICK r \in Reply : /\ Send(h, n, r) /\ r.name = NameOf[h]
                             /\ r.command # "REGISTRATION_ACK"
      BY <3>1, <3>2, <3>3
    <3>5. OwnReply(h, r)'
      BY <3>4 DEF OwnReply
    <3> QED
      BY <2>4, <3>4, <3>5
  <2>6. ASSUME NEW a, Creates(h, n, name, a)
        PROVE  OwnInv'
    <3> DEFINE s == RegistrationAck(name, lastPort)
               t == [cuid |-> CuidOf[name], local |-> lastPort,
                     globals |-> a.ifs, started |-> FALSE]
    <3>1. s \in Reply /\ Send(h, n, s)
      BY <2>1, <2>6, ReplyTypes DEF TypeOK, Creates
    <3>2. s.name = NameOf[h] /\ s.cuid = HostCuid(h) /\ s.port = lastPort
      BY <2>3 DEF RegistrationAck, HostCuid
    <3>3. t.cuid = HostCuid(h) /\ t.local = lastPort
      BY <2>3 DEF HostCuid
    <3>4. /\ DOMAIN twins' = 1..(Len(twins) + 1) /\ Len(twins) \in Nat
          /\ twins'[Len(twins) + 1] = t
      BY <2>1, <2>6, TwinAdded
    <3> HIDE DEF s, t
    <3>5. \E k \in DOMAIN twins' : twins'[k].cuid = HostCuid(h) /\ twins'[k].local = lastPort
      <4>1. Len(twins) + 1 \in DOMAIN twins'
        BY <3>4
      <4> QED
        BY <3>3, <3>4, <4>1
    <3>6. PICK r \in Reply : /\ Send(h, n, r) /\ r.name = NameOf[h]
                             /\ r.cuid = HostCuid(h) /\ r.port = lastPort
      BY <3>1, <3>2
    <3>7. IsTwin(r.cuid, r.port)'
      BY <3>5, <3>6 DEF IsTwin
    <3>8. OwnReply(h, r)'
      BY <3>6, <3>7 DEF OwnReply, HostCuid
    <3> QED
      BY <2>4, <3>6, <3>8
  <2> QED
    BY <1>4, <2>1, <2>2, <2>5, <2>6
<1>8. ASSUME NEW i \in DOMAIN twins, StartCybertwin(i)
      PROVE  OwnInv'
  BY <1>4, <1>8 DEF StartCybertwin, hostVars, netVars
<1>9. CASE UNCHANGED vars
  BY <1>4, <1>9 DEF vars, hostVars, netVars
<1> QED
  BY <1>5, <1>6, <1>7, <1>8, <1>9, Steps

\* A registered host holds the id of its own name and the local port of a
\* Cybertwin that the manager created under that id (RegisterSuccessHandler).
THEOREM HostsHoldOwnTwin == Spec => []HostHoldsOwnTwin
<1>1. TypeOK /\ OwnInv /\ [Next]_vars => TypeOK' /\ OwnInv'
  BY NextTypeOK, NextOwnInv
<1>2. OwnInv => HostHoldsOwnTwin
  BY DEF OwnInv, OwnTwin, HostHoldsOwnTwin
<1> QED
  BY <1>1, <1>2, InitTypeOK, InitOwnInv, PTL DEF Spec

-----------------------------------------------------------------------------
(* One Cybertwin for each life of an id.                                   *)

TwinsOf(c) == {i \in DOMAIN twins : twins[i].cuid = c}

Life(c) ==
    /\ IsFiniteSet(TwinsOf(c))
    /\ Cardinality(TwinsOf(c)) = destroyed[c] + (IF c \in table THEN 1 ELSE 0)

LifeInv == \A c \in Cuid : Life(c)

\* At first there is no twin to count.
LEMMA InitLifeInv == Init => LifeInv
<1> SUFFICES ASSUME Init PROVE LifeInv
  OBVIOUS
<1>1. twins = <<>> /\ table = {} /\ destroyed = [c \in Cuid |-> 0]
  BY DEF Init
<1>2. DOMAIN twins = {}
  BY <1>1
<1>3. \A c \in Cuid : Life(c)
  <2>1. SUFFICES ASSUME NEW c \in Cuid PROVE Life(c)
    OBVIOUS
  <2>2. TwinsOf(c) = {}
    BY <1>2 DEF TwinsOf
  <2>3. IsFiniteSet(TwinsOf(c)) /\ Cardinality(TwinsOf(c)) = 0
    BY <2>2, FS_EmptySet
  <2>4. destroyed[c] = 0 /\ c \notin table
    BY <1>1
  <2> QED
    BY <2>3, <2>4 DEF Life
<1> QED
  BY <1>3 DEF LifeInv

\* Nothing of LifeInv depends on the hosts.
LEMMA SameLifeInv ==
    ASSUME LifeInv, UNCHANGED <<twins, table, destroyed>>
    PROVE  LifeInv'
<1>1. \A c : TwinsOf(c)' = TwinsOf(c)
  BY DEF TwinsOf
<1>2. \A c \in Cuid : Life(c)'
  BY <1>1 DEF LifeInv, Life
<1> QED
  BY <1>2 DEF LifeInv

\* A destruction begins a new life of the id.
LEMMA DestroyLifeInv ==
    ASSUME TypeOK, LifeInv, NEW d \in table, table' = table \ {d},
           destroyed' = [destroyed EXCEPT ![d] = @ + 1], UNCHANGED twins
    PROVE  LifeInv'
<1>1. d \in Cuid /\ destroyed \in [Cuid -> Nat]
  BY DEF TypeOK
<1>2. ASSUME NEW c \in Cuid PROVE Life(c)'
  <2>1. TwinsOf(c)' = TwinsOf(c)
    BY DEF TwinsOf
  <2>2. Life(c) /\ destroyed[c] \in Nat
    BY <1>1 DEF LifeInv
  <2>3. CASE c = d
    <3>1. destroyed'[c] = destroyed[c] + 1 /\ c \notin table' /\ c \in table
      BY <1>1, <2>3
    <3>2. Cardinality(TwinsOf(c)) = destroyed[c] + 1
      BY <2>2, <3>1 DEF Life
    <3>3. Cardinality(TwinsOf(c)) = destroyed'[c] + 0
      BY <2>2, <3>1, <3>2
    <3> QED
      BY <2>1, <2>2, <3>1, <3>3 DEF Life
  <2>4. CASE c # d
    <3>1. destroyed'[c] = destroyed[c] /\ (c \in table' <=> c \in table)
      BY <1>1, <2>4
    <3> QED
      BY <2>1, <2>2, <3>1 DEF Life
  <2> QED
    BY <2>3, <2>4
<1> QED
  BY <1>2 DEF LifeInv

\* A new Cybertwin is the only one of this life.
LEMMA CreateLifeInv ==
    ASSUME TypeOK, LifeInv, NEW h, NEW n, NEW name \in Name, NEW a,
           Creates(h, n, name, a)
    PROVE  LifeInv'
<1> DEFINE d == CuidOf[name]
           m == Len(twins) + 1
<1>1. /\ DOMAIN twins = 1..Len(twins) /\ Len(twins) \in Nat
      /\ DOMAIN twins' = 1..(Len(twins) + 1)
      /\ \A j \in DOMAIN twins : twins'[j] = twins[j]
      /\ twins'[m] = [cuid |-> d, local |-> lastPort, globals |-> a.ifs, started |-> FALSE]
  BY TwinAdded
<1>2. /\ m \notin DOMAIN twins /\ DOMAIN twins' = DOMAIN twins \cup {m}
      /\ twins'[m].cuid = d /\ twins'[m].started = FALSE /\ m \in Nat
      /\ \A i \in DOMAIN twins : i < m
  BY <1>1
<1>3. /\ d \in Cuid /\ d \notin table /\ table' = table \cup {d}
      /\ UNCHANGED <<destroyed, published>> /\ destroyed \in [Cuid -> Nat]
  BY NamesAssumption DEF Creates, TypeOK
<1>4. \A j \in DOMAIN twins : twins'[j] = twins[j]
  BY <1>1
<1> HIDE DEF d, m
<1>5. ASSUME NEW c \in Cuid PROVE Life(c)'
  <2>1. Life(c) /\ destroyed[c] \in Nat
    BY <1>3 DEF LifeInv
  <2>2. CASE c = d
    <3>1. TwinsOf(c)' = TwinsOf(c) \cup {m}
      BY <1>2, <1>4, <2>2 DEF TwinsOf
    <3>2. m \notin TwinsOf(c) /\ IsFiniteSet(TwinsOf(c))
      BY <1>2, <2>1 DEF TwinsOf, Life
    <3>3. /\ IsFiniteSet(TwinsOf(c) \cup {m})
          /\ Cardinality(TwinsOf(c) \cup {m}) = Cardinality(TwinsOf(c)) + 1
      BY <3>2, FS_AddElement
    <3>4. Cardinality(TwinsOf(c)) = destroyed[c] + 0
      BY <1>3, <2>1, <2>2 DEF Life
    <3>5. Cardinality(TwinsOf(c)') = destroyed[c] + 1
      BY <2>1, <3>1, <3>3, <3>4
    <3> QED
      BY <1>3, <2>2, <3>1, <3>3, <3>5 DEF Life
  <2>3. CASE c # d
    <3>1. TwinsOf(c)' = TwinsOf(c)
      BY <1>2, <1>4, <2>3 DEF TwinsOf
    <3>2. c \in table' <=> c \in table
      BY <1>3, <2>3
    <3> QED
      BY <1>3, <2>1, <3>1, <3>2 DEF Life
  <2> QED
    BY <2>2, <2>3
<1> QED
  BY <1>5 DEF LifeInv

\* A start creates nothing.
LEMMA StartLifeInv ==
    ASSUME TypeOK, LifeInv, NEW k \in DOMAIN twins, StartCybertwin(k)
    PROVE  LifeInv'
<1>1. /\ DOMAIN twins' = DOMAIN twins
      /\ \A j \in DOMAIN twins : twins'[j].cuid = twins[j].cuid
  BY StartedTwins
<1>2. UNCHANGED <<table, destroyed>>
  BY DEF StartCybertwin
<1>3. \A c : TwinsOf(c)' = TwinsOf(c)
  BY <1>1 DEF TwinsOf
<1> QED
  BY <1>2, <1>3 DEF LifeInv, Life

\* Every step keeps twins, registrations and lives of a name in step.
LEMMA NextLifeInv ==
    ASSUME TypeOK, LifeInv, [Next]_vars
    PROVE  LifeInv'
<1>1. ASSUME NEW h \in Host, NEW n, ReceiveFromHost(h, n)
      PROVE  LifeInv'
  <2> DEFINE name == Head(toManager[h]).name
  <2>1. /\ name \in Name
        /\ \/ Answers(h, n, name)
           \/ \E a : Creates(h, n, name, a)
           \/ UNCHANGED <<table, twins, published, destroyed>>
    BY <1>1, ManagerSteps
  <2> HIDE DEF name
  <2>2. CASE Answers(h, n, name)
    <3>1. CASE UNCHANGED <<table, destroyed>>
      BY <2>2, <3>1, SameLifeInv DEF Answers
    <3>2. CASE ~UNCHANGED <<table, destroyed>>
      <4> DEFINE d == CuidOf[name]
      <4>1. /\ d \in table /\ table' = table \ {d} /\ UNCHANGED <<twins, published>>
            /\ destroyed' = [destroyed EXCEPT ![d] = @ + 1]
        BY <2>2, <3>2 DEF Answers
      <4>2. \E e \in table : /\ table' = table \ {e}
                             /\ destroyed' = [destroyed EXCEPT ![e] = @ + 1]
        BY <4>1
      <4> QED
        BY <4>1, <4>2, DestroyLifeInv
    <3> QED
      BY <3>1, <3>2
  <2> QED
    BY <2>1, <2>2, CreateLifeInv, SameLifeInv
<1>2. ASSUME NEW i \in DOMAIN twins, StartCybertwin(i) PROVE LifeInv'
  BY <1>2, StartLifeInv
<1>3. ASSUME NEW h \in Host, HostStep(h) PROVE LifeInv'
  BY <1>3, HostSteps, SameLifeInv DEF managerVars
<1>4. ASSUME NEW h \in Host, NEW n, RecvFromCybertwinManager(h, n) PROVE LifeInv'
  BY <1>4, Answered, SameLifeInv DEF managerVars
<1>5. CASE UNCHANGED vars
  BY <1>5, SameLifeInv DEF vars, managerVars
<1> QED
  BY <1>1, <1>2, <1>3, <1>4, <1>5, Steps

\* LifeInv holds of every reachable state.
LEMMA LifeInductive == Spec => [](TypeOK /\ LifeInv)
<1>1. TypeOK /\ LifeInv /\ [Next]_vars => TypeOK' /\ LifeInv'
  BY NextTypeOK, NextLifeInv
<1> QED
  BY <1>1, InitTypeOK, InitLifeInv, PTL DEF Spec

\* However requests, retries and destructions cross, the manager has created
\* one Cybertwin more than it has taken ids out of its table, at most
\* (HandleCybertwinRegistration, HandleCybertwinDestruction).
THEOREM TwinsPerLife == Spec => []OneTwinPerLife
<1>1. TypeOK /\ LifeInv => OneTwinPerLife
  <2>1. SUFFICES ASSUME TypeOK, LifeInv, NEW c \in Cuid
                 PROVE  Cardinality(TwinsOf(c)) <= 1 + destroyed[c]
    BY DEF OneTwinPerLife, TwinsOf
  <2>2. destroyed[c] \in Nat /\ Life(c)
    BY <2>1 DEF TypeOK, LifeInv
  <2> QED
    BY <2>2 DEF Life
<1> QED
  BY <1>1, LifeInductive, PTL

-----------------------------------------------------------------------------
(* Ports, while the counter is below 65534.                                *)

\* No registration begins with the last ports before 65535 used up.
PortsLeft == fatal \/ lastPort < PortMod - 2

\* Cybertwin t has port x.
HasPort(t, x) == x = t.local \/ \E k \in DOMAIN t.globals : x = t.globals[k]

\* Host h was told port x, or will be.
Told(h, x) ==
    \/ registered[h] /\ hostTwin[h].port = x
    \/ \E i \in DOMAIN toHost[h] :
          toHost[h][i].command = "REGISTRATION_ACK" /\ toHost[h][i].port = x

\* The ports in use lie below the counter.
Below ==
    /\ \A i \in DOMAIN twins, x \in Port : HasPort(twins[i], x) => x < lastPort
    /\ \A h \in Host, x \in Port : Told(h, x) => x < lastPort

\* A port is told to one host.
ToldOnce == \A g, h \in Host, x \in Port : Told(g, x) /\ Told(h, x) => g = h

\* Later acknowledgements carry higher ports.
ToldInOrder(h) ==
    /\ \A i, j \in DOMAIN toHost[h] :
          /\ toHost[h][i].command = "REGISTRATION_ACK"
          /\ toHost[h][j].command = "REGISTRATION_ACK"
          /\ i < j
          => toHost[h][i].port < toHost[h][j].port
    /\ registered[h] =>
          \A i \in DOMAIN toHost[h] :
             toHost[h][i].command = "REGISTRATION_ACK" =>
                toHost[h][i].port > hostTwin[h].port

PortInv ==
    /\ UniquePorts /\ ToldOnce /\ \A h \in Host : ToldInOrder(h)
    /\ fatal \/ Below

\* The local port comes first, then the others in their order.
LEMMA PortsInOrder ==
    ASSUME NEW t \in Twin
    PROVE  /\ DOMAIN PortsOf(t) = 1..(Len(t.globals) + 1) /\ Len(t.globals) \in Nat
           /\ PortsOf(t)[1] = t.local
           /\ \A k \in 1..Len(t.globals) : PortsOf(t)[k + 1] = t.globals[k]
           /\ \A k \in DOMAIN PortsOf(t) : /\ PortsOf(t)[k] \in Port
                                           /\ HasPort(t, PortsOf(t)[k])
<1>1. t.local \in Port /\ t.globals \in Seq(Port)
  BY DEF Twin
<1>2. DOMAIN t.globals = 1..Len(t.globals) /\ Len(t.globals) \in Nat
  BY <1>1
<1>3. /\ DOMAIN PortsOf(t) = 1..(Len(t.globals) + 1)
      /\ PortsOf(t)[1] = t.local
      /\ \A k \in 1..Len(t.globals) : PortsOf(t)[k + 1] = t.globals[k]
  BY <1>1, <1>2 DEF PortsOf
<1>4. ASSUME NEW k \in DOMAIN PortsOf(t)
      PROVE  PortsOf(t)[k] \in Port /\ HasPort(t, PortsOf(t)[k])
  <2>1. CASE k = 1
    BY <1>1, <1>3, <2>1 DEF HasPort
  <2>2. CASE k # 1
    <3>1. k - 1 \in 1..Len(t.globals) /\ (k - 1) + 1 = k
      BY <1>2, <1>3, <2>2
    <3>2. PortsOf(t)[k] = t.globals[k - 1]
      BY <1>3, <3>1
    <3> QED
      BY <1>1, <1>2, <3>1, <3>2 DEF HasPort
  <2> QED
    BY <2>1, <2>2
<1> QED
  BY <1>2, <1>3, <1>4

\* What Creates does to the ports, while there are ports left: the new ones
\* are in increasing order, between the counter before and after.
LEMMA CreatedPorts ==
    ASSUME TypeOK, PortsLeft, ~fatal, NEW h, NEW n, NEW name \in Name, NEW a,
           Creates(h, n, name, a), NEW m, m = Len(twins) + 1
    PROVE  /\ twins'[m] \in Twin
           /\ lastPort < lastPort'
           /\ \A x \in Port : HasPort(twins'[m], x) => lastPort <= x /\ x < lastPort'
           /\ \A k, l \in DOMAIN PortsOf(twins'[m]) :
                 k < l => PortsOf(twins'[m])[k] < PortsOf(twins'[m])[l]
<1> DEFINE t == [cuid |-> CuidOf[name], local |-> lastPort,
                 globals |-> a.ifs, started |-> FALSE]
           s == lastPort + 1
<1>1. twins'[m] = t
  BY TwinAdded
<1>2. /\ lastPort \in Port /\ lastPort \in Nat /\ lastPort < PortMod - 2
      /\ PortMod \in Nat /\ PortMod >= 2 /\ assigned \in SUBSET Port
  BY PortAssumption DEF TypeOK, PortsLeft, Port
<1>3. s \in Port /\ s % PortMod = s /\ s < PortMod - 1
  <2>1. s \in Nat /\ s < PortMod - 1
    BY <1>2
  <2>2. s < PortMod /\ s \in Port
    BY <1>2, <2>1 DEF Port
  <2>3. s % PortMod = s
    <3> HIDE DEF s
    <3> QED
      BY <1>2, <2>1, <2>2, Remainder
  <2> QED
    BY <2>1, <2>2, <2>3
<1>4. a = AssignInterfaces(s, assigned) /\ ~a.fatal /\ lastPort' = a.last
  BY <1>3 DEF Creates
<1>5. a.ifs \in Seq(Port) /\ a.last \in Port
  BY <1>2, <1>3, <1>4, AssignTypes
<1>6. /\ a.last >= s
      /\ \A i \in DOMAIN a.ifs : a.ifs[i] >= s /\ a.ifs[i] < a.last
      /\ \A i, j \in DOMAIN a.ifs : i < j => a.ifs[i] < a.ifs[j]
  BY <1>3, <1>4, AssignOrder
<1>7. CuidOf[name] \in Cuid
  BY NamesAssumption
<1>8. t \in Twin /\ t.local = lastPort /\ t.globals = a.ifs
  BY <1>2, <1>5, <1>7 DEF Twin
<1> HIDE DEF t
<1>9. a.last \in Nat /\ lastPort < a.last
  BY <1>2, <1>5, <1>6 DEF Port
<1>10. \A x \in Port : HasPort(t, x) => lastPort <= x /\ x < a.last
  <2>1. SUFFICES ASSUME NEW x \in Port, HasPort(t, x) PROVE lastPort <= x /\ x < a.last
    OBVIOUS
  <2>2. x \in Nat
    BY <1>2, <2>1 DEF Port
  <2>3. x = lastPort \/ \E i \in DOMAIN a.ifs : x = a.ifs[i]
    BY <1>8, <2>1 DEF HasPort
  <2> QED
    BY <1>2, <1>6, <1>9, <2>2, <2>3
<1>11. ASSUME NEW k \in DOMAIN PortsOf(t), NEW l \in DOMAIN PortsOf(t), k < l
       PROVE  PortsOf(t)[k] < PortsOf(t)[l]
  <2>1. /\ DOMAIN PortsOf(t) = 1..(Len(a.ifs) + 1) /\ Len(a.ifs) \in Nat
        /\ PortsOf(t)[1] = lastPort
        /\ \A i \in 1..Len(a.ifs) : PortsOf(t)[i + 1] = a.ifs[i]
    BY <1>8, PortsInOrder
  <2>2. l - 1 \in 1..Len(a.ifs) /\ (l - 1) + 1 = l
    BY <1>11, <2>1
  <2>3. PortsOf(t)[l] = a.ifs[l - 1] /\ l - 1 \in DOMAIN a.ifs
    BY <1>5, <2>1, <2>2
  <2>4. a.ifs[l - 1] \in Nat
    BY <1>2, <1>5, <2>3 DEF Port
  <2>5. CASE k = 1
    <3>1. a.ifs[l - 1] >= s
      BY <1>6, <2>3
    <3> QED
      BY <1>2, <2>1, <2>3, <2>4, <2>5, <3>1
  <2>6. CASE k # 1
    <3>1. k - 1 \in 1..Len(a.ifs) /\ (k - 1) + 1 = k /\ k - 1 < l - 1
      BY <1>11, <2>1, <2>6
    <3>2. PortsOf(t)[k] = a.ifs[k - 1] /\ k - 1 \in DOMAIN a.ifs
      BY <1>5, <2>1, <3>1
    <3> QED
      BY <1>6, <2>3, <3>1, <3>2
  <2> QED
    BY <2>5, <2>6
<1> QED
  BY <1>1, <1>4, <1>8, <1>9, <1>10, <1>11

\* At first no port is taken and no host was told of one.
LEMMA InitPortInv == Init => PortInv
<1> SUFFICES ASSUME Init PROVE PortInv
  OBVIOUS
<1>1. twins = <<>> /\ \A h \in Host : toHost[h] = <<>> /\ ~registered[h]
  BY DEF Init
<1>2. DOMAIN twins = {} /\ \A h \in Host : DOMAIN toHost[h] = {}
  BY <1>1
<1>3. \A h \in Host, x \in Port : ~Told(h, x)
  BY <1>1, <1>2 DEF Told
<1> QED
  BY <1>1, <1>2, <1>3 DEF PortInv, UniquePorts, ToldOnce, ToldInOrder, Below

\* A registered host holds a port.
LEMMA HeldPort ==
    ASSUME TypeOK, OwnInv, NEW h \in Host, registered[h]
    PROVE  hostTwin[h].port \in Port
<1>1. hostTwin[h] \in [cuid : Cuid, port : Port]
  BY DEF TypeOK, OwnInv, OwnTwin
<1> QED
  BY <1>1

\* A step that tells no host anything new and creates nothing.
LEMMA SamePortInv ==
    ASSUME PortInv, UniquePorts', ~fatal,
           \A h \in Host, x \in Port : Told(h, x)' => Told(h, x),
           \A h \in Host : ToldInOrder(h)',
           DOMAIN twins' = DOMAIN twins, lastPort' = lastPort,
           \A i \in DOMAIN twins, x \in Port :
              HasPort(twins'[i], x) => HasPort(twins[i], x)
    PROVE  PortInv'
<1>1. Below
  BY DEF PortInv
<1>2. Below'
  BY <1>1 DEF Below
<1>3. ToldOnce'
  BY DEF PortInv, ToldOnce
<1> QED
  BY <1>2, <1>3 DEF PortInv

\* A step that leaves twins, ports and answers alone keeps the ports apart.
LEMMA QuietPortInv ==
    ASSUME PortInv, ~fatal, UNCHANGED <<twins, lastPort, registered, hostTwin, toHost>>
    PROVE  PortInv'
<1>1. UniquePorts'
  BY DEF PortInv, UniquePorts
<1>2. \A h \in Host : ToldInOrder(h)'
  BY DEF PortInv, ToldInOrder
<1>3. \A h \in Host, x \in Port : Told(h, x)' => Told(h, x)
  BY DEF Told
<1> QED
  BY <1>1, <1>2, <1>3, SamePortInv

\* StartCybertwin moves no port.
LEMMA StartPortInv ==
    ASSUME TypeOK, PortInv, ~fatal, NEW i \in DOMAIN twins, StartCybertwin(i)
    PROVE  PortInv'
<1>1. /\ DOMAIN twins' = DOMAIN twins
      /\ \A j \in DOMAIN twins : /\ twins'[j].local = twins[j].local
                                 /\ twins'[j].globals = twins[j].globals
  BY StartedTwins
<1>2. UNCHANGED <<lastPort, registered, hostTwin, toHost>>
  BY DEF StartCybertwin, hostVars, netVars, portVars
<1>3. UniquePorts'
  <2>1. \A j \in DOMAIN twins : PortsOf(twins'[j]) = PortsOf(twins[j])
    BY <1>1 DEF PortsOf
  <2> QED
    BY <1>1, <2>1 DEF PortInv, UniquePorts
<1>4. \A j \in DOMAIN twins, x \in Port : HasPort(twins'[j], x) => HasPort(twins[j], x)
  BY <1>1 DEF HasPort
<1>5. \A h \in Host : ToldInOrder(h)'
  BY <1>2 DEF PortInv, ToldInOrder
<1>6. \A h \in Host, x \in Port : Told(h, x)' => Told(h, x)
  BY <1>2 DEF Told
<1> QED
  BY <1>1, <1>2, <1>3, <1>4, <1>5, <1>6, SamePortInv

\* A host that reads its acknowledgement learns what it was told before.
LEMMA AnswerPortInv ==
    ASSUME TypeOK, OwnInv, PortInv, ~fatal, NEW h \in Host, NEW n,
           RecvFromCybertwinManager(h, n)
    PROVE  /\ PortInv'
           /\ \A g \in Host : registered[g] =>
                 registered'[g] /\ hostTwin'[g].port >= hostTwin[g].port
<1> DEFINE r == Head(toHost[h])
<1>1. /\ Chunk(toHost[h], n) /\ toHost' = [toHost EXCEPT ![h] = Rest(@, n)]
      /\ UNCHANGED <<twins, lastPort>>
      /\ \/ UNCHANGED <<registered, hostTwin>>
         \/ r.command = "REGISTRATION_ACK" /\ RegisterSuccessHandler(h, r)
  BY Answered DEF managerVars, portVars
<1>2. /\ toHost \in [Host -> Seq(Reply)] /\ toHost[h] \in Seq(Reply)
      /\ registered \in [Host -> BOOLEAN]
      /\ hostTwin \in [Host -> [cuid : Cuid, port : Port] \cup {NoTwin}]
  BY DEF TypeOK
<1>3. /\ \A i \in DOMAIN Rest(toHost[h], n) :
            i + n \in DOMAIN toHost[h] /\ Rest(toHost[h], n)[i] = toHost[h][i + n]
      /\ 1 \in DOMAIN toHost[h] /\ r = toHost[h][1] /\ r \in Reply /\ n \in Nat /\ n >= 1
      /\ DOMAIN Rest(toHost[h], n) = 1..(Len(toHost[h]) - n)
  BY <1>1, <1>2, RestOfQueue
<1>4. toHost'[h] = Rest(toHost[h], n) /\ \A g \in Host \ {h} : toHost'[g] = toHost[g]
  BY <1>1, <1>2
<1>5. Len(toHost[h]) \in Nat
  BY <1>2
<1>6. \A i \in DOMAIN toHost'[h] :
         /\ i \in Nat /\ i >= 1 /\ i + n \in DOMAIN toHost[h] /\ 1 < i + n
         /\ toHost'[h][i] = toHost[h][i + n]
  BY <1>3, <1>4, <1>5
<1>7. r.name = NameOf[h]
  BY <1>3 DEF OwnInv, MessagesOwn, OwnReply
<1>8. \A g \in Host \ {h} : registered'[g] = registered[g] /\ hostTwin'[g] = hostTwin[g]
  BY <1>1, <1>2 DEF RegisterSuccessHandler
<1>9. \/ registered'[h] = registered[h] /\ hostTwin'[h] = hostTwin[h]
      \/ /\ r.command = "REGISTRATION_ACK" /\ registered'[h]
         /\ hostTwin'[h] = [cuid |-> r.cuid, port |-> r.port]
  BY <1>1, <1>2, <1>7 DEF RegisterSuccessHandler
<1> HIDE DEF r
<1>10. \/ registered'[h] = registered[h] /\ hostTwin'[h] = hostTwin[h]
       \/ r.command = "REGISTRATION_ACK" /\ registered'[h] /\ hostTwin'[h].port = r.port
  BY <1>9
<1>11. ToldInOrder(h)
  BY DEF PortInv
<1>12. ToldInOrder(h)'
  <2>1. \A i, j \in DOMAIN toHost'[h] :
           /\ toHost'[h][i].command = "REGISTRATION_ACK"
           /\ toHost'[h][j].command = "REGISTRATION_ACK"
           /\ i < j
           => toHost'[h][i].port < toHost'[h][j].port
    <3>1. SUFFICES ASSUME NEW i \in DOMAIN toHost'[h], NEW j \in DOMAIN toHost'[h],
                          toHost'[h][i].command = "REGISTRATION_ACK",
                          toHost'[h][j].command = "REGISTRATION_ACK", i < j
                   PROVE  toHost'[h][i].port < toHost'[h][j].port
      OBVIOUS
    <3>2. i + n < j + n
      BY <1>3, <1>6, <3>1
    <3> QED
      BY <1>6, <1>11, <3>1, <3>2 DEF ToldInOrder
  <2>2. registered'[h] =>
           \A i \in DOMAIN toHost'[h] :
              toHost'[h][i].command = "REGISTRATION_ACK" =>
                 toHost'[h][i].port > hostTwin'[h].port
    <3>1. SUFFICES ASSUME registered'[h], NEW i \in DOMAIN toHost'[h],
                          toHost'[h][i].command = "REGISTRATION_ACK"
                   PROVE  toHost'[h][i].port > hostTwin'[h].port
      OBVIOUS
    <3>2. /\ i + n \in DOMAIN toHost[h] /\ 1 < i + n
          /\ toHost[h][i + n].command = "REGISTRATION_ACK"
          /\ toHost'[h][i] = toHost[h][i + n]
      BY <1>6, <3>1
    <3>3. CASE registered'[h] = registered[h] /\ hostTwin'[h] = hostTwin[h]
      BY <1>11, <3>1, <3>2, <3>3 DEF ToldInOrder
    <3>4. CASE r.command = "REGISTRATION_ACK" /\ hostTwin'[h].port = r.port
      <4>1. r.port < toHost[h][i + n].port
        BY <1>3, <1>11, <3>2, <3>4 DEF ToldInOrder
      <4>2. toHost[h][i + n] \in Reply
        BY <1>2, <3>2
      <4>3. r.port \in Nat /\ toHost[h][i + n].port \in Nat
        BY <1>3, <3>2, <3>4, <4>2, AckFields, PortAssumption DEF Port
      <4> QED
        BY <3>2, <3>4, <4>1, <4>3
    <3> QED
      BY <1>10, <3>3, <3>4
  <2> QED
    BY <2>1, <2>2 DEF ToldInOrder
<1>13. \A g \in Host \ {h} : ToldInOrder(g)'
  BY <1>4, <1>8 DEF PortInv, ToldInOrder
<1>14. \A x \in Port : Told(h, x)' => Told(h, x)
  BY <1>3, <1>6, <1>10 DEF Told
<1>15. \A g \in Host \ {h}, x \in Port : Told(g, x)' => Told(g, x)
  BY <1>4, <1>8 DEF Told
<1>16. PortInv'
  <2>1. UniquePorts'
    BY <1>1 DEF PortInv, UniquePorts
  <2>2. \A g \in Host, x \in Port : Told(g, x)' => Told(g, x)
    BY <1>14, <1>15
  <2>3. \A g \in Host : ToldInOrder(g)'
    BY <1>12, <1>13
  <2> QED
    BY <1>1, <2>1, <2>2, <2>3, SamePortInv
<1>17. registered[h] => registered'[h] /\ hostTwin'[h].port >= hostTwin[h].port
  <2>1. SUFFICES ASSUME registered[h]
                 PROVE  registered'[h] /\ hostTwin'[h].port >= hostTwin[h].port
    OBVIOUS
  <2>2. hostTwin[h].port \in Nat
    BY <2>1, HeldPort, PortAssumption DEF Port
  <2>3. CASE registered'[h] = registered[h] /\ hostTwin'[h] = hostTwin[h]
    BY <2>1, <2>2, <2>3
  <2>4. CASE /\ r.command = "REGISTRATION_ACK" /\ registered'[h]
             /\ hostTwin'[h].port = r.port
    <3>1. r.port > hostTwin[h].port
      BY <1>3, <1>11, <2>1, <2>4 DEF ToldInOrder
    <3>2. r.port \in Nat
      BY <1>3, <2>4, AckFields, PortAssumption DEF Port
    <3> QED
      BY <2>2, <2>4, <3>1, <3>2
  <2> QED
    BY <1>10, <2>3, <2>4
<1>18. \A g \in Host \ {h} : registered[g] =>
          registered'[g] /\ hostTwin'[g].port >= hostTwin[g].port
  <2>1. \A g \in Host : registered[g] => hostTwin[g].port \in Nat
    BY HeldPort, PortAssumption DEF Port
  <2> QED
    BY <1>8, <2>1
<1> QED
  BY <1>16, <1>17, <1>18

\* What the hosts were told, after the manager has sent a reply to host h.
LEMMA ToldMore ==
    ASSUME TypeOK, NEW h \in Host, NEW g \in Host, NEW n, Chunk(toManager[h], n),
           NEW reply \in Reply, Send(h, n, reply), UNCHANGED <<registered, hostTwin>>,
           NEW x, Told(g, x)'
    PROVE  \/ Told(g, x)
           \/ g = h /\ reply.command = "REGISTRATION_ACK" /\ reply.port = x
<1>1. /\ DOMAIN toHost[g] = 1..Len(toHost[g]) /\ Len(toHost[g]) \in Nat
      /\ \A i \in DOMAIN toHost[g] : toHost'[g][i] = toHost[g][i]
  BY SentTo
<1>2. g # h => DOMAIN toHost'[g] = DOMAIN toHost[g]
  BY SentTo
<1>3. g = h => /\ DOMAIN toHost'[g] = 1..(Len(toHost[g]) + 1)
               /\ toHost'[g][Len(toHost[g]) + 1] = reply
  BY SentTo
<1>4. \A i \in DOMAIN toHost'[g] :
         \/ i \in DOMAIN toHost[g] /\ toHost'[g][i] = toHost[g][i]
         \/ g = h /\ toHost'[g][i] = reply
  BY <1>1, <1>2, <1>3
<1> QED
  BY <1>4 DEF Told

\* The order of the acknowledgements, after another reply that carries a
\* higher port than any before, or none.
LEMMA OrderKept ==
    ASSUME TypeOK, OwnInv, PortInv, ~fatal, NEW h \in Host, NEW g \in Host, NEW n,
           Chunk(toManager[h], n), NEW reply \in Reply, Send(h, n, reply),
           UNCHANGED <<registered, hostTwin>>,
           reply.command = "REGISTRATION_ACK" => reply.port = lastPort
    PROVE  ToldInOrder(g)'
<1>1. /\ DOMAIN toHost[g] = 1..Len(toHost[g]) /\ Len(toHost[g]) \in Nat
      /\ \A i \in DOMAIN toHost[g] : toHost'[g][i] = toHost[g][i]
  BY SentTo
<1>2. g # h => DOMAIN toHost'[g] = DOMAIN toHost[g]
  BY SentTo
<1>3. g = h => /\ DOMAIN toHost'[g] = 1..(Len(toHost[g]) + 1)
               /\ toHost'[g][Len(toHost[g]) + 1] = reply
  BY SentTo
<1>4. ToldInOrder(g) /\ Below
  BY DEF PortInv
<1>5. CASE g # h
  BY <1>1, <1>2, <1>4, <1>5 DEF ToldInOrder
<1>6. CASE g = h
  <2> DEFINE m == Len(toHost[g]) + 1
  <2>1. /\ m \in Nat /\ DOMAIN toHost'[g] = DOMAIN toHost[g] \cup {m}
        /\ toHost'[g][m] = reply /\ \A i \in DOMAIN toHost[g] : i < m /\ ~(m < i)
    BY <1>1, <1>3, <1>6
  <2>2. lastPort \in Nat
    BY PortAssumption DEF TypeOK, Port
  <2>3. \A i \in DOMAIN toHost[g] :
           toHost[g][i].command = "REGISTRATION_ACK" =>
              toHost[g][i].port \in Nat /\ toHost[g][i].port < lastPort
    <3>1. SUFFICES ASSUME NEW i \in DOMAIN toHost[g], toHost[g][i].command = "REGISTRATION_ACK"
                   PROVE  toHost[g][i].port \in Nat /\ toHost[g][i].port < lastPort
      OBVIOUS
    <3>2. toHost[g] \in Seq(Reply)
      BY DEF TypeOK
    <3>3. toHost[g][i] \in Reply
      BY <3>1, <3>2
    <3>4. toHost[g][i].port \in Port
      BY <3>1, <3>3, AckFields
    <3>5. Told(g, toHost[g][i].port)
      BY <3>1 DEF Told
    <3>6. toHost[g][i].port < lastPort
      BY <1>4, <3>4, <3>5 DEF Below
    <3> QED
      BY <3>4, <3>6, PortAssumption DEF Port
  <2>4. registered[g] => hostTwin[g].port \in Nat /\ hostTwin[g].port < lastPort
    <3>1. SUFFICES ASSUME registered[g]
                   PROVE  hostTwin[g].port \in Nat /\ hostTwin[g].port < lastPort
      OBVIOUS
    <3>2. hostTwin[g].port \in Port /\ Told(g, hostTwin[g].port)
      BY <3>1, HeldPort DEF Told
    <3> QED
      BY <1>4, <3>2, PortAssumption DEF Below, Port
  <2> HIDE DEF m
  <2>5. \A i, j \in DOMAIN toHost'[g] :
           /\ toHost'[g][i].command = "REGISTRATION_ACK"
           /\ toHost'[g][j].command = "REGISTRATION_ACK"
           /\ i < j
           => toHost'[g][i].port < toHost'[g][j].port
    <3>1. SUFFICES ASSUME NEW i \in DOMAIN toHost'[g], NEW j \in DOMAIN toHost'[g],
                          toHost'[g][i].command = "REGISTRATION_ACK",
                          toHost'[g][j].command = "REGISTRATION_ACK", i < j
                   PROVE  toHost'[g][i].port < toHost'[g][j].port
      OBVIOUS
    <3>2. i \in DOMAIN toHost[g]
      BY <2>1, <3>1
    <3>3. toHost'[g][i] = toHost[g][i]
      BY <1>1, <3>2
    <3>4. CASE j = m
      BY <2>1, <2>3, <3>1, <3>2, <3>3, <3>4
    <3>5. CASE j # m
      <4>1. j \in DOMAIN toHost[g] /\ toHost'[g][j] = toHost[g][j]
        BY <1>1, <2>1, <3>5
      <4> QED
        BY <1>4, <3>1, <3>2, <3>3, <4>1 DEF ToldInOrder
    <3> QED
      BY <3>4, <3>5
  <2>6. registered'[g] =>
           \A i \in DOMAIN toHost'[g] :
              toHost'[g][i].command = "REGISTRATION_ACK" =>
                 toHost'[g][i].port > hostTwin'[g].port
    <3>1. SUFFICES ASSUME registered[g], NEW i \in DOMAIN toHost'[g],
                          toHost'[g][i].command = "REGISTRATION_ACK"
                   PROVE  toHost'[g][i].port > hostTwin[g].port
      OBVIOUS
    <3>2. CASE i = m
      BY <2>1, <2>2, <2>4, <3>1, <3>2
    <3>3. CASE i # m
      <4>1. i \in DOMAIN toHost[g] /\ toHost'[g][i] = toHost[g][i]
        BY <1>1, <2>1, <3>3
      <4> QED
        BY <1>4, <3>1, <4>1 DEF ToldInOrder
    <3> QED
      BY <3>2, <3>3
  <2> QED
    BY <2>5, <2>6 DEF ToldInOrder
<1> QED
  BY <1>5, <1>6

\* A new twin takes ports above all earlier ones, so they stay apart, and only the
\* host that asked is told.
LEMMA CreatePortInv ==
    ASSUME TypeOK, OwnInv, PortInv, PortsLeft, ~fatal, NEW h \in Host, NEW n,
           Chunk(toManager[h], n), UNCHANGED <<registered, hostTwin>>,
           NEW name \in Name, NEW a, Creates(h, n, name, a)
    PROVE  PortInv'
<1> DEFINE m == Len(twins) + 1
<1>1. /\ twins'[m] \in Twin /\ lastPort < lastPort'
      /\ \A x \in Port : HasPort(twins'[m], x) => lastPort <= x /\ x < lastPort'
      /\ \A k, l \in DOMAIN PortsOf(twins'[m]) :
            k < l => PortsOf(twins'[m])[k] < PortsOf(twins'[m])[l]
  BY CreatedPorts
<1>2. /\ DOMAIN twins = 1..Len(twins) /\ Len(twins) \in Nat
      /\ DOMAIN twins' = 1..(Len(twins) + 1)
      /\ \A j \in DOMAIN twins : twins'[j] = twins[j]
  BY TwinAdded
<1>3. m \notin DOMAIN twins /\ DOMAIN twins' = DOMAIN twins \cup {m}
  BY <1>2
<1>4. lastPort \in Nat /\ lastPort' \in Nat /\ \A x \in Port : x \in Nat
  <2>1. /\ lastPort \in Port /\ assigned \in SUBSET Port /\ lastPort + 1 \in Nat
        /\ PortMod \in Nat /\ PortMod >= 2
    BY PortAssumption DEF TypeOK, Port
  <2>2. (lastPort + 1) % PortMod \in Port
    BY <2>1, Remainder DEF Port
  <2>3. lastPort' \in Port
    BY <2>1, <2>2, AssignTypes DEF Creates
  <2> QED
    BY <2>1, <2>3 DEF Port
<1>5. UniquePorts /\ ToldOnce /\ Below
  BY DEF PortInv
<1>6. \A i \in DOMAIN twins : twins[i] \in Twin
  <2>1. twins \in Seq(Twin)
    BY DEF TypeOK
  <2> QED
    BY <2>1
<1> HIDE DEF m
<1>7. UniquePorts'
  <2>1. SUFFICES ASSUME NEW i \in DOMAIN twins', NEW j \in DOMAIN twins',
                        NEW k \in DOMAIN PortsOf(twins'[i]),
                        NEW l \in DOMAIN PortsOf(twins'[j]),
                        PortsOf(twins'[i])[k] = PortsOf(twins'[j])[l]
                 PROVE  i = j /\ k = l
    BY DEF UniquePorts
  <2>2. ASSUME NEW o \in DOMAIN twins, NEW u \in DOMAIN PortsOf(twins'[o])
        PROVE  PortsOf(twins'[o])[u] \in Nat /\ PortsOf(twins'[o])[u] < lastPort
    <3>1. twins'[o] = twins[o] /\ twins[o] \in Twin
      BY <1>2, <1>6
    <3>2. PortsOf(twins[o])[u] \in Port /\ HasPort(twins[o], PortsOf(twins[o])[u])
      BY <2>2, <3>1, PortsInOrder
    <3> QED
      BY <1>4, <1>5, <3>1, <3>2 DEF Below
  <2>3. ASSUME NEW u \in DOMAIN PortsOf(twins'[m])
        PROVE  PortsOf(twins'[m])[u] \in Nat /\ lastPort <= PortsOf(twins'[m])[u]
    <3>1. PortsOf(twins'[m])[u] \in Port /\ HasPort(twins'[m], PortsOf(twins'[m])[u])
      BY <1>1, <2>3, PortsInOrder
    <3> QED
      BY <1>1, <1>4, <3>1
  <2>4. CASE i # m /\ j # m
    <3>1. i \in DOMAIN twins /\ j \in DOMAIN twins
      BY <1>3, <2>1, <2>4
    <3>2. twins'[i] = twins[i] /\ twins'[j] = twins[j]
      BY <1>2, <3>1
    <3> QED
      BY <1>5, <2>1, <3>1, <3>2 DEF UniquePorts
  <2>5. CASE i = m /\ j # m
    <3>1. j \in DOMAIN twins
      BY <1>3, <2>1, <2>5
    <3>2. PortsOf(twins'[j])[l] \in Nat /\ PortsOf(twins'[j])[l] < lastPort
      BY <2>1, <2>2, <3>1
    <3>3. PortsOf(twins'[i])[k] \in Nat /\ lastPort <= PortsOf(twins'[i])[k]
      BY <2>1, <2>3, <2>5
    <3> QED
      BY <1>4, <2>1, <3>2, <3>3
  <2>6. CASE i # m /\ j = m
    <3>1. i \in DOMAIN twins
      BY <1>3, <2>1, <2>6
    <3>2. PortsOf(twins'[i])[k] \in Nat /\ PortsOf(twins'[i])[k] < lastPort
      BY <2>1, <2>2, <3>1
    <3>3. PortsOf(twins'[j])[l] \in Nat /\ lastPort <= PortsOf(twins'[j])[l]
      BY <2>1, <2>3, <2>6
    <3> QED
      BY <1>4, <2>1, <3>2, <3>3
  <2>7. CASE i = m /\ j = m
    <3>1. k \in Int /\ l \in Int
      BY <1>1, <2>1, <2>7, PortsInOrder
    <3>2. PortsOf(twins'[m])[k] \in Nat /\ PortsOf(twins'[m])[l] \in Nat
      BY <2>1, <2>3, <2>7
    <3>3. ~(k < l) /\ ~(l < k)
      BY <1>1, <2>1, <2>7, <3>2
    <3> QED
      BY <2>7, <3>1, <3>3
  <2> QED
    BY <2>4, <2>5, <2>6, <2>7
<1>8. PICK reply \in Reply : /\ Send(h, n, reply)
                             /\ reply.command = "REGISTRATION_ACK" /\ reply.port = lastPort
  <2>1. RegistrationAck(name, lastPort) \in Reply
    BY ReplyTypes DEF TypeOK
  <2>2. Send(h, n, RegistrationAck(name, lastPort))
    BY DEF Creates
  <2> QED
    BY <2>1, <2>2 DEF RegistrationAck
<1>9. \A g \in Host : ToldInOrder(g)'
  BY <1>8, OrderKept
<1>10. \A g \in Host, x \in Port : Told(g, x)' => Told(g, x) \/ (g = h /\ x = lastPort)
  BY <1>8, ToldMore
<1>11. ToldOnce'
  <2>1. \A g \in Host, x \in Port : Told(g, x) => x # lastPort
    BY <1>4, <1>5 DEF Below
  <2> QED
    BY <1>5, <1>10, <2>1 DEF ToldOnce
<1>12. Below'
  <2>1. \A i \in DOMAIN twins', x \in Port : HasPort(twins'[i], x) => x < lastPort'
    <3>1. SUFFICES ASSUME NEW i \in DOMAIN twins', NEW x \in Port, HasPort(twins'[i], x)
                   PROVE  x < lastPort'
      OBVIOUS
    <3>2. CASE i = m
      BY <1>1, <3>1, <3>2
    <3>3. CASE i # m
      <4>1. i \in DOMAIN twins /\ twins'[i] = twins[i]
        BY <1>2, <1>3, <3>3
      <4>2. x < lastPort
        BY <1>5, <3>1, <4>1 DEF Below
      <4> QED
        BY <1>1, <1>4, <4>2
    <3> QED
      BY <3>2, <3>3
  <2>2. \A g \in Host, x \in Port : Told(g, x)' => x < lastPort'
    BY <1>1, <1>4, <1>5, <1>10 DEF Below
  <2> QED
    BY <2>1, <2>2 DEF Below
<1> QED
  BY <1>7, <1>9, <1>11, <1>12 DEF PortInv

\* ReceiveFromHost keeps the ports apart, whatever the request is.
LEMMA ReceivePortInv ==
    ASSUME TypeOK, OwnInv, PortInv, PortsLeft, ~fatal, NEW h \in Host, NEW n,
           ReceiveFromHost(h, n)
    PROVE  PortInv'
<1> DEFINE name == Head(toManager[h]).name
<1>1. /\ Chunk(toManager[h], n) /\ UNCHANGED <<hostVars, commands>> /\ name \in Name
      /\ \/ Answers(h, n, name)
         \/ \E a : Creates(h, n, name, a)
         \/ fatal' /\ UNCHANGED <<table, twins, toManager, toHost, published, destroyed>>
  BY ManagerSteps
<1> HIDE DEF name
<1>2. UNCHANGED <<registered, hostTwin>> /\ Chunk(toManager[h], n)
  BY <1>1 DEF hostVars
<1>3. CASE Answers(h, n, name)
  <2>1. PICK c \in Results : Send(h, n, Result(c, name))
    BY <1>3 DEF Answers
  <2>2. Result(c, name) \in Reply /\ Result(c, name).command # "REGISTRATION_ACK"
    BY <1>1, ReplyTypes DEF Result, Results
  <2>3. PICK reply \in Reply : /\ Send(h, n, reply) /\ reply.command # "REGISTRATION_ACK"
    BY <2>1, <2>2
  <2>4. \A g \in Host : ToldInOrder(g)'
    BY <1>2, <2>3, OrderKept
  <2>5. \A g \in Host, x \in Port : Told(g, x)' => Told(g, x)
    BY <1>2, <2>3, ToldMore
  <2>6. UNCHANGED <<twins, lastPort>>
    BY <1>3 DEF Answers
  <2>7. UniquePorts'
    BY <2>6 DEF PortInv, UniquePorts
  <2> QED
    BY <2>4, <2>5, <2>6, <2>7, SamePortInv
<1>4. ASSUME NEW a, Creates(h, n, name, a) PROVE PortInv'
  BY <1>1, <1>2, <1>4, CreatePortInv
<1>5. CASE fatal' /\ UNCHANGED <<table, twins, toManager, toHost, published, destroyed>>
  <2>1. UniquePorts'
    BY <1>5 DEF PortInv, UniquePorts
  <2>2. ToldOnce'
    BY <1>2, <1>5 DEF PortInv, ToldOnce, Told
  <2>3. \A g \in Host : ToldInOrder(g)'
    BY <1>2, <1>5 DEF PortInv, ToldInOrder
  <2> QED
    BY <1>5, <2>1, <2>2, <2>3 DEF PortInv
<1> QED
  BY <1>1, <1>3, <1>4, <1>5

\* A step keeps PortInv, and what a host holds only gets younger.
LEMMA NextPortInv ==
    ASSUME TypeOK, OwnInv, PortInv, PortsLeft, [Next]_vars
    PROVE  /\ PortInv'
           /\ \A g \in Host : registered[g] =>
                 registered'[g] /\ hostTwin'[g].port >= hostTwin[g].port
<1>1. \A g \in Host : registered[g] => hostTwin[g].port \in Nat
  BY HeldPort, PortAssumption DEF Port
<1>2. ASSUME UNCHANGED <<registered, hostTwin>>
      PROVE  \A g \in Host : registered[g] =>
                registered'[g] /\ hostTwin'[g].port >= hostTwin[g].port
  BY <1>1, <1>2
<1>3. CASE UNCHANGED vars
  <2>1. UNCHANGED <<registered, hostTwin, toHost, twins, lastPort, fatal>>
    BY <1>3 DEF vars, hostVars, netVars, managerVars, portVars
  <2>2. PortInv'
    <3>1. UniquePorts' /\ \A h \in Host : ToldInOrder(h)'
      BY <2>1 DEF PortInv, UniquePorts, ToldInOrder
    <3>2. ToldOnce'
      BY <2>1 DEF PortInv, ToldOnce, Told
    <3>3. fatal' \/ Below'
      BY <2>1 DEF PortInv, Below, Told
    <3> QED
      BY <3>1, <3>2, <3>3 DEF PortInv
  <2> QED
    BY <1>2, <2>1, <2>2
<1>4. ASSUME NEW h \in Host, HostStep(h), ~fatal
      PROVE  PortInv' /\ UNCHANGED <<registered, hostTwin>>
  <2>1. UNCHANGED <<twins, lastPort, registered, hostTwin, toHost>>
    BY <1>4, HostSteps DEF managerVars, portVars
  <2> QED
    BY <1>4, <2>1, QuietPortInv
<1>5. ASSUME NEW h \in Host, NEW n, RecvFromCybertwinManager(h, n), ~fatal
      PROVE  /\ PortInv'
             /\ \A g \in Host : registered[g] =>
                   registered'[g] /\ hostTwin'[g].port >= hostTwin[g].port
  BY <1>5, AnswerPortInv
<1>6. ASSUME NEW h \in Host, NEW n, ReceiveFromHost(h, n), ~fatal
      PROVE  PortInv' /\ UNCHANGED <<registered, hostTwin>>
  <2>1. UNCHANGED <<registered, hostTwin>>
    BY <1>6 DEF ReceiveFromHost, hostVars
  <2> QED
    BY <1>6, <2>1, ReceivePortInv
<1>7. ASSUME NEW i \in DOMAIN twins, StartCybertwin(i), ~fatal
      PROVE  PortInv' /\ UNCHANGED <<registered, hostTwin>>
  <2>1. UNCHANGED <<registered, hostTwin>>
    BY <1>7 DEF StartCybertwin, hostVars
  <2> QED
    BY <1>7, <2>1, StartPortInv
<1> QED
  BY <1>2, <1>3, <1>4, <1>5, <1>6, <1>7, Steps

\* PortInv holds as long as no registration finds the ports used up.
LEMMA PortInductive == Spec /\ []PortsLeft => [](TypeOK /\ OwnInv /\ PortInv)
<1>1. TypeOK /\ OwnInv /\ PortInv /\ PortsLeft /\ [Next]_vars
         => TypeOK' /\ OwnInv' /\ PortInv'
  BY NextTypeOK, NextOwnInv, NextPortInv
<1> QED
  BY <1>1, InitTypeOK, InitOwnInv, InitPortInv, PTL DEF Spec

\* The manager hands out no port twice, local ports included, which it never
\* enters in m_assignedPorts, as long as no registration begins with the
\* counter at 65534 or beyond (AssignInterfaces).
THEOREM PortsStayUnique == Spec /\ []PortsLeft => []UniquePorts
<1>1. PortInv => UniquePorts
  BY DEF PortInv
<1> QED
  BY <1>1, PortInductive, PTL

\* Under the same condition no two hosts are sent to the same Cybertwin,
\* although their names or the hashes of their names may be equal.
THEOREM TwinsNotShared == Spec /\ []PortsLeft => []NoSharedTwin
<1>1. TypeOK /\ OwnInv /\ PortInv => NoSharedTwin
  <2>1. SUFFICES ASSUME TypeOK, OwnInv, PortInv, NEW g \in Host, NEW h \in Host,
                        registered[g], registered[h], g # h
                 PROVE  hostTwin[g] # hostTwin[h]
    BY DEF NoSharedTwin
  <2>2. hostTwin[g].port \in Port /\ hostTwin[h].port \in Port
    BY <2>1, HeldPort
  <2>3. Told(g, hostTwin[g].port) /\ Told(h, hostTwin[h].port)
    BY <2>1 DEF Told
  <2> QED
    BY <2>1, <2>2, <2>3 DEF PortInv, ToldOnce
<1> QED
  BY <1>1, PortInductive, PTL

\* A registered host stays registered and moves only to a younger Cybertwin,
\* whatever late errors and acknowledgements it reads: they arrive in the
\* order of their ports (RecvFromCybertwinManangerCallback).
THEOREM RegistrationsAreKept == Spec /\ []PortsLeft => RegistrationIsKept
<1>1. TypeOK /\ OwnInv /\ PortInv /\ PortsLeft /\ [Next]_vars
        => [\A h \in Host : registered[h] =>
               /\ registered'[h]
               /\ hostTwin'[h].port >= hostTwin[h].port]_vars
  BY NextPortInv
<1> QED
  BY <1>1, PortInductive, PTL DEF Spec, RegistrationIsKept
=============================================================================
