-------------------------- MODULE CybertwinManager --------------------------
(***************************************************************************)
(* Registration of end hosts: the daemon of an end host                    *)
(* (src/cybertwin/model/cybertwin-endhost-daemon.cc) and the manager of    *)
(* its edge server (src/cybertwin/model/cybertwin-manager.cc), which       *)
(* creates the Cybertwin of the host and assigns its ports.                *)
(*                                                                         *)
(* The daemon repeats its request every second until it is registered, so  *)
(* requests cross answers.  Host and manager talk over TCP: nothing is     *)
(* lost or reordered, but a read returns everything that has arrived as    *)
(* one packet, of which only the first header is handled.                  *)
(***************************************************************************)
EXTENDS Integers, Sequences, FiniteSets

CONSTANTS
    Host,
    Name,
    NameOf,       \* the name of a host; nothing makes names unique
    Cuid,
    CuidOf,       \* StringToUint64: the hash of a name
    NoTwin,
    GlobalAddrs,  \* size of m_globalIpv4AddrList
    PortMod,      \* 2^16: ports and the port counter are uint16_t
    FirstPort,    \* 1000: the initial m_lastAssignedPort
    MaxInFlight,  \* bound on the messages in flight in one direction
    MaxCommands   \* bound on destruction and reconnect commands and stops

ASSUME NamesAssumption == NameOf \in [Host -> Name] /\ CuidOf \in [Name -> Cuid]
ASSUME NoTwinAssumption == NoTwin \notin [cuid : Cuid, port : Nat]
ASSUME PortAssumption ==
    /\ GlobalAddrs \in Nat /\ PortMod \in Nat /\ PortMod >= 2
    /\ FirstPort \in 0..(PortMod - 1)
ASSUME InFlightAssumption == MaxInFlight \in Nat /\ MaxCommands \in Nat

VARIABLES
    conn,        \* [Host]: the daemon's connection to the manager
    timer,       \* [Host]: is a call of Authenticate scheduled?
    registered,  \* [Host]: m_isRegisteredToCybertwin
    hostTwin,    \* [Host]: m_cybertwinId and m_cybertwinPort
    toManager,   \* [Host]: requests in flight
    toHost,      \* [Host]: replies in flight
    table,       \* the keys of m_cybertwinTable
    twins,       \* the Cybertwin applications, in the order of creation
    lastPort,    \* m_lastAssignedPort
    assigned,    \* m_assignedPorts
    published,   \* [Cuid]: what the name resolution service was told
    fatal,       \* NS_FATAL_ERROR ended the program
    commands,    \* destruction and reconnect commands sent
    destroyed    \* [Cuid]: how often the table entry was erased

hostVars == <<conn, timer, registered, hostTwin>>
netVars == <<toManager, toHost>>
portVars == <<lastPort, assigned>>
managerVars == <<table, twins, portVars, published, fatal, destroyed>>
vars == <<hostVars, netVars, managerVars, commands>>

Port == 0..(PortMod - 1)
HostCuid(h) == CuidOf[NameOf[h]]
Twin == [cuid : Cuid, local : Port, globals : Seq(Port), started : BOOLEAN]

Commands == {"REGISTRATION", "DESTRUCTION", "RECONNECT"}
Request == [command : Commands, name : Name]
Results == {"REGISTRATION_ERROR", "DESTRUCTION_ACK", "DESTRUCTION_ERROR",
            "RECONNECT_ACK", "RECONNECT_ERROR"}
Reply == [command : Results, name : Name]
            \cup [command : {"REGISTRATION_ACK"}, name : Name, cuid : Cuid,
                  port : Port]

TypeOK ==
    /\ conn \in [Host -> {"connecting", "connected", "failed", "closed"}]
    /\ timer \in [Host -> BOOLEAN]
    /\ registered \in [Host -> BOOLEAN]
    /\ hostTwin \in [Host -> [cuid : Cuid, port : Port] \cup {NoTwin}]
    /\ toManager \in [Host -> Seq(Request)]
    /\ toHost \in [Host -> Seq(Reply)]
    /\ table \subseteq Cuid
    /\ twins \in Seq(Twin)
    /\ lastPort \in Port
    /\ assigned \subseteq Port
    /\ published \in [Cuid -> Seq(Port)]
    /\ fatal \in BOOLEAN
    /\ commands \in Nat
    /\ destroyed \in [Cuid -> Nat]

Init ==
    /\ conn = [h \in Host |-> "connecting"]
    /\ timer = [h \in Host |-> FALSE]
    /\ registered = [h \in Host |-> FALSE]
    /\ hostTwin = [h \in Host |-> NoTwin]
    /\ toManager = [h \in Host |-> <<>>]
    /\ toHost = [h \in Host |-> <<>>]
    /\ table = {}
    /\ twins = <<>>
    /\ lastPort = FirstPort
    /\ assigned = {}
    /\ published = [c \in Cuid |-> <<>>]
    /\ fatal = FALSE
    /\ commands = 0
    /\ destroyed = [c \in Cuid |-> 0]

-----------------------------------------------------------------------------
(* The daemon of the end host.                                             *)

ConnectSucceeded(h) ==
    /\ conn[h] = "connecting"
    /\ conn' = [conn EXCEPT ![h] = "connected"]
    /\ timer' = [timer EXCEPT ![h] = TRUE]
    /\ UNCHANGED <<registered, hostTwin, netVars, managerVars, commands>>

\* The failure is only logged: the daemon never tries again.
ConnectFailed(h) ==
    /\ conn[h] = "connecting"
    /\ conn' = [conn EXCEPT ![h] = "failed"]
    /\ UNCHANGED <<timer, registered, hostTwin, netVars, managerVars, commands>>

\* Ask, and ask again in a second; stop once registered.  Nothing cancels the
\* calls of a daemon that was stopped, but its socket sends no more.
Authenticate(h) ==
    /\ timer[h]
    /\ \/ /\ registered[h]
          /\ timer' = [timer EXCEPT ![h] = FALSE]
          /\ UNCHANGED toManager
       \/ /\ ~registered[h] /\ conn[h] = "connected"
          /\ Len(toManager[h]) < MaxInFlight
          /\ toManager' = [toManager EXCEPT ![h] = Append(@,
                 [command |-> "REGISTRATION", name |-> NameOf[h]])]
          /\ UNCHANGED timer
       \/ /\ ~registered[h] /\ conn[h] = "closed"
          /\ UNCHANGED <<timer, toManager>>
    /\ UNCHANGED <<conn, registered, hostTwin, toHost, managerVars, commands>>

Interventions == commands + Cardinality({h \in Host : conn[h] = "closed"})

\* The socket is closed: requests that were sent arrive before the FIN, and
\* their answers are still read.
StopApplication(h) ==
    /\ conn[h] \in {"connecting", "connected"}
    /\ Interventions < MaxCommands
    /\ conn' = [conn EXCEPT ![h] = "closed"]
    /\ UNCHANGED <<timer, registered, hostTwin, netVars, managerVars, commands>>

\* No code of the repository sends the manager's other two commands: they
\* are modelled as input that a program of the host sends.
HostCommand(h, command) ==
    /\ conn[h] = "connected"
    /\ Interventions < MaxCommands
    /\ Len(toManager[h]) < MaxInFlight
    /\ commands' = commands + 1
    /\ toManager' = [toManager EXCEPT ![h] = Append(@,
           [command |-> command, name |-> NameOf[h]])]
    /\ UNCHANGED <<hostVars, toHost, managerVars>>

\* A read takes the first n messages that have arrived, as one packet.
Chunk(queue, n) == n \in 1..Len(queue)
Rest(queue, n) == SubSeq(queue, n + 1, Len(queue))

RegisterSuccessHandler(h, reply) ==
    /\ registered' = [registered EXCEPT ![h] = TRUE]
    /\ hostTwin' = [hostTwin EXCEPT ![h] =
           IF reply.name = NameOf[h]
           THEN [cuid |-> reply.cuid, port |-> reply.port] ELSE @]

\* Faulty variant: a failed registration forgets an earlier success.
RegisterFailureHandler_Reset(h) ==
    /\ registered' = [registered EXCEPT ![h] = FALSE]
    /\ hostTwin' = [hostTwin EXCEPT ![h] = NoTwin]

RegisterFailureHandler(h) == UNCHANGED <<registered, hostTwin>>

\* Faulty variant: the last message of the packet is handled.
RecvFromCybertwinManager_Last(h, n) ==
    /\ Chunk(toHost[h], n)
    /\ toHost' = [toHost EXCEPT ![h] = Rest(@, n)]
    /\ CASE toHost[h][n].command = "REGISTRATION_ACK" ->
              RegisterSuccessHandler(h, toHost[h][n])
         [] toHost[h][n].command = "REGISTRATION_ERROR" ->
              RegisterFailureHandler(h)
         [] OTHER -> UNCHANGED <<registered, hostTwin>>
    /\ UNCHANGED <<conn, timer, toManager, managerVars, commands>>

RecvFromCybertwinManager(h, n) ==
    /\ Chunk(toHost[h], n)
    /\ toHost' = [toHost EXCEPT ![h] = Rest(@, n)]
    /\ CASE Head(toHost[h]).command = "REGISTRATION_ACK" ->
              RegisterSuccessHandler(h, Head(toHost[h]))
         [] Head(toHost[h]).command = "REGISTRATION_ERROR" ->
              RegisterFailureHandler(h)
         [] OTHER -> UNCHANGED <<registered, hostTwin>>
    /\ UNCHANGED <<conn, timer, toManager, managerVars, commands>>

-----------------------------------------------------------------------------
(* The manager.                                                            *)

\* The do-while loop of AssignInterfaces tries the ports from last on and
\* leaves off at a free one, or when the counter has reached 65535.
LeavesOff(port, used) == port \notin used \/ port = PortMod - 2

\* The port after k steps of the counter, and which of the first n steps end
\* a search.
PortAfter(last, k) == (last + k) % PortMod
Stops(last, used, n) ==
    {k \in 0..(n - 1) : LeavesOff(PortAfter(last, k), used)}

\* The step that ends the search for address i: i - 1 have ended before it.
Stop(last, used, i) ==
    CHOOSE k \in 0..(PortMod - 1) :
        /\ LeavesOff(PortAfter(last, k), used)
        /\ Cardinality(Stops(last, used, k)) = i - 1

\* Where the loop leaves off, for one address after the other.
Candidates(last, used) ==
    LET all == Cardinality(Stops(last, used, PortMod))
    IN [i \in 1..(IF GlobalAddrs < all THEN GlobalAddrs ELSE all) |->
           PortAfter(last, Stop(last, used, i))]

\* Faulty variant: the counter and the set are passed by value.
AssignInterfaces_ByValue(last, used) ==
    [ifs |-> Candidates(last, used), last |-> last, used |-> used,
     fatal |-> FALSE]

\* One port for each address; the program ends when the counter stands at
\* 65535 after a search.  It never passes that point without ending.
AssignInterfaces(last, used) ==
    LET found == Candidates(last, used)
        ports == {found[i] : i \in DOMAIN found}
    IN [ifs |-> found, used |-> used \cup ports,
        last |-> IF found = <<>> THEN last
                 ELSE (found[Len(found)] + 1) % PortMod,
        fatal |-> PortMod - 2 \in ports]

Send(h, n, reply) ==
    /\ toManager' = [toManager EXCEPT ![h] = Rest(@, n)]
    /\ toHost' = [toHost EXCEPT ![h] = Append(@, reply)]

Result(command, name) == [command |-> command, name |-> name]

\* Faulty variant: the name is not hashed.
RegistrationAck_NoHash(name, port) ==
    [command |-> "REGISTRATION_ACK", name |-> name, cuid |-> name,
     port |-> port]

\* Faulty variant: the counter is incremented before it is read.
RegistrationAck_PreIncrement(name, port) ==
    [command |-> "REGISTRATION_ACK", name |-> name, cuid |-> CuidOf[name],
     port |-> (port + 1) % PortMod]

RegistrationAck(name, port) ==
    [command |-> "REGISTRATION_ACK", name |-> name, cuid |-> CuidOf[name],
     port |-> port]

\* Faulty variant: the Cybertwin is not entered in the table.
CreateCybertwin_NotEntered(h, n, name) ==
    \E a \in {AssignInterfaces((lastPort + 1) % PortMod, assigned)} :
       /\ lastPort' = a.last
       /\ assigned' = a.used
       /\ fatal' = a.fatal
       /\ UNCHANGED table
       /\ IF a.fatal
          THEN UNCHANGED <<twins, netVars>>
          ELSE /\ twins' = Append(twins,
                      [cuid |-> CuidOf[name], local |-> lastPort,
                       globals |-> a.ifs, started |-> FALSE])
               /\ Send(h, n, RegistrationAck(name, lastPort))

\* A Cybertwin with the next port as its local port and one port for each
\* global address.
CreateCybertwin(h, n, name) ==
    \E a \in {AssignInterfaces((lastPort + 1) % PortMod, assigned)} :
       /\ lastPort' = a.last
       /\ assigned' = a.used
       /\ fatal' = a.fatal
       /\ IF a.fatal
          THEN UNCHANGED <<table, twins, netVars>>
          ELSE /\ table' = table \cup {CuidOf[name]}
               /\ twins' = Append(twins,
                      [cuid |-> CuidOf[name], local |-> lastPort,
                       globals |-> a.ifs, started |-> FALSE])
               /\ Send(h, n, RegistrationAck(name, lastPort))

\* Faulty variant: a known name is acknowledged, with the port it has.
HandleCybertwinRegistration_AckKnown(h, n, name) ==
    /\ UNCHANGED <<published, destroyed>>
    /\ IF CuidOf[name] \in table
       THEN /\ \E i \in DOMAIN twins :
                  /\ twins[i].cuid = CuidOf[name]
                  /\ Send(h, n, RegistrationAck(name, twins[i].local))
            /\ UNCHANGED <<table, twins, portVars, fatal>>
       ELSE CreateCybertwin(h, n, name)

HandleCybertwinRegistration(h, n, name) ==
    /\ UNCHANGED <<published, destroyed>>
    /\ IF CuidOf[name] \in table
       THEN /\ Send(h, n, Result("REGISTRATION_ERROR", name))
            /\ UNCHANGED <<table, twins, portVars, fatal>>
       ELSE CreateCybertwin(h, n, name)

\* Only the table entry goes: the application, its ports and the name stay.
HandleCybertwinDestruction(h, n, name) ==
    /\ IF CuidOf[name] \in table
       THEN /\ Send(h, n, Result("DESTRUCTION_ACK", name))
            /\ destroyed' = [destroyed EXCEPT ![CuidOf[name]] = @ + 1]
       ELSE /\ Send(h, n, Result("DESTRUCTION_ERROR", name))
            /\ UNCHANGED destroyed
    /\ table' = table \ {CuidOf[name]}
    /\ UNCHANGED <<twins, portVars, published, fatal>>

HandleCybertwinReconnect(h, n, name) ==
    /\ Send(h, n, Result(IF CuidOf[name] \in table THEN "RECONNECT_ACK"
                                                   ELSE "RECONNECT_ERROR", name))
    /\ UNCHANGED <<table, twins, portVars, published, fatal, destroyed>>

ReceiveFromHost(h, n) ==
    /\ Chunk(toManager[h], n)
    /\ Len(toHost[h]) < MaxInFlight
    /\ LET request == Head(toManager[h])
       IN CASE request.command = "REGISTRATION" ->
                 HandleCybertwinRegistration(h, n, request.name)
            [] request.command = "DESTRUCTION" ->
                 HandleCybertwinDestruction(h, n, request.name)
            [] request.command = "RECONNECT" ->
                 HandleCybertwinReconnect(h, n, request.name)
    /\ UNCHANGED <<hostVars, commands>>

\* Faulty variant: the interfaces are announced when the name is new only.
StartCybertwin_OnceOnly(i) ==
    /\ ~twins[i].started
    /\ \A j \in 1..(i - 1) : twins[j].started
    /\ twins' = [twins EXCEPT ![i].started = TRUE]
    /\ published' = [published EXCEPT ![twins[i].cuid] =
           IF @ = <<>> THEN twins[i].globals ELSE @]
    /\ UNCHANGED <<hostVars, netVars, table, portVars, fatal, commands,
                   destroyed>>

\* Cybertwin::StartApplication.  The start time of an application added while
\* the simulation runs is a delay: the manager sets it to the current time, so
\* a Cybertwin starts at twice the time of its creation, in the same order.
StartCybertwin(i) ==
    /\ ~twins[i].started
    /\ \A j \in 1..(i - 1) : twins[j].started
    /\ twins' = [twins EXCEPT ![i].started = TRUE]
    /\ published' = [published EXCEPT ![twins[i].cuid] = twins[i].globals]
    /\ UNCHANGED <<hostVars, netVars, table, portVars, fatal, commands,
                   destroyed>>

-----------------------------------------------------------------------------
HostNext(h) ==
    \/ ConnectSucceeded(h)
    \/ ConnectFailed(h)
    \/ Authenticate(h)
    \/ StopApplication(h)
    \/ \E command \in {"DESTRUCTION", "RECONNECT"} : HostCommand(h, command)
    \/ \E n \in 1..MaxInFlight : RecvFromCybertwinManager(h, n)
    \/ \E n \in 1..MaxInFlight : ReceiveFromHost(h, n)

Next ==
    /\ ~fatal
    /\ \/ \E h \in Host : HostNext(h)
       \/ \E i \in DOMAIN twins : StartCybertwin(i)

Spec == Init /\ [][Next]_vars

\* TCP delivers what was sent and the simulator runs what is scheduled, the
\* starts of applications included.  Of the timer and the two reads of a host
\* some one runs again and again; none can go on for ever without the others,
\* because the queues between them are bounded.
Fairness ==
    /\ WF_vars(~fatal /\ \E i \in DOMAIN twins : StartCybertwin(i))
    /\ \A h \in Host :
          WF_vars(/\ ~fatal
                  /\ \/ Authenticate(h)
                     \/ \E n \in 1..MaxInFlight : RecvFromCybertwinManager(h, n)
                     \/ \E n \in 1..MaxInFlight : ReceiveFromHost(h, n))

FairSpec == Spec /\ Fairness

-----------------------------------------------------------------------------
(* Properties.                                                             *)

IsTwin(cuid, port) ==
    \E i \in DOMAIN twins : twins[i].cuid = cuid /\ twins[i].local = port

\* A registered host knows the id and the local port of a Cybertwin that the
\* manager created for the host's own name, whatever retries, errors and
\* destructions crossed its registration (RegisterSuccessHandler).
HostHoldsOwnTwin ==
    \A h \in Host : registered[h] =>
        /\ hostTwin[h] # NoTwin
        /\ hostTwin[h].cuid = HostCuid(h)
        /\ IsTwin(hostTwin[h].cuid, hostTwin[h].port)

\* Two hosts are never sent to the same Cybertwin, although nothing makes
\* their names or the hashes of their names differ: the one that comes second
\* is refused (HandleCybertwinRegistration).
NoSharedTwin ==
    \A g, h \in Host :
        registered[g] /\ registered[h] /\ g # h => hostTwin[g] # hostTwin[h]

\* The ports of a Cybertwin, the local one first.
PortsOf(t) == <<t.local>> \o t.globals

\* The manager never hands out a port twice: when the ports run out it stops
\* with "No more port available" (AssignInterfaces).
UniquePorts ==
    \A i, j \in DOMAIN twins :
        \A k \in DOMAIN PortsOf(twins[i]), l \in DOMAIN PortsOf(twins[j]) :
            PortsOf(twins[i])[k] = PortsOf(twins[j])[l] => i = j /\ k = l

\* A retry that overtakes the acknowledgement never makes a second Cybertwin:
\* there is at most one for each time the id was free (m_cybertwinTable).
OneTwinPerLife ==
    \A c \in Cuid :
        Cardinality({i \in DOMAIN twins : twins[i].cuid = c}) <= 1 + destroyed[c]

\* A late error or a late second acknowledgement never takes a registered
\* host back to being unregistered or to an older Cybertwin
\* (RecvFromCybertwinManangerCallback).
RegistrationIsKept ==
    [][\A h \in Host : registered[h] => /\ registered'[h]
                                        /\ hostTwin'[h].port >= hostTwin[h].port]_vars

\* When a host has reached the manager, some host of its id registers in the
\* end, unless the ports run out, a Cybertwin is destroyed on the way or the
\* daemon is stopped: the dropped tail of a packet never holds the only
\* acknowledgement, and an acknowledgement to a daemon that is stopping is read.
HostsRegister ==
    \A c \in Cuid :
        LET hosts == {h \in Host : HostCuid(h) = c}
        IN []<>(\/ fatal \/ commands > 0
                \/ \E h \in hosts : registered[h]
                \/ \A h \in hosts : conn[h] # "connected")

\* The name service was told the interfaces of the Cybertwin that h holds, or
\* after them those of a younger one of the same id.
Announced(h) ==
    \E i, j \in DOMAIN twins :
        /\ hostTwin[h] = [cuid |-> twins[i].cuid, port |-> twins[i].local]
        /\ i <= j /\ twins[j].cuid = twins[i].cuid
        /\ published[twins[j].cuid] = twins[j].globals

\* In the end the Cybertwins of the registered hosts of an id are announced:
\* the start follows the acknowledgement by some time, and a Cybertwin that is
\* gone from the table but still runs never keeps its successor from being
\* announced (HandleCybertwinRegistration, Cybertwin::StartApplication).
TwinsAreAnnounced ==
    \A h \in Host : []<>(registered[h] => fatal \/ Announced(h))
=============================================================================
