------------------------------- MODULE Setup --------------------------------
(***************************************************************************)
(* How the three parties connect.  For every resource, one after the       *)
(* other, a party opens a RepNetIO to each of its neighbours, that is two  *)
(* TCP connections, sends the key of its next_prg to the next party and    *)
(* receives that of its prev_prg from the previous one.  A server listens  *)
(* for one connection at a time, and closes the listening socket once it   *)
(* has accepted; a client tries until it is let in.                        *)
(***************************************************************************)
EXTENDS Integers, FiniteSets, Sequences

CONSTANTS
    NumThreads,       \* NUM_THREADS, the number of resources
    Deployments,      \* the hosts of the three parties: functions on Party
    BasePort,         \* the port of each pair of parties (command line)
    Offset            \* from send_port to recv_port

Party == 1 .. 3
next_party(p) == (p % 3) + 1
prev_party(p) == ((p + 1) % 3) + 1
Resource == 0 .. NumThreads - 1

ASSUME SetupAssumption ==
    /\ NumThreads \in Nat \ {0} /\ Offset \in Nat \ {0}
    /\ BasePort \in [Party -> Nat]

VARIABLES
    host,          \* the deployment
    resource_id,   \* the resource each party initializes
    step,          \* and how far: four sockets, its key sent, a key received
    listening,     \* listening sockets: their addresses and owners
    pending,       \* connections a server has not accepted yet
    accepted,      \* connections: the client's socket and the server's
    wire,          \* keys on their way, with the connection and the direction
    prev_prg_key   \* the keys each party has received

vars == <<host, resource_id, step, listening, pending, accepted, wire, prev_prg_key>>

(* Every party's order of connecting, and who serves: 1 serves both, 2 its *)
(* next.  Mutant of Sides: party 2 starts with its next, as the others do. *)
SidesAllNext(p) == <<"next", "prev">>
Sides(p) == IF p = 2 THEN <<"prev", "next">> ELSE <<"next", "prev">>
IsServer(p, side) == p = 1 \/ (p = 2 /\ side = "next")

(* A pair of neighbours is named after the one whose next is the other.    *)
Pair(p, side) == IF side = "next" THEN p ELSE prev_party(p)
Server(pair) == IF IsServer(pair, "next") THEN pair ELSE next_party(pair)

(* The sockets of a RepNetIO: the server receives on its first, the client *)
(* sends on its first.  Mutant of Kind: both receive on their first.       *)
Second(p) == step[p] % 2 = 0
Side(p) == Sides(p)[(step[p] + 1) \div 2]
KindRecvFirst(p) == IF Second(p) THEN "send" ELSE "recv"
Kind(p) == IF IsServer(p, Side(p)) = Second(p) THEN "send" ELSE "recv"
Socket(p) == <<p, Side(p), resource_id[p], Kind(p)>>

(* Mutant of Port: both sockets of a RepNetIO share a port.                *)
PortWithoutOffset(p) == BasePort[Pair(p, Side(p))] + resource_id[p]
Port(p) == BasePort[Pair(p, Side(p))] + resource_id[p] + (IF Second(p) THEN Offset ELSE 0)
Address(p) == <<host[Server(Pair(p, Side(p)))], Port(p)>>

(* A port is not used twice on a host within two resources in a row: those *)
(* are the ones that parties can be at together.  The ports the scripts    *)
(* give are all different, as 50 is at least NUM_THREADS.                  *)
PortOf(pair, second, r) == BasePort[pair] + r + (IF second THEN Offset ELSE 0)

ASSUME PortAssumption ==
    \A h \in Deployments : \A a, b \in Party : \A s, t \in BOOLEAN :
    \A r, q \in Resource :
        /\ h[Server(a)] = h[Server(b)]
        /\ r - q \in {-1, 0, 1}
        /\ PortOf(a, s, r) = PortOf(b, t, q)
        => a = b /\ s = t /\ r = q

Init ==
    /\ host \in Deployments
    /\ resource_id = [p \in Party |-> 0] /\ step = [p \in Party |-> 1]
    /\ listening = {} /\ pending = {} /\ accepted = {} /\ wire = {}
    /\ prev_prg_key = [p \in Party |-> <<>>]

-----------------------------------------------------------------------------
Running(p) == resource_id[p] < NumThreads
Connecting(p) == Running(p) /\ step[p] =< 4
Advance(p) == step' = [step EXCEPT ![p] = @ + 1] /\ UNCHANGED <<host, resource_id>>

Serving(p) == Connecting(p) /\ IsServer(p, Side(p))
Listens(p) == \E l \in listening : l.owner = Socket(p)
InUse(address) == \E l \in listening : l.address = address

(* server_listen: bind fails if the address is in use.                     *)
Listen(p) ==
    /\ Serving(p) /\ ~Listens(p) /\ ~InUse(Address(p))
    /\ listening' = listening \cup {[address |-> Address(p), owner |-> Socket(p)]}
    /\ UNCHANGED <<host, resource_id, step, pending, accepted, wire, prev_prg_key>>

(* Closing the listening socket resets the connections it has not accepted.*)
(* Mutant of Closed: the listening socket stays open.                      *)
ClosedNever(address) == listening
Closed(address) == {l \in listening : l.address # address}

Accept(p) ==
    /\ Serving(p)
    /\ Listens(p)
    /\ \E c \in pending :
         /\ c.address = Address(p)
         /\ accepted' = accepted \cup {[client |-> c.client, server |-> Socket(p)]}
    /\ listening' = Closed(Address(p))
    /\ pending' = {c \in pending : c.address # Address(p)}
    /\ Advance(p) /\ UNCHANGED <<wire, prev_prg_key>>

(* client_connect: a connection refused is tried again.  A listening socket*)
(* with a backlog of one holds two connections.                            *)
Connect(p) ==
    /\ Connecting(p) /\ ~IsServer(p, Side(p)) /\ InUse(Address(p))
    /\ Cardinality({c \in pending : c.address = Address(p)}) < 2
    /\ pending' = pending \cup {[address |-> Address(p), client |-> Socket(p)]}
    /\ Advance(p) /\ UNCHANGED <<listening, accepted, wire, prev_prg_key>>

-----------------------------------------------------------------------------
(* The keys.  A connection is named after its client's socket.             *)
ConnectionOf(p, side, kind) ==
    LET socket == <<p, side, resource_id[p], kind>>
    IN IF IsServer(p, side) THEN {a.client : a \in {b \in accepted : b.server = socket}}
       ELSE {socket}

SendKey(p) ==
    /\ Running(p) /\ step[p] = 5
    /\ wire' = wire \cup
         [connection : ConnectionOf(p, "next", "send"),
          from_server : {IsServer(p, "next")}, key : {<<p, resource_id[p]>>}]
    /\ Advance(p) /\ UNCHANGED <<listening, pending, accepted, prev_prg_key>>

ReceiveKey(p) ==
    /\ Running(p) /\ step[p] = 6
    /\ \E m \in wire :
         /\ m.connection \in ConnectionOf(p, "prev", "recv")
         /\ m.from_server = ~IsServer(p, "prev")
         /\ prev_prg_key' = [prev_prg_key EXCEPT ![p] = Append(@, m.key)]
         /\ wire' = wire \ {m}
    /\ resource_id' = [resource_id EXCEPT ![p] = @ + 1]
    /\ step' = [step EXCEPT ![p] = 1]
    /\ UNCHANGED <<host, listening, pending, accepted>>

Run(p) == Listen(p) \/ Accept(p) \/ Connect(p) \/ SendKey(p) \/ ReceiveKey(p)
Next == \E p \in Party : Run(p)

(* Each party is a process of its own; its connect loop does not give up.  *)
Spec == Init /\ [][Next]_vars
FairSpec == Spec /\ \A p \in Party : WF_vars(Run(p))
=============================================================================
