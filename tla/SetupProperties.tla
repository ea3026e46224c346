--------------------------- MODULE SetupProperties --------------------------
(***************************************************************************)
(* What the protocols rely on the set-up for.                              *)
(***************************************************************************)
EXTENDS Setup

Sockets == Party \X {"prev", "next"} \X Resource \X {"send", "recv"}

(* A connection joins what a party sends on to what its neighbour receives *)
(* on, in the direction they are neighbours, for the same resource: the    *)
(* two ends of a channel, and the streams of no two threads are crossed.   *)
Opposite(s, t) ==
    /\ s[2] # t[2] /\ s[3] = t[3] /\ s[4] # t[4]
    /\ t[1] = IF s[2] = "next" THEN next_party(s[1]) ELSE prev_party(s[1])
SocketsMatched == \A a \in accepted : Opposite(a.client, a.server)

(* A client that believes it is connected is: its connection waits for the *)
(* server that listens there, or has been accepted.  None is reset when a  *)
(* server that took another closes its listening socket.                   *)
Past(p, s) ==
    \/ s[3] < resource_id[p]
    \/ s[3] = resource_id[p] /\ \E k \in 1 .. step[p] - 1 : k =< 4 /\ s[2] = Sides(p)[(k + 1) \div 2]
         /\ s[4] = IF k % 2 = 0 THEN "recv" ELSE "send"
ConnectionsKept ==
    \A s \in Sockets :
        ~IsServer(s[1], s[2]) /\ Past(s[1], s) =>
            \/ \E c \in pending : c.client = s /\ InUse(c.address)
            \/ \E a \in accepted : a.client = s

(* A server can always bind: no socket listens on the address it wants,    *)
(* on one machine as on three.                                             *)
PortsFree == \A p \in Party : Serving(p) /\ ~Listens(p) => ~InUse(Address(p))

(* The order in which each party serves and connects lets all three come   *)
(* up, and then the generators are paired: for every resource, what a      *)
(* party holds as prev_prg is seeded as the next_prg of its previous party.*)
AllPaired ==
    \A p \in Party :
        resource_id[p] = NumThreads
            /\ prev_prg_key[p] = [i \in 1 .. NumThreads |-> <<prev_party(p), i - 1>>]
AllUp == <>[]AllPaired

-----------------------------------------------------------------------------
(* The inductive invariant.  A channel is one connection of a pair, the    *)
(* first or the second, for a resource; its client and its server each come*)
(* to it at a step of their own.                                           *)
Client(pair) == IF Server(pair) = pair THEN next_party(pair) ELSE pair
SideOf(p, pair) == IF p = pair THEN "next" ELSE "prev"
StepOf(p, pair, second) ==
    (IF Sides(p)[1] = SideOf(p, pair) THEN 1 ELSE 3) + (IF second THEN 1 ELSE 0)
SocketOf(p, pair, second, r) ==
    <<p, SideOf(p, pair), r, IF (p = Server(pair)) = second THEN "send" ELSE "recv">>
AddressOf(pair, second, r) == <<host[Server(pair)], PortOf(pair, second, r)>>

Reached(p, r, k) == r < resource_id[p] \/ (r = resource_id[p] /\ k =< step[p])
Done(p, r, k) == r < resource_id[p] \/ (r = resource_id[p] /\ k < step[p])
Connected(a, second, r) == Done(Client(a), r, StepOf(Client(a), a, second))
Served(a, second, r) == Done(Server(a), r, StepOf(Server(a), a, second))

TypeOK ==
    /\ host \in Deployments
    /\ resource_id \in [Party -> 0 .. NumThreads]
    /\ step \in [Party -> 1 .. 6]

(* No server is past a client, and no client is a channel ahead of its     *)
(* server.                                                                 *)
InOrder ==
    \A a \in Party : \A s \in BOOLEAN : \A r \in Resource :
        /\ Served(a, s, r) => Connected(a, s, r)
        /\ Connected(a, s, r) => Reached(Server(a), r, StepOf(Server(a), a, s))

(* What listens is what some server serves now.                            *)
ListeningNow ==
    \A l \in listening : \E p \in Party :
        Serving(p) /\ l = [address |-> Address(p), owner |-> Socket(p)]

(* What waits, waits for a server that is listening for it now.            *)
PendingNow ==
    \A c \in pending : \E a \in Party, s \in BOOLEAN, r \in Resource :
        /\ c = [address |-> AddressOf(a, s, r), client |-> SocketOf(Client(a), a, s, r)]
        /\ Connected(a, s, r)
        /\ resource_id[Server(a)] = r /\ step[Server(a)] = StepOf(Server(a), a, s)
        /\ Listens(Server(a))

AcceptedPaired ==
    \A d \in accepted : \E a \in Party, s \in BOOLEAN, r \in Resource :
        d = [client |-> SocketOf(Client(a), a, s, r), server |-> SocketOf(Server(a), a, s, r)]

ClientsKept ==
    \A a \in Party : \A s \in BOOLEAN : \A r \in Resource : Connected(a, s, r) =>
        \/ \E c \in pending : c.client = SocketOf(Client(a), a, s, r) /\ InUse(c.address)
        \/ \E d \in accepted : d.client = SocketOf(Client(a), a, s, r)

(* A key is on the channel on which its sender sends to its next party.    *)
KeysSent ==
    \A m \in wire : \E q \in Party, r \in Resource :
        m = [connection |-> SocketOf(Client(q), q, q = Server(q), r),
             from_server |-> q = Server(q), key |-> <<q, r>>]

(* Whatever keys have arrived, the generators they seed are paired.        *)
KeysPaired ==
    prev_prg_key =
        [p \in Party |-> [i \in 1 .. resource_id[p] |-> <<prev_party(p), i - 1>>]]

SetupInv ==
    /\ TypeOK /\ InOrder /\ ListeningNow /\ PendingNow /\ AcceptedPaired /\ ClientsKept
    /\ KeysSent /\ KeysPaired
=============================================================================
