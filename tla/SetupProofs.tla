---------------------------- MODULE SetupProofs -----------------------------
(***************************************************************************)
(* That the parties are connected to each other as they should, for every  *)
(* number of resources, deployment and choice of ports in which a port is  *)
(* not used twice within two resources in a row.                           *)
(***************************************************************************)
EXTENDS SetupProperties, TLAPS

-----------------------------------------------------------------------------
(* Who is next to whom, and in what order.                                 *)
LEMMA Neighbours ==
    /\ next_party(1) = 2 /\ next_party(2) = 3 /\ next_party(3) = 1
    /\ prev_party(1) = 3 /\ prev_party(2) = 1 /\ prev_party(3) = 2
    /\ Server(1) = 1 /\ Server(2) = 2 /\ Server(3) = 1
    /\ Client(1) = 2 /\ Client(2) = 3 /\ Client(3) = 3
<1>1. /\ next_party(1) = 2 /\ next_party(2) = 3 /\ next_party(3) = 1
      /\ prev_party(1) = 3 /\ prev_party(2) = 1 /\ prev_party(3) = 2
  BY DEF next_party, prev_party
<1> QED
  BY <1>1 DEF Server, Client, IsServer

LEMMA Steps ==
    ASSUME NEW s \in BOOLEAN
    PROVE  /\ StepOf(1, 1, s) = IF s THEN 2 ELSE 1
           /\ StepOf(1, 3, s) = IF s THEN 4 ELSE 3
           /\ StepOf(2, 1, s) = IF s THEN 2 ELSE 1
           /\ StepOf(2, 2, s) = IF s THEN 4 ELSE 3
           /\ StepOf(3, 3, s) = IF s THEN 2 ELSE 1
           /\ StepOf(3, 2, s) = IF s THEN 4 ELSE 3
BY DEF StepOf, Sides, SideOf

(* A connecting party is at one channel, at the step the channel has.      *)
At(p) == Pair(p, Side(p))

LEMMA Channel ==
    ASSUME TypeOK, NEW p \in Party, step[p] =< 4
    PROVE  /\ At(p) \in Party /\ Second(p) \in BOOLEAN
           /\ step[p] = StepOf(p, At(p), Second(p))
           /\ Side(p) = SideOf(p, At(p))
           /\ Socket(p) = SocketOf(p, At(p), Second(p), resource_id[p])
           /\ Address(p) = AddressOf(At(p), Second(p), resource_id[p])
           /\ IsServer(p, Side(p)) => p = Server(At(p))
           /\ ~IsServer(p, Side(p)) => p = Client(At(p)) /\ p # Server(At(p))
<1>1. step[p] \in 1 .. 4 /\ p \in {1, 2, 3}
  BY DEF TypeOK, Party
<1>2. (1 + 1) \div 2 = 1 /\ (2 + 1) \div 2 = 1 /\ (3 + 1) \div 2 = 2 /\ (4 + 1) \div 2 = 2
      /\ 1 % 2 = 1 /\ 2 % 2 = 0 /\ 3 % 2 = 1 /\ 4 % 2 = 0
  OBVIOUS
<1>3. Second(p) = (step[p] \in {2, 4})
  BY <1>1, <1>2 DEF Second
<1>4. Side(p) = Sides(p)[IF step[p] \in {1, 2} THEN 1 ELSE 2]
  BY <1>1, <1>2 DEF Side
<1>5. Side(p) = IF p = 2 THEN IF step[p] \in {1, 2} THEN "prev" ELSE "next"
                ELSE IF step[p] \in {1, 2} THEN "next" ELSE "prev"
  BY <1>1, <1>4 DEF Sides
<1>6. At(p) = CASE p = 1 -> IF step[p] \in {1, 2} THEN 1 ELSE 3
                [] p = 2 -> IF step[p] \in {1, 2} THEN 1 ELSE 2
                [] p = 3 -> IF step[p] \in {1, 2} THEN 3 ELSE 2
  BY <1>1, <1>5, Neighbours DEF At, Pair
<1>7. At(p) \in Party /\ Second(p) \in BOOLEAN
  BY <1>1, <1>3, <1>6 DEF Party
<1>8. step[p] = StepOf(p, At(p), Second(p))
  <2>1. Sides(p)[1] = SideOf(p, At(p)) <=> step[p] \in {1, 2}
    BY <1>1, <1>6 DEF Sides, SideOf
  <2> QED
    BY <1>1, <1>2, <2>1 DEF StepOf, Second
<1>9. Side(p) = SideOf(p, At(p))
  BY <1>1, <1>5, <1>6 DEF SideOf
<1>10. IsServer(p, Side(p)) = (p = Server(At(p)))
  BY <1>1, <1>5, <1>6, Neighbours DEF IsServer
<1>11. ~IsServer(p, Side(p)) => p = Client(At(p)) /\ p # Server(At(p))
  BY <1>1, <1>5, <1>6, Neighbours DEF IsServer
<1>12. Kind(p) = IF (p = Server(At(p))) = Second(p) THEN "send" ELSE "recv"
  BY <1>10 DEF Kind
<1>13. Address(p) = AddressOf(At(p), Second(p), resource_id[p])
  BY DEF Address, AddressOf, Port, PortOf, At
<1> QED
  BY <1>7, <1>8, <1>9, <1>10, <1>11, <1>12, <1>13 DEF Socket, SocketOf

(* And its step says which.                                                *)
LEMMA ChannelOfStep ==
    ASSUME TypeOK, NEW p \in Party, NEW a \in Party, NEW s \in BOOLEAN,
           p \in {Server(a), Client(a)}, step[p] = StepOf(p, a, s)
    PROVE  step[p] =< 4 /\ At(p) = a /\ Second(p) = s
<1>1. p \in {1, 2, 3} /\ a \in {1, 2, 3}
  BY DEF Party
<1>2. step[p] =< 4 /\ step[p] \in 1 .. 4
  BY <1>1, Neighbours, Steps
<1>3. step[p] = StepOf(p, At(p), Second(p)) /\ At(p) \in Party /\ Second(p) \in BOOLEAN
      /\ p \in {Server(At(p)), Client(At(p))}
  BY <1>2, Channel
<1>4. \A b \in Party : \A t \in BOOLEAN :
          p \in {Server(b), Client(b)} /\ StepOf(p, b, t) = StepOf(p, a, s) => b = a /\ t = s
  BY <1>1, Neighbours, Steps DEF Party
<1> QED
  BY <1>2, <1>3, <1>4

LEMMA Ends ==
    ASSUME NEW a \in Party
    PROVE  /\ Server(a) \in Party /\ Client(a) \in Party /\ Server(a) # Client(a)
           /\ \A s \in BOOLEAN : StepOf(Server(a), a, s) \in 1 .. 4 /\ StepOf(Client(a), a, s) \in 1 .. 4
<1>1. a \in {1, 2, 3}
  BY DEF Party
<1>2. \A p : \A s \in BOOLEAN : StepOf(p, a, s) \in 1 .. 4
  BY DEF StepOf
<1> QED
  BY <1>1, <1>2, Neighbours DEF Party

-----------------------------------------------------------------------------
(* No party is two resources ahead of another, so that an address is that  *)
(* of one channel at a time.                                               *)
LEMMA Close ==
    ASSUME TypeOK, InOrder, NEW p \in Party, NEW q \in Party
    PROVE  resource_id[p] =< resource_id[q] + 1
<1>1. SUFFICES ASSUME resource_id[p] > resource_id[q] + 1 PROVE FALSE
  BY DEF TypeOK
<1> DEFINE r == resource_id[q] + 1
<1>2. r \in Resource /\ r < resource_id[p] /\ ~(r < resource_id[q]) /\ r # resource_id[q]
  BY <1>1, SetupAssumption DEF TypeOK, Resource
<1> HIDE DEF r
<1>3. ASSUME NEW a \in Party, {p, q} = {Server(a), Client(a)} PROVE FALSE
  <2>1. Served(a, TRUE, r) => Connected(a, TRUE, r)
    BY <1>2, <1>3 DEF InOrder
  <2>2. Connected(a, TRUE, r) => Reached(Server(a), r, StepOf(Server(a), a, TRUE))
    BY <1>2, <1>3 DEF InOrder
  <2>3. CASE p = Server(a) /\ q = Client(a)
    BY <1>2, <2>1, <2>3 DEF Served, Connected, Done
  <2>4. CASE p = Client(a) /\ q = Server(a)
    BY <1>2, <2>2, <2>4 DEF Connected, Reached, Done
  <2> QED
    BY <1>3, <2>3, <2>4
<1>4. p # q
  BY <1>1 DEF TypeOK
<1> QED
  BY <1>3, <1>4, Neighbours DEF Party

LEMMA SameAddress ==
    ASSUME TypeOK, InOrder, NEW p \in Party, NEW q \in Party, Connecting(p), Connecting(q),
           Address(p) = Address(q)
    PROVE  At(p) = At(q) /\ Second(p) = Second(q) /\ resource_id[p] = resource_id[q]
<1>1. resource_id[p] \in Resource /\ resource_id[q] \in Resource
      /\ resource_id[p] - resource_id[q] \in {-1, 0, 1}
  <2>1. resource_id[p] =< resource_id[q] + 1 /\ resource_id[q] =< resource_id[p] + 1
    BY Close
  <2> QED
    BY <2>1, SetupAssumption DEF TypeOK, Resource, Connecting, Running
<1>2. /\ At(p) \in Party /\ Second(p) \in BOOLEAN /\ At(q) \in Party /\ Second(q) \in BOOLEAN
      /\ Address(p) = AddressOf(At(p), Second(p), resource_id[p])
      /\ Address(q) = AddressOf(At(q), Second(q), resource_id[q])
  BY Channel DEF Connecting
<1>3. /\ host[Server(At(p))] = host[Server(At(q))]
      /\ PortOf(At(p), Second(p), resource_id[p]) = PortOf(At(q), Second(q), resource_id[q])
  <2>1. AddressOf(At(p), Second(p), resource_id[p]) = AddressOf(At(q), Second(q), resource_id[q])
    BY <1>2
  <2>2. <<host[Server(At(p))], PortOf(At(p), Second(p), resource_id[p])>>
          = <<host[Server(At(q))], PortOf(At(q), Second(q), resource_id[q])>>
    BY <2>1, Zenon DEF AddressOf
  <2> QED
    BY <2>2
<1>4. host \in Deployments
  BY DEF TypeOK
<1> QED
  BY <1>1, <1>2, <1>3, <1>4, PortAssumption

(* Whoever connects to an address that is in use meets the server of its   *)
(* channel.                                                                *)
LEMMA Listener ==
    ASSUME TypeOK, InOrder, ListeningNow, NEW p \in Party, Connecting(p), NEW l \in listening,
           l.address = Address(p)
    PROVE  LET q == Server(At(p))
           IN /\ Serving(q) /\ l.owner = Socket(q)
              /\ resource_id[q] = resource_id[p] /\ step[q] = StepOf(q, At(p), Second(p))
<1>1. PICK q \in Party : Serving(q) /\ l = [address |-> Address(q), owner |-> Socket(q)]
  BY DEF ListeningNow
<1>2. Address(q) = Address(p) /\ Connecting(q) /\ l.owner = Socket(q)
  BY <1>1 DEF Serving
<1>3. At(p) = At(q) /\ Second(p) = Second(q) /\ resource_id[p] = resource_id[q]
  BY <1>2, SameAddress
<1>4. q = Server(At(q)) /\ step[q] = StepOf(q, At(q), Second(q))
  BY <1>1, <1>2, Channel DEF Serving, Connecting
<1> QED
  BY <1>1, <1>2, <1>3, <1>4

(* What waits at the address of a server is the client of its channel.     *)
LEMMA PendingHere ==
    ASSUME TypeOK, InOrder, PendingNow, NEW p \in Party, Serving(p), NEW c \in pending,
           c.address = Address(p)
    PROVE  /\ c.client = SocketOf(Client(At(p)), At(p), Second(p), resource_id[p])
           /\ Connected(At(p), Second(p), resource_id[p])
<1>1. PICK a \in Party, s \in BOOLEAN, r \in Resource :
        /\ c = [address |-> AddressOf(a, s, r), client |-> SocketOf(Client(a), a, s, r)]
        /\ Connected(a, s, r)
        /\ resource_id[Server(a)] = r /\ step[Server(a)] = StepOf(Server(a), a, s)
  BY DEF PendingNow
<1> DEFINE q == Server(a)
<1>2. q \in Party /\ step[q] =< 4 /\ At(q) = a /\ Second(q) = s
  BY <1>1, Ends, ChannelOfStep
<1>3. Address(q) = AddressOf(a, s, r) /\ Connecting(q) /\ Connecting(p)
  BY <1>1, <1>2, Channel, SetupAssumption DEF Connecting, Running, Resource, Serving
<1>4. At(p) = a /\ Second(p) = s /\ resource_id[p] = r
  BY <1>1, <1>2, <1>3, SameAddress
<1> QED
  BY <1>1, <1>4

-----------------------------------------------------------------------------
(* What a party does on a socket is done for that channel alone.           *)
LEMMA Progress ==
    ASSUME TypeOK, NEW p \in Party, Connecting(p), Advance(p),
           NEW q \in Party, NEW a \in Party, q \in {Server(a), Client(a)},
           NEW s \in BOOLEAN, NEW r \in Resource
    PROVE  LET k == StepOf(q, a, s)
           IN /\ Done(q, r, k)' <=>
                    \/ Done(q, r, k)
                    \/ q = p /\ a = At(p) /\ s = Second(p) /\ r = resource_id[p]
              /\ Reached(q, r, k) => Reached(q, r, k)'
<1> DEFINE k == StepOf(q, a, s)
<1>1. k \in 1 .. 4
  BY Ends
<1>2. /\ resource_id \in [Party -> Nat] /\ step \in [Party -> 1 .. 6] /\ r \in Nat
      /\ resource_id' = resource_id /\ step' = [step EXCEPT ![p] = step[p] + 1]
      /\ step[p] =< 4
  BY SetupAssumption DEF TypeOK, Resource, Advance, Connecting
<1>3. step[p] = k /\ q = p => a = At(p) /\ s = Second(p)
  BY ChannelOfStep
<1>4. a = At(p) /\ s = Second(p) /\ q = p => step[p] = k
  BY <1>2, Channel
<1> HIDE DEF k
<1>5. Done(q, r, k)' <=> r < resource_id[q] \/ (r = resource_id[q] /\ k < step'[q])
  BY <1>2 DEF Done
<1>6. Reached(q, r, k)' <=> r < resource_id[q] \/ (r = resource_id[q] /\ k =< step'[q])
  BY <1>2 DEF Reached
<1>7. CASE q = p
  <2>1. step'[q] = step[q] + 1
    BY <1>2, <1>7
  <2> QED
    BY <1>1, <1>2, <1>3, <1>4, <1>5, <1>6, <1>7, <2>1 DEF Done, Reached, k
<1>8. CASE q # p
  BY <1>1, <1>2, <1>5, <1>6, <1>8 DEF Done, Reached, k
<1> QED
  BY <1>7, <1>8

-----------------------------------------------------------------------------
(* The invariant holds at first, and every action preserves it.            *)
LEMMA Still ==
    ASSUME NEW q \in Party, resource_id'[q] = resource_id[q], step'[q] = step[q], host' = host
    PROVE  /\ Serving(q)' <=> Serving(q)
           /\ Address(q)' = Address(q) /\ Socket(q)' = Socket(q)
<1>1. Second(q)' <=> Second(q)
  BY DEF Second
<1>2. Side(q)' = Side(q)
  BY DEF Side
<1>3. Kind(q)' = Kind(q)
  BY <1>2 DEF Kind, IsServer, Second
<1>4. Port(q)' = Port(q)
  BY <1>1, <1>2 DEF Port
<1> QED
  BY <1>1, <1>2, <1>3, <1>4 DEF Serving, Connecting, Running, Socket, Address

LEMMA TypeStep == TypeOK /\ [Next]_vars => TypeOK'
<1> SUFFICES ASSUME TypeOK, [Next]_vars PROVE TypeOK'
  OBVIOUS
<1>1. CASE UNCHANGED vars
  BY <1>1 DEF TypeOK, vars
<1>2. ASSUME NEW p \in Party, step[p] =< 4 \/ step[p] = 5, Advance(p) PROVE TypeOK'
  BY <1>2 DEF TypeOK, Advance
<1>3. ASSUME NEW p \in Party, Listen(p) PROVE TypeOK'
  BY <1>3 DEF TypeOK, Listen
<1>4. ASSUME NEW p \in Party, Accept(p) PROVE TypeOK'
  <2>1. step[p] =< 4 /\ Advance(p)
    BY <1>4, Zenon DEF Accept, Serving, Connecting
  <2> QED
    BY <1>2, <2>1
<1>5. ASSUME NEW p \in Party, Connect(p) PROVE TypeOK'
  <2>1. step[p] =< 4 /\ Advance(p)
    BY <1>5, Zenon DEF Connect, Connecting
  <2> QED
    BY <1>2, <2>1
<1>6. ASSUME NEW p \in Party, SendKey(p) PROVE TypeOK'
  BY <1>2, <1>6 DEF SendKey
<1>7. ASSUME NEW p \in Party, ReceiveKey(p) PROVE TypeOK'
  <2>1. resource_id[p] + 1 \in 0 .. NumThreads
    BY <1>7, SetupAssumption DEF TypeOK, ReceiveKey, Running
  <2> QED
    BY <1>7, <2>1 DEF TypeOK, ReceiveKey
<1> QED
  BY <1>1, <1>3, <1>4, <1>5, <1>6, <1>7 DEF Next, Run

ChannelInv ==
    TypeOK /\ InOrder /\ ListeningNow /\ PendingNow /\ AcceptedPaired /\ ClientsKept

LEMMA ListenStep ==
    ASSUME ChannelInv, TypeOK', NEW p \in Party, Listen(p)
    PROVE  ChannelInv'
<1>1. /\ Serving(p) /\ UNCHANGED <<host, resource_id, step, pending, accepted>>
      /\ listening' = listening \cup {[address |-> Address(p), owner |-> Socket(p)]}
  BY DEF Listen
<1>2. \A q \in Party : (Serving(q)' <=> Serving(q)) /\ Address(q)' = Address(q) /\ Socket(q)' = Socket(q)
  BY <1>1, Still
<1>3. InOrder'
  BY <1>1 DEF ChannelInv, InOrder, Served, Connected, Reached, Done
<1>4. ListeningNow'
  <2> SUFFICES ASSUME NEW l \in listening'
               PROVE  \E q \in Party : Serving(q)' /\ l = [address |-> Address(q)', owner |-> Socket(q)']
    BY Zenon DEF ListeningNow
  <2>1. \E q \in Party : Serving(q) /\ l = [address |-> Address(q), owner |-> Socket(q)]
    BY <1>1 DEF ChannelInv, ListeningNow
  <2> QED
    BY <1>2, <2>1
<1>5. PendingNow'
  <2> SUFFICES ASSUME NEW c \in pending'
               PROVE  (\E a \in Party, s \in BOOLEAN, r \in Resource :
                          /\ c = [address |-> AddressOf(a, s, r), client |-> SocketOf(Client(a), a, s, r)]
                          /\ Connected(a, s, r)
                          /\ resource_id[Server(a)] = r /\ step[Server(a)] = StepOf(Server(a), a, s)
                          /\ Listens(Server(a)))'
    BY DEF PendingNow
  <2>1. PICK a \in Party, s \in BOOLEAN, r \in Resource :
          /\ c = [address |-> AddressOf(a, s, r), client |-> SocketOf(Client(a), a, s, r)]
          /\ Connected(a, s, r)
          /\ resource_id[Server(a)] = r /\ step[Server(a)] = StepOf(Server(a), a, s)
          /\ Listens(Server(a))
    BY <1>1 DEF ChannelInv, PendingNow
  <2>2. AddressOf(a, s, r)' = AddressOf(a, s, r) /\ Connected(a, s, r)'
    BY <1>1, <2>1 DEF AddressOf, Connected, Done
  <2>3. Listens(Server(a))'
    BY <1>1, <1>2, <2>1, Ends DEF Listens
  <2> QED
    BY <1>1, <2>1, <2>2, <2>3
<1>6. AcceptedPaired'
  BY <1>1 DEF ChannelInv, AcceptedPaired
<1>7. ClientsKept'
  BY <1>1 DEF ChannelInv, ClientsKept, Connected, Done, InUse
<1> QED
  BY <1>3, <1>4, <1>5, <1>6, <1>7 DEF ChannelInv

LEMMA Advanced ==
    ASSUME TypeOK, NEW p \in Party, Connecting(p), Advance(p)
    PROVE  /\ \A q \in Party \ {p} :
                 /\ Serving(q)' <=> Serving(q)
                 /\ Address(q)' = Address(q) /\ Socket(q)' = Socket(q)
                 /\ resource_id'[q] = resource_id[q] /\ step'[q] = step[q]
           /\ \A a \in Party : \A s \in BOOLEAN : \A r \in Resource :
                 /\ AddressOf(a, s, r)' = AddressOf(a, s, r)
                 /\ Reached(Server(a), r, StepOf(Server(a), a, s))
                      => Reached(Server(a), r, StepOf(Server(a), a, s))'
                 /\ Connected(a, s, r)' <=> Connected(a, s, r) \/
                      (p = Client(a) /\ a = At(p) /\ s = Second(p) /\ r = resource_id[p])
                 /\ Served(a, s, r)' <=> Served(a, s, r) \/
                      (p = Server(a) /\ a = At(p) /\ s = Second(p) /\ r = resource_id[p])
<1>1. resource_id' = resource_id /\ host' = host /\ step' = [step EXCEPT ![p] = step[p] + 1]
  BY DEF Advance
<1>2. ASSUME NEW q \in Party \ {p}
      PROVE  /\ Serving(q)' <=> Serving(q)
             /\ Address(q)' = Address(q) /\ Socket(q)' = Socket(q)
             /\ resource_id'[q] = resource_id[q] /\ step'[q] = step[q]
  <2>1. step'[q] = step[q]
    BY <1>1, <1>2 DEF TypeOK
  <2> QED
    BY <1>1, <2>1, Still
<1>3. ASSUME NEW a \in Party, NEW s \in BOOLEAN, NEW r \in Resource
      PROVE  /\ AddressOf(a, s, r)' = AddressOf(a, s, r)
             /\ Reached(Server(a), r, StepOf(Server(a), a, s))
                  => Reached(Server(a), r, StepOf(Server(a), a, s))'
             /\ Connected(a, s, r)' <=> Connected(a, s, r) \/
                  (p = Client(a) /\ a = At(p) /\ s = Second(p) /\ r = resource_id[p])
             /\ Served(a, s, r)' <=> Served(a, s, r) \/
                  (p = Server(a) /\ a = At(p) /\ s = Second(p) /\ r = resource_id[p])
  <2>1. AddressOf(a, s, r)' = AddressOf(a, s, r)
    BY <1>1 DEF AddressOf
  <2>2. Server(a) \in Party /\ Client(a) \in Party
    BY Ends
  <2>3. Reached(Server(a), r, StepOf(Server(a), a, s)) => Reached(Server(a), r, StepOf(Server(a), a, s))'
    BY <2>2, Progress
  <2>4. Connected(a, s, r)' <=> Connected(a, s, r) \/
          (p = Client(a) /\ a = At(p) /\ s = Second(p) /\ r = resource_id[p])
    BY <2>2, Progress DEF Connected
  <2>5. Served(a, s, r)' <=> Served(a, s, r) \/
          (p = Server(a) /\ a = At(p) /\ s = Second(p) /\ r = resource_id[p])
    BY <2>2, Progress DEF Served
  <2> QED
    BY <2>1, <2>3, <2>4, <2>5
<1> QED
  BY <1>2, <1>3

(* The server takes the one client that waits at its address.              *)
LEMMA AcceptStep ==
    ASSUME ChannelInv, TypeOK', NEW p \in Party, Accept(p)
    PROVE  ChannelInv'
<1>1. PICK c0 \in pending :
        c0.address = Address(p) /\ accepted' = accepted \cup {[client |-> c0.client, server |-> Socket(p)]}
  BY DEF Accept
<1>2. /\ Serving(p) /\ Connecting(p) /\ Advance(p)
      /\ listening' = {l \in listening : l.address # Address(p)}
      /\ pending' = {c \in pending : c.address # Address(p)}
  BY DEF Accept, Closed, Serving
<1>3. TypeOK /\ InOrder /\ ListeningNow /\ PendingNow /\ AcceptedPaired /\ ClientsKept
  BY DEF ChannelInv
<1>4. /\ At(p) \in Party /\ Second(p) \in BOOLEAN /\ p = Server(At(p)) /\ resource_id[p] \in Resource
      /\ Socket(p) = SocketOf(p, At(p), Second(p), resource_id[p])
      /\ Address(p) = AddressOf(At(p), Second(p), resource_id[p])
      /\ p # Client(At(p))
  BY <1>2, <1>3, Channel, Ends, SetupAssumption DEF Serving, Connecting, Running, Resource, TypeOK
<1>5. \A c \in pending : c.address = Address(p) =>
        /\ c.client = SocketOf(Client(At(p)), At(p), Second(p), resource_id[p])
        /\ Connected(At(p), Second(p), resource_id[p])
  BY <1>2, <1>3, PendingHere
<1>6. \A a \in Party : \A s \in BOOLEAN : \A r \in Resource : Connected(a, s, r)' <=> Connected(a, s, r)
  BY <1>2, <1>3, <1>4, Advanced
<1>7. InOrder'
  <2> SUFFICES ASSUME NEW a \in Party, NEW s \in BOOLEAN, NEW r \in Resource
               PROVE  /\ Served(a, s, r)' => Connected(a, s, r)'
                      /\ Connected(a, s, r)' => Reached(Server(a), r, StepOf(Server(a), a, s))'
    BY DEF InOrder
  <2>1. Served(a, s, r)' <=> Served(a, s, r) \/
          (p = Server(a) /\ a = At(p) /\ s = Second(p) /\ r = resource_id[p])
    BY <1>2, <1>3, Advanced
  <2>2. Reached(Server(a), r, StepOf(Server(a), a, s)) => Reached(Server(a), r, StepOf(Server(a), a, s))'
    BY <1>2, <1>3, Advanced
  <2>3. /\ Served(a, s, r) => Connected(a, s, r)
        /\ Connected(a, s, r) => Reached(Server(a), r, StepOf(Server(a), a, s))
    BY <1>3 DEF InOrder
  <2> QED
    BY <1>1, <1>5, <1>6, <2>1, <2>2, <2>3
<1>8. ListeningNow'
  <2> SUFFICES ASSUME NEW l \in listening'
               PROVE  \E q \in Party : Serving(q)' /\ l = [address |-> Address(q)', owner |-> Socket(q)']
    BY Zenon DEF ListeningNow
  <2>1. PICK q \in Party : Serving(q) /\ l = [address |-> Address(q), owner |-> Socket(q)]
    BY <1>2, <1>3 DEF ListeningNow
  <2>2. q \in Party \ {p}
    BY <1>2, <2>1
  <2> QED
    BY <1>2, <1>3, <2>1, <2>2, Advanced
<1>9. PendingNow'
  <2> SUFFICES ASSUME NEW c \in pending'
               PROVE  (\E a \in Party, s \in BOOLEAN, r \in Resource :
                          /\ c = [address |-> AddressOf(a, s, r), client |-> SocketOf(Client(a), a, s, r)]
                          /\ Connected(a, s, r)
                          /\ resource_id[Server(a)] = r /\ step[Server(a)] = StepOf(Server(a), a, s)
                          /\ Listens(Server(a)))'
    BY DEF PendingNow
  <2>1. PICK a \in Party, s \in BOOLEAN, r \in Resource :
          /\ c = [address |-> AddressOf(a, s, r), client |-> SocketOf(Client(a), a, s, r)]
          /\ Connected(a, s, r)
          /\ resource_id[Server(a)] = r /\ step[Server(a)] = StepOf(Server(a), a, s)
          /\ Listens(Server(a))
    BY <1>2, <1>3 DEF PendingNow
  <2>2. c.address # Address(p) /\ c.address = AddressOf(a, s, r)
    BY <1>2, <2>1
  <2>3. Server(a) \in Party /\ step[Server(a)] =< 4 /\ At(Server(a)) = a /\ Second(Server(a)) = s
    BY <1>3, <2>1, Ends, ChannelOfStep
  <2>4. Address(Server(a)) = AddressOf(a, s, r)
    BY <1>3, <2>1, <2>3, Channel
  <2>5. Server(a) \in Party \ {p}
    BY <2>2, <2>3, <2>4
  <2>6. Listens(Server(a))'
    <3>1. PICK l \in listening : l.owner = Socket(Server(a))
      BY <2>1 DEF Listens
    <3>2. PICK q \in Party : Serving(q) /\ l = [address |-> Address(q), owner |-> Socket(q)]
      BY <1>3 DEF ListeningNow
    <3>3. q = Server(a)
      BY <3>1, <3>2 DEF Socket
    <3>4. l \in listening'
      BY <1>2, <2>2, <2>4, <3>2, <3>3
    <3>5. Socket(Server(a))' = Socket(Server(a))
      BY <1>2, <1>3, <2>5, Advanced
    <3> QED
      BY <3>1, <3>4, <3>5 DEF Listens
  <2>7. AddressOf(a, s, r)' = AddressOf(a, s, r) /\ resource_id'[Server(a)] = r
        /\ step'[Server(a)] = StepOf(Server(a), a, s)
    BY <1>2, <1>3, <2>1, <2>5, Advanced
  <2> QED
    BY <1>6, <2>1, <2>6, <2>7
<1>10. AcceptedPaired'
  <2> SUFFICES ASSUME NEW d \in accepted'
               PROVE  \E a \in Party, s \in BOOLEAN, r \in Resource :
                        d = [client |-> SocketOf(Client(a), a, s, r), server |-> SocketOf(Server(a), a, s, r)]
    BY DEF AcceptedPaired
  <2>1. CASE d \in accepted
    BY <1>3, <2>1 DEF AcceptedPaired
  <2>2. CASE d \notin accepted
    <3>1. d = [client |-> c0.client, server |-> Socket(p)]
      BY <1>1, <2>2
    <3>2. d = [client |-> SocketOf(Client(At(p)), At(p), Second(p), resource_id[p]),
               server |-> SocketOf(Server(At(p)), At(p), Second(p), resource_id[p])]
      BY <1>1, <1>4, <1>5, <3>1
    <3> QED
      BY <1>4, <3>2
  <2> QED
    BY <2>1, <2>2
<1>11. ClientsKept'
  <2> SUFFICES ASSUME NEW a \in Party, NEW s \in BOOLEAN, NEW r \in Resource, Connected(a, s, r)'
               PROVE  \/ \E c \in pending' : c.client = SocketOf(Client(a), a, s, r) /\ InUse(c.address)'
                      \/ \E d \in accepted' : d.client = SocketOf(Client(a), a, s, r)
    BY Zenon DEF ClientsKept
  <2>1. CASE \E d \in accepted : d.client = SocketOf(Client(a), a, s, r)
    BY <1>1, <2>1
  <2>2. CASE \E c \in pending : c.client = SocketOf(Client(a), a, s, r) /\ InUse(c.address)
    <3>1. PICK c \in pending : c.client = SocketOf(Client(a), a, s, r) /\ InUse(c.address)
      BY <2>2
    <3>2. CASE c.address = Address(p)
      <4>1. c.client = c0.client
        BY <1>1, <1>5, <3>2
      <4> DEFINE d == [client |-> c0.client, server |-> Socket(p)]
      <4>2. d \in accepted' /\ d.client = SocketOf(Client(a), a, s, r)
        BY <1>1, <3>1, <4>1
      <4> QED
        BY <4>2
    <3>3. CASE c.address # Address(p)
      <4>1. c \in pending' /\ InUse(c.address)'
        BY <1>2, <3>1, <3>3 DEF InUse
      <4> QED
        BY <3>1, <4>1
    <3> QED
      BY <3>2, <3>3
  <2> QED
    BY <1>3, <1>6, <2>1, <2>2 DEF ClientsKept
<1> QED
  BY <1>7, <1>8, <1>9, <1>10, <1>11 DEF ChannelInv

LEMMA ConnectStep ==
    ASSUME ChannelInv, TypeOK', NEW p \in Party, Connect(p)
    PROVE  ChannelInv'
<1> DEFINE c0 == [address |-> Address(p), client |-> Socket(p)]
<1>1. /\ Connecting(p) /\ ~IsServer(p, Side(p)) /\ InUse(Address(p)) /\ Advance(p)
      /\ pending' = pending \cup {c0}
      /\ listening' = listening /\ accepted' = accepted
  BY DEF Connect
<1>2. TypeOK /\ InOrder /\ ListeningNow /\ PendingNow /\ AcceptedPaired /\ ClientsKept
  BY DEF ChannelInv
<1>3. /\ At(p) \in Party /\ Second(p) \in BOOLEAN /\ resource_id[p] \in Resource
      /\ p = Client(At(p)) /\ p # Server(At(p))
      /\ Socket(p) = SocketOf(p, At(p), Second(p), resource_id[p])
      /\ Address(p) = AddressOf(At(p), Second(p), resource_id[p])
      /\ step[p] = StepOf(p, At(p), Second(p))
  BY <1>1, <1>2, Channel, SetupAssumption DEF Connecting, Running, Resource, TypeOK
<1>4. PICK l0 \in listening : l0.address = Address(p)
  BY <1>1 DEF InUse
<1>5. /\ l0.owner = Socket(Server(At(p)))
      /\ resource_id[Server(At(p))] = resource_id[p]
      /\ step[Server(At(p))] = StepOf(Server(At(p)), At(p), Second(p))
  BY <1>1, <1>2, <1>4, Listener
<1>6. Server(At(p)) \in Party \ {p}
  BY <1>3, Ends
<1>7. InOrder'
  <2> SUFFICES ASSUME NEW a \in Party, NEW s \in BOOLEAN, NEW r \in Resource
               PROVE  /\ Served(a, s, r)' => Connected(a, s, r)'
                      /\ Connected(a, s, r)' => Reached(Server(a), r, StepOf(Server(a), a, s))'
    BY DEF InOrder
  <2>1. Served(a, s, r)' <=> Served(a, s, r)
    BY <1>1, <1>2, <1>3, Advanced
  <2>2. Connected(a, s, r)' <=> Connected(a, s, r) \/
          (p = Client(a) /\ a = At(p) /\ s = Second(p) /\ r = resource_id[p])
    BY <1>1, <1>2, Advanced
  <2>3. Reached(Server(a), r, StepOf(Server(a), a, s)) => Reached(Server(a), r, StepOf(Server(a), a, s))'
    BY <1>1, <1>2, Advanced
  <2>4. /\ Served(a, s, r) => Connected(a, s, r)
        /\ Connected(a, s, r) => Reached(Server(a), r, StepOf(Server(a), a, s))
    BY <1>2 DEF InOrder
  <2>5. a = At(p) /\ s = Second(p) /\ r = resource_id[p]
          => Reached(Server(a), r, StepOf(Server(a), a, s))
    BY <1>5, <1>6, Ends DEF Reached, TypeOK, ChannelInv
  <2> QED
    BY <2>1, <2>2, <2>3, <2>4, <2>5
<1>8. ListeningNow'
  <2> SUFFICES ASSUME NEW l \in listening'
               PROVE  \E q \in Party : Serving(q)' /\ l = [address |-> Address(q)', owner |-> Socket(q)']
    BY Zenon DEF ListeningNow
  <2>1. PICK q \in Party : Serving(q) /\ l = [address |-> Address(q), owner |-> Socket(q)]
    BY <1>1, <1>2 DEF ListeningNow
  <2>2. q \in Party \ {p}
    BY <1>1, <2>1 DEF Serving
  <2> QED
    BY <1>1, <1>2, <2>1, <2>2, Advanced
<1>9. ASSUME NEW a \in Party, Server(a) # p, Listens(Server(a)) PROVE Listens(Server(a))'
  BY <1>1, <1>2, <1>9, Advanced, Ends DEF Listens
<1>10. PendingNow'
  <2> SUFFICES ASSUME NEW c \in pending'
               PROVE  (\E a \in Party, s \in BOOLEAN, r \in Resource :
                          /\ c = [address |-> AddressOf(a, s, r), client |-> SocketOf(Client(a), a, s, r)]
                          /\ Connected(a, s, r)
                          /\ resource_id[Server(a)] = r /\ step[Server(a)] = StepOf(Server(a), a, s)
                          /\ Listens(Server(a)))'
    BY DEF PendingNow
  <2>1. PICK a \in Party, s \in BOOLEAN, r \in Resource :
          /\ c = [address |-> AddressOf(a, s, r), client |-> SocketOf(Client(a), a, s, r)]
          /\ Connected(a, s, r) \/ (p = Client(a) /\ a = At(p) /\ s = Second(p) /\ r = resource_id[p])
          /\ resource_id[Server(a)] = r /\ step[Server(a)] = StepOf(Server(a), a, s)
          /\ Listens(Server(a))
    <3>1. CASE c \in pending
      BY <1>2, <3>1 DEF PendingNow
    <3>2. CASE c = c0
      <4>1. Listens(Server(At(p)))
        BY <1>4, <1>5 DEF Listens
      <4>2. c = [address |-> AddressOf(At(p), Second(p), resource_id[p]),
                 client |-> SocketOf(Client(At(p)), At(p), Second(p), resource_id[p])]
        BY <1>3, <3>2
      <4> QED
        BY <1>3, <1>5, <4>1, <4>2
    <3> QED
      BY <1>1, <3>1, <3>2
  <2>2. Server(a) \in Party \ {p}
    <3>1. At(Server(a)) = a /\ Server(a) \in Party
      BY <1>2, <2>1, Ends, ChannelOfStep
    <3> QED
      BY <1>3, <3>1
  <2>3. /\ AddressOf(a, s, r)' = AddressOf(a, s, r) /\ Connected(a, s, r)'
        /\ resource_id'[Server(a)] = r /\ step'[Server(a)] = StepOf(Server(a), a, s)
    BY <1>1, <1>2, <2>1, <2>2, Advanced
  <2> QED
    BY <1>9, <2>1, <2>2, <2>3
<1>11. AcceptedPaired'
  BY <1>1, <1>2 DEF AcceptedPaired
<1>12. ClientsKept'
  <2> SUFFICES ASSUME NEW a \in Party, NEW s \in BOOLEAN, NEW r \in Resource, Connected(a, s, r)'
               PROVE  \/ \E c \in pending' : c.client = SocketOf(Client(a), a, s, r) /\ InUse(c.address)'
                      \/ \E d \in accepted' : d.client = SocketOf(Client(a), a, s, r)
    BY Zenon DEF ClientsKept
  <2>1. CASE Connected(a, s, r)
    BY <1>1, <1>2, <2>1 DEF ClientsKept, InUse
  <2>2. CASE p = Client(a) /\ a = At(p) /\ s = Second(p) /\ r = resource_id[p]
    <3>1. PICK c : c = c0
      OBVIOUS
    <3>2. c \in pending' /\ InUse(c.address)'
      BY <1>1, <1>4, <3>1 DEF InUse
    <3>3. c.client = SocketOf(Client(a), a, s, r)
      BY <1>3, <2>2, <3>1
    <3> QED
      BY <3>2, <3>3
  <2> QED
    BY <1>1, <1>2, <2>1, <2>2, Advanced
<1> QED
  BY <1>7, <1>8, <1>10, <1>11, <1>12 DEF ChannelInv

(* A key sent or received moves a party that has made its connections.     *)
LEMMA KeyStep ==
    ASSUME ChannelInv, TypeOK', NEW p \in Party, SendKey(p) \/ ReceiveKey(p)
    PROVE  ChannelInv'
<1>1. /\ step[p] \in {5, 6} /\ UNCHANGED <<host, listening, pending, accepted>>
      /\ \A q \in Party \ {p} : resource_id'[q] = resource_id[q] /\ step'[q] = step[q]
      /\ \/ resource_id'[p] = resource_id[p] /\ step[p] = 5 /\ step'[p] = 6
         \/ resource_id'[p] = resource_id[p] + 1 /\ step[p] = 6 /\ step'[p] = 1
  BY DEF SendKey, ReceiveKey, Advance, TypeOK, ChannelInv
<1>2. TypeOK /\ InOrder /\ ListeningNow /\ PendingNow /\ AcceptedPaired /\ ClientsKept
  BY DEF ChannelInv
<1>3. ASSUME NEW q \in Party, NEW r \in Resource, NEW k \in 1 .. 4
      PROVE  (Done(q, r, k)' <=> Done(q, r, k)) /\ (Reached(q, r, k) => Reached(q, r, k)')
  <2>1. r \in Nat /\ resource_id[q] \in Nat /\ resource_id'[q] \in Nat
    BY <1>2, SetupAssumption DEF TypeOK, Resource
  <2>2. CASE q = p
    BY <1>1, <2>1, <2>2 DEF Done, Reached
  <2>3. CASE q # p
    BY <1>1, <2>1, <2>3 DEF Done, Reached
  <2> QED
    BY <2>2, <2>3
<1>4. ASSUME NEW a \in Party, NEW s \in BOOLEAN, NEW r \in Resource
      PROVE  /\ Connected(a, s, r)' <=> Connected(a, s, r)
             /\ Served(a, s, r)' <=> Served(a, s, r)
             /\ Reached(Server(a), r, StepOf(Server(a), a, s))
                  => Reached(Server(a), r, StepOf(Server(a), a, s))'
  <2>1. /\ Server(a) \in Party /\ Client(a) \in Party
        /\ StepOf(Server(a), a, s) \in 1 .. 4 /\ StepOf(Client(a), a, s) \in 1 .. 4
    BY Ends
  <2> QED
    BY <1>3, <2>1 DEF Connected, Served
<1>5. InOrder'
  <2> SUFFICES ASSUME NEW a \in Party, NEW s \in BOOLEAN, NEW r \in Resource
               PROVE  /\ Served(a, s, r)' => Connected(a, s, r)'
                      /\ Connected(a, s, r)' => Reached(Server(a), r, StepOf(Server(a), a, s))'
    BY DEF InOrder
  <2> QED
    BY <1>2, <1>4 DEF InOrder
<1>6. ASSUME NEW q \in Party \ {p}
      PROVE  /\ Serving(q)' <=> Serving(q)
             /\ Address(q)' = Address(q) /\ Socket(q)' = Socket(q)
  BY <1>1, <1>6, Still
<1>7. ListeningNow'
  <2> SUFFICES ASSUME NEW l \in listening'
               PROVE  \E q \in Party : Serving(q)' /\ l = [address |-> Address(q)', owner |-> Socket(q)']
    BY Zenon DEF ListeningNow
  <2>1. PICK q \in Party : Serving(q) /\ l = [address |-> Address(q), owner |-> Socket(q)]
    BY <1>1, <1>2 DEF ListeningNow
  <2>2. q \in Party \ {p}
    BY <1>1, <2>1 DEF Serving, Connecting
  <2> QED
    BY <1>6, <2>1, <2>2
<1>8. PendingNow'
  <2> SUFFICES ASSUME NEW c \in pending'
               PROVE  (\E a \in Party, s \in BOOLEAN, r \in Resource :
                          /\ c = [address |-> AddressOf(a, s, r), client |-> SocketOf(Client(a), a, s, r)]
                          /\ Connected(a, s, r)
                          /\ resource_id[Server(a)] = r /\ step[Server(a)] = StepOf(Server(a), a, s)
                          /\ Listens(Server(a)))'
    BY DEF PendingNow
  <2>1. PICK a \in Party, s \in BOOLEAN, r \in Resource :
          /\ c = [address |-> AddressOf(a, s, r), client |-> SocketOf(Client(a), a, s, r)]
          /\ Connected(a, s, r)
          /\ resource_id[Server(a)] = r /\ step[Server(a)] = StepOf(Server(a), a, s)
          /\ Listens(Server(a))
    BY <1>1, <1>2 DEF PendingNow
  <2>2. Server(a) \in Party \ {p}
    BY <1>1, <2>1, Ends
  <2>3. Listens(Server(a))'
    BY <1>1, <1>6, <2>1, <2>2 DEF Listens
  <2>4. AddressOf(a, s, r)' = AddressOf(a, s, r)
    BY <1>1 DEF AddressOf
  <2> QED
    BY <1>1, <1>4, <2>1, <2>2, <2>3, <2>4
<1>9. AcceptedPaired'
  BY <1>1, <1>2 DEF AcceptedPaired
<1>10. ClientsKept'
  <2> SUFFICES ASSUME NEW a \in Party, NEW s \in BOOLEAN, NEW r \in Resource, Connected(a, s, r)'
               PROVE  \/ \E c \in pending' : c.client = SocketOf(Client(a), a, s, r) /\ InUse(c.address)'
                      \/ \E d \in accepted' : d.client = SocketOf(Client(a), a, s, r)
    BY Zenon DEF ClientsKept
  <2> QED
    BY <1>1, <1>2, <1>4 DEF ClientsKept, InUse
<1> QED
  BY <1>5, <1>7, <1>8, <1>9, <1>10 DEF ChannelInv

-----------------------------------------------------------------------------
(* The keys: a connection tells which party, which neighbour and which     *)
(* resource.                                                               *)
LEMMA SameChannel ==
    ASSUME NEW p \in Party, NEW q \in Party, NEW a \in Party, NEW s, NEW t,
           NEW r, NEW u, p \in {Server(a), Client(a)}, NEW b \in Party, q \in {Server(b), Client(b)},
           SocketOf(p, a, s, r) = SocketOf(q, b, t, u)
    PROVE  p = q /\ a = b /\ r = u
<1>1. p = q /\ SideOf(p, a) = SideOf(q, b) /\ r = u
  BY DEF SocketOf
<1> QED
  BY <1>1, Neighbours DEF SideOf, Party

LEMMA Connection ==
    ASSUME AcceptedPaired, NEW p \in Party, NEW a \in Party, p \in {Server(a), Client(a)},
           NEW kind \in {"send", "recv"}, NEW c \in ConnectionOf(p, SideOf(p, a), kind)
    PROVE  \E s \in BOOLEAN : /\ c = SocketOf(Client(a), a, s, resource_id[p])
                             /\ kind = IF (p = Server(a)) = s THEN "send" ELSE "recv"
<1> DEFINE socket == <<p, SideOf(p, a), resource_id[p], kind>>
<1>1. IsServer(p, SideOf(p, a)) <=> p = Server(a)
  BY Neighbours DEF IsServer, SideOf, Party
<1>2. CASE p = Server(a)
  <2>1. PICK d \in accepted : d.server = socket /\ c = d.client
    BY <1>1, <1>2 DEF ConnectionOf
  <2>2. PICK b \in Party, s \in BOOLEAN, r \in Resource :
          d = [client |-> SocketOf(Client(b), b, s, r), server |-> SocketOf(Server(b), b, s, r)]
    BY DEF AcceptedPaired
  <2>3. socket = SocketOf(Server(b), b, s, r)
    BY <2>1, <2>2
  <2>4. p = Server(b) /\ SideOf(p, a) = SideOf(Server(b), b) /\ resource_id[p] = r
        /\ kind = IF (Server(b) = Server(b)) = s THEN "send" ELSE "recv"
    BY <2>3 DEF SocketOf
  <2>5. a = b
    <3>1. Server(a) = Server(b) /\ SideOf(p, a) = SideOf(p, b)
      BY <1>2, <2>4
    <3>2. a \in {1, 2, 3} /\ b \in {1, 2, 3}
      BY DEF Party
    <3> QED
      BY <1>2, <3>1, <3>2, Neighbours DEF SideOf
  <2> QED
    BY <1>2, <2>1, <2>2, <2>4, <2>5
<1>3. CASE p = Client(a) /\ p # Server(a)
  <2>1. c = socket
    BY <1>1, <1>3 DEF ConnectionOf
  <2>2. CASE kind = "send"
    <3>1. c = SocketOf(Client(a), a, FALSE, resource_id[p])
      BY <1>3, <2>1, <2>2 DEF SocketOf
    <3> QED
      BY <1>3, <2>2, <3>1
  <2>3. CASE kind = "recv"
    <3>1. c = SocketOf(Client(a), a, TRUE, resource_id[p])
      BY <1>3, <2>1, <2>3 DEF SocketOf
    <3> QED
      BY <1>3, <2>3, <3>1
  <2> QED
    BY <2>2, <2>3
<1> QED
  BY <1>2, <1>3

LEMMA OneMore ==
    ASSUME NEW n \in Nat, NEW a
    PROVE  Append([i \in 1 .. n |-> <<a, i - 1>>], <<a, n>>) = [i \in 1 .. n + 1 |-> <<a, i - 1>>]
<1> DEFINE f == [i \in 1 .. n |-> <<a, i - 1>>]
           g == [i \in 1 .. n + 1 |-> <<a, i - 1>>]
<1>1. f \in Seq({a} \X Nat) /\ Len(f) = n /\ g \in Seq({a} \X Nat) /\ Len(g) = n + 1
  <2>1. f \in [1 .. n -> {a} \X Nat] /\ g \in [1 .. n + 1 -> {a} \X Nat]
    OBVIOUS
  <2> QED
    BY <2>1
<1>2. \A i \in 1 .. n + 1 : Append(f, <<a, n>>)[i] = g[i]
  BY <1>1
<1>3. Append(f, <<a, n>>) \in Seq({a} \X Nat) /\ Len(Append(f, <<a, n>>)) = n + 1
  BY <1>1
<1> QED
  BY <1>1, <1>2, <1>3

LEMMA SendKeyStep ==
    ASSUME ChannelInv, KeysSent, KeysPaired, NEW p \in Party, SendKey(p)
    PROVE  KeysSent' /\ KeysPaired'
<1>1. /\ resource_id' = resource_id /\ prev_prg_key' = prev_prg_key
      /\ wire' = wire \cup
           [connection : ConnectionOf(p, "next", "send"),
            from_server : {IsServer(p, "next")}, key : {<<p, resource_id[p]>>}]
  BY DEF SendKey, Advance
<1>2. SideOf(p, p) = "next" /\ p \in {Server(p), Client(p)} /\ (IsServer(p, "next") <=> p = Server(p))
  BY Neighbours DEF SideOf, IsServer, Party
<1>3. resource_id[p] \in Resource
  BY SetupAssumption DEF ChannelInv, TypeOK, SendKey, Running, Resource
<1>4. ASSUME NEW c \in ConnectionOf(p, "next", "send")
      PROVE  c = SocketOf(Client(p), p, p = Server(p), resource_id[p])
  <2>1. PICK s \in BOOLEAN : /\ c = SocketOf(Client(p), p, s, resource_id[p])
                            /\ "send" = IF (p = Server(p)) = s THEN "send" ELSE "recv"
    BY <1>2, <1>4, Connection DEF ChannelInv
  <2>2. s <=> p = Server(p)
    BY <2>1
  <2>3. SocketOf(Client(p), p, s, resource_id[p]) = SocketOf(Client(p), p, p = Server(p), resource_id[p])
    BY <2>2 DEF SocketOf
  <2> QED
    BY <2>1, <2>3
<1>5. KeysSent'
  <2> SUFFICES ASSUME NEW m \in wire'
               PROVE  \E q \in Party, r \in Resource :
                        m = [connection |-> SocketOf(Client(q), q, q = Server(q), r),
                             from_server |-> q = Server(q), key |-> <<q, r>>]
    BY DEF KeysSent
  <2>1. CASE m \in wire
    BY <2>1 DEF KeysSent
  <2>2. CASE m \in [connection : ConnectionOf(p, "next", "send"),
                   from_server : {IsServer(p, "next")}, key : {<<p, resource_id[p]>>}]
    <3>1. PICK c \in ConnectionOf(p, "next", "send") :
            m = [connection |-> c, from_server |-> IsServer(p, "next"), key |-> <<p, resource_id[p]>>]
      BY <2>2
    <3>2. IsServer(p, "next") = (p = Server(p))
      BY <1>2 DEF IsServer
    <3>3. m = [connection |-> SocketOf(Client(p), p, p = Server(p), resource_id[p]),
               from_server |-> p = Server(p), key |-> <<p, resource_id[p]>>]
      BY <1>4, <3>1, <3>2
    <3> QED
      BY <1>3, <3>3
  <2> QED
    BY <1>1, <2>1, <2>2
<1>6. KeysPaired'
  BY <1>1 DEF KeysPaired
<1> QED
  BY <1>5, <1>6

LEMMA ReceiveKeyStep ==
    ASSUME ChannelInv, KeysSent, KeysPaired, NEW p \in Party, ReceiveKey(p)
    PROVE  KeysSent' /\ KeysPaired'
<1>1. PICK m \in wire :
        /\ m.connection \in ConnectionOf(p, "prev", "recv")
        /\ prev_prg_key' = [prev_prg_key EXCEPT ![p] = Append(@, m.key)]
        /\ wire' = wire \ {m}
  BY DEF ReceiveKey
<1>2. resource_id' = [resource_id EXCEPT ![p] = @ + 1] /\ resource_id \in [Party -> Nat]
  BY SetupAssumption DEF ReceiveKey, ChannelInv, TypeOK
<1>3. KeysSent'
  BY <1>1 DEF KeysSent
<1> DEFINE a == prev_party(p)
<1>4. a \in Party /\ SideOf(p, a) = "prev" /\ p \in {Server(a), Client(a)}
  BY Neighbours DEF SideOf, Party
<1>5. m.key = <<a, resource_id[p]>>
  <2>1. PICK s \in BOOLEAN : m.connection = SocketOf(Client(a), a, s, resource_id[p])
    BY <1>1, <1>4, Connection DEF ChannelInv
  <2>2. PICK q \in Party, r \in Resource :
          m = [connection |-> SocketOf(Client(q), q, q = Server(q), r),
               from_server |-> q = Server(q), key |-> <<q, r>>]
    BY DEF KeysSent
  <2>3. SocketOf(Client(a), a, s, resource_id[p]) = SocketOf(Client(q), q, q = Server(q), r)
    BY <2>1, <2>2
  <2>4. a = q /\ resource_id[p] = r
    BY <1>4, <2>3, Ends, SameChannel
  <2> QED
    BY <2>2, <2>4
<1>6. KeysPaired'
  <2> SUFFICES ASSUME NEW q \in Party
               PROVE  prev_prg_key'[q] = [i \in 1 .. resource_id'[q] |-> <<prev_party(q), i - 1>>]
    <3>1. DOMAIN prev_prg_key' = Party /\ prev_prg_key' = [q \in DOMAIN prev_prg_key' |-> prev_prg_key'[q]]
      BY <1>1 DEF KeysPaired
    <3> QED
      BY <3>1, Zenon DEF KeysPaired
  <2>1. prev_prg_key[q] = [i \in 1 .. resource_id[q] |-> <<prev_party(q), i - 1>>]
    BY DEF KeysPaired
  <2>2. CASE q # p
    BY <1>1, <1>2, <2>1, <2>2 DEF KeysPaired
  <2>3. CASE q = p
    <3>1. prev_prg_key'[p] = Append(prev_prg_key[p], m.key)
      BY <1>1 DEF KeysPaired
    <3>2. resource_id[p] \in Nat /\ resource_id'[p] = resource_id[p] + 1
      BY <1>2
    <3>3. Append([i \in 1 .. resource_id[p] |-> <<prev_party(p), i - 1>>], <<prev_party(p), resource_id[p]>>)
            = [i \in 1 .. resource_id[p] + 1 |-> <<prev_party(p), i - 1>>]
      BY <3>2, OneMore
    <3>4. prev_prg_key[p] = [i \in 1 .. resource_id[p] |-> <<prev_party(p), i - 1>>]
      BY <2>1, <2>3
    <3>5. prev_prg_key'[p] = [i \in 1 .. resource_id[p] + 1 |-> <<prev_party(p), i - 1>>]
      BY <1>5, <3>1, <3>3, <3>4, Zenon
    <3> QED
      BY <2>3, <3>2, <3>5, Zenon
  <2> QED
    BY <2>2, <2>3
<1> QED
  BY <1>3, <1>6

-----------------------------------------------------------------------------
LEMMA InitInv == Init => SetupInv
<1> SUFFICES ASSUME Init PROVE SetupInv
  OBVIOUS
<1>1. /\ resource_id = [p \in Party |-> 0] /\ step = [p \in Party |-> 1]
      /\ listening = {} /\ pending = {} /\ accepted = {} /\ wire = {}
      /\ prev_prg_key = [p \in Party |-> <<>>] /\ host \in Deployments
  BY DEF Init
<1>2. TypeOK
  BY <1>1, SetupAssumption DEF TypeOK
<1>3. \A a \in Party : \A s \in BOOLEAN : \A r \in Resource :
        ~Connected(a, s, r) /\ ~Served(a, s, r)
  <2> SUFFICES ASSUME NEW a \in Party, NEW s \in BOOLEAN, NEW r \in Resource
               PROVE  ~Connected(a, s, r) /\ ~Served(a, s, r)
    OBVIOUS
  <2>1. \A q \in Party : \A k \in 1 .. 4 : ~Done(q, r, k)
    BY <1>1, SetupAssumption DEF Done, Resource
  <2> QED
    BY <2>1, Ends DEF Connected, Served
<1>4. InOrder /\ ClientsKept
  BY <1>3 DEF InOrder, ClientsKept
<1>5. ListeningNow /\ PendingNow /\ AcceptedPaired /\ KeysSent
  BY <1>1 DEF ListeningNow, PendingNow, AcceptedPaired, KeysSent
<1>6. KeysPaired
  <2>1. \A p \in Party : [i \in 1 .. resource_id[p] |-> <<prev_party(p), i - 1>>] = <<>>
    BY <1>1
  <2> QED
    BY <1>1, <2>1 DEF KeysPaired
<1> QED
  BY <1>2, <1>4, <1>5, <1>6 DEF SetupInv

LEMMA NextInv == SetupInv /\ [Next]_vars => SetupInv'
<1> SUFFICES ASSUME SetupInv, [Next]_vars PROVE SetupInv'
  OBVIOUS
<1>1. ChannelInv /\ TypeOK' /\ KeysSent /\ KeysPaired
  BY TypeStep DEF SetupInv, ChannelInv
<1> SUFFICES ChannelInv' /\ KeysSent' /\ KeysPaired'
  BY DEF SetupInv, ChannelInv
<1>2. CASE UNCHANGED vars
  <2>1. TypeOK' /\ InOrder' /\ AcceptedPaired'
    BY <1>1, <1>2 DEF vars, ChannelInv, InOrder, AcceptedPaired, Served, Connected, Reached, Done
  <2>2. ListeningNow'
    <3>1. \A q \in Party : (Serving(q)' <=> Serving(q)) /\ Address(q)' = Address(q) /\ Socket(q)' = Socket(q)
      BY <1>2, Still DEF vars
    <3> SUFFICES ASSUME NEW l \in listening'
                 PROVE  \E q \in Party : Serving(q)' /\ l = [address |-> Address(q)', owner |-> Socket(q)']
      BY Zenon DEF ListeningNow
    <3>2. l \in listening
      BY <1>2 DEF vars
    <3> QED
      BY <1>1, <3>1, <3>2 DEF ChannelInv, ListeningNow
  <2>3. PendingNow'
    <3>1. \A q \in Party : Listens(q)' <=> Listens(q)
      BY <1>2, Still DEF vars, Listens
    <3>2. \A a, s, r : AddressOf(a, s, r)' = AddressOf(a, s, r) /\ (Connected(a, s, r)' <=> Connected(a, s, r))
      BY <1>2 DEF vars, AddressOf, Connected, Done
    <3> QED
      BY <1>1, <1>2, <3>1, <3>2, Ends DEF vars, ChannelInv, PendingNow
  <2>4. ClientsKept'
    BY <1>1, <1>2 DEF vars, ChannelInv, ClientsKept, Connected, Done, InUse
  <2>5. KeysSent' /\ KeysPaired'
    BY <1>1, <1>2 DEF vars, KeysSent, KeysPaired
  <2> QED
    BY <2>1, <2>2, <2>3, <2>4, <2>5 DEF ChannelInv
<1>3. ASSUME NEW p \in Party, wire' = wire, prev_prg_key' = prev_prg_key, resource_id' = resource_id
      PROVE  KeysSent' /\ KeysPaired'
  BY <1>1, <1>3 DEF KeysSent, KeysPaired
<1>4. ASSUME NEW p \in Party, Listen(p) PROVE ChannelInv' /\ KeysSent' /\ KeysPaired'
  BY <1>1, <1>3, <1>4, ListenStep DEF Listen
<1>5. ASSUME NEW p \in Party, Accept(p) PROVE ChannelInv' /\ KeysSent' /\ KeysPaired'
  <2>1. wire' = wire /\ prev_prg_key' = prev_prg_key /\ resource_id' = resource_id
    BY <1>5 DEF Accept, Advance
  <2> QED
    BY <1>1, <1>3, <1>5, <2>1, AcceptStep
<1>6. ASSUME NEW p \in Party, Connect(p) PROVE ChannelInv' /\ KeysSent' /\ KeysPaired'
  <2>1. wire' = wire /\ prev_prg_key' = prev_prg_key /\ resource_id' = resource_id
    BY <1>6 DEF Connect, Advance
  <2> QED
    BY <1>1, <1>3, <1>6, <2>1, ConnectStep
<1>7. ASSUME NEW p \in Party, SendKey(p) PROVE ChannelInv' /\ KeysSent' /\ KeysPaired'
  BY <1>1, <1>7, KeyStep, SendKeyStep
<1>8. ASSUME NEW p \in Party, ReceiveKey(p) PROVE ChannelInv' /\ KeysSent' /\ KeysPaired'
  BY <1>1, <1>8, KeyStep, ReceiveKeyStep
<1> QED
  BY <1>2, <1>4, <1>5, <1>6, <1>7, <1>8 DEF Next, Run

(* The parties stay within a resource of each other, every socket in use   *)
(* belongs to the channel it should, and every key is on its way to the    *)
(* party it is meant for.                                                  *)
THEOREM SetupInductive == Spec => []SetupInv
<1> QED
  BY InitInv, NextInv, PTL DEF Spec

(* The two ends of every connection are those of one channel.              *)
THEOREM SocketsMatchedHolds == Spec => []SocketsMatched
<1>1. SetupInv => SocketsMatched
  <2> SUFFICES ASSUME SetupInv, NEW d \in accepted PROVE Opposite(d.client, d.server)
    BY DEF SocketsMatched
  <2>1. PICK a \in Party, s \in BOOLEAN, r \in Resource :
          d = [client |-> SocketOf(Client(a), a, s, r), server |-> SocketOf(Server(a), a, s, r)]
    BY DEF SetupInv, AcceptedPaired
  <2>2. a \in {1, 2, 3}
    BY DEF Party
  <2>3. Opposite(SocketOf(Client(a), a, s, r), SocketOf(Server(a), a, s, r))
    BY <2>2, Neighbours DEF Opposite, SocketOf, SideOf
  <2> QED
    BY <2>1, <2>3
<1> QED
  BY <1>1, SetupInductive, PTL

(* No client that believes it is connected has been forgotten.             *)
THEOREM ConnectionsKeptHolds == Spec => []ConnectionsKept
<1>1. SetupInv => ConnectionsKept
  <2> SUFFICES ASSUME SetupInv, NEW s \in Sockets, ~IsServer(s[1], s[2]), Past(s[1], s)
               PROVE  \/ \E c \in pending : c.client = s /\ InUse(c.address)
                      \/ \E d \in accepted : d.client = s
    BY DEF ConnectionsKept
  <2> DEFINE p == s[1]
             r == s[3]
             a == Pair(p, s[2])
             second == s[4] = "recv"
  <2>1. p \in {1, 2, 3} /\ s[2] \in {"prev", "next"} /\ r \in Resource /\ s[4] \in {"send", "recv"}
        /\ s = <<p, s[2], r, s[4]>>
    BY DEF Sockets, Party
  <2>2. a \in Party /\ p = Client(a) /\ p # Server(a) /\ SideOf(p, a) = s[2]
    BY <2>1, Neighbours DEF IsServer, Pair, SideOf, Party
  <2>3. s = SocketOf(Client(a), a, second, r)
    BY <2>1, <2>2 DEF SocketOf
  <2>4. Connected(a, second, r)
    <3>1. CASE r < resource_id[p]
      BY <2>2, <3>1 DEF Connected, Done
    <3>2. CASE ~(r < resource_id[p])
      <4>1. PICK k \in 1 .. step[p] - 1 :
              r = resource_id[p] /\ k =< 4 /\ s[2] = Sides(p)[(k + 1) \div 2]
              /\ s[4] = IF k % 2 = 0 THEN "recv" ELSE "send"
        BY <3>2 DEF Past
      <4>2. k \in {1, 2, 3, 4} /\ k < step[p] /\ step[p] \in 1 .. 6
        BY <2>1, <4>1 DEF SetupInv, TypeOK, Party
      <4>3. second <=> k \in {2, 4}
        BY <4>1, <4>2
      <4>4. s[2] = Sides(p)[IF k \in {1, 2} THEN 1 ELSE 2]
        BY <4>1, <4>2
      <4>5. Sides(p)[1] = s[2] <=> k \in {1, 2}
        BY <2>1, <4>2, <4>4 DEF Sides
      <4>6. StepOf(p, a, second) = k
        BY <2>2, <4>2, <4>3, <4>5 DEF StepOf
      <4> QED
        BY <2>2, <4>1, <4>2, <4>6 DEF Connected, Done
    <3> QED
      BY <3>1, <3>2
  <2> QED
    BY <2>1, <2>2, <2>3, <2>4 DEF SetupInv, ClientsKept
<1> QED
  BY <1>1, SetupInductive, PTL

(* A server finds its address free.                                        *)
THEOREM PortsFreeHolds == Spec => []PortsFree
<1>1. SetupInv => PortsFree
  <2> SUFFICES ASSUME SetupInv, NEW p \in Party, Serving(p), NEW l \in listening, l.address = Address(p)
               PROVE  Listens(p)
    BY DEF PortsFree, InUse
  <2>1. p = Server(At(p)) /\ Connecting(p)
    BY Channel DEF SetupInv, Serving, Connecting
  <2>2. l.owner = Socket(p)
    BY <2>1, Listener DEF SetupInv
  <2> QED
    BY <2>2 DEF Listens
<1> QED
  BY <1>1, SetupInductive, PTL

(* The generators of neighbours are seeded alike, for every resource.      *)
THEOREM KeysPairedHolds == Spec => []KeysPaired
<1> QED
  BY SetupInductive, PTL DEF SetupInv
=============================================================================
