----------------------------- MODULE PeerProofs -----------------------------
(***************************************************************************)
(* Theorems of PeerConnections, for every set of devices and transports    *)
(* and every bound: whatever breaks, fails, is evicted or comes back.      *)
(*                                                                         *)
(* Every step of PeerConnections is a step of the signaling actions or a   *)
(* client that signals (SignalingStep), so that what is proved of          *)
(* Signaling holds here too. What a signal means rests on where it came    *)
(* from, so the invariant follows signals through the server (Directed).   *)
(***************************************************************************)
EXTENDS PeerConnections, SignalingProofs

\* What a device may signal to another: only the lower one offers.
Fits(from, to, data) == from # to /\ (data.kind = "offer" => from < to)

\* What may be in flight on a socket.
FitUp(s) ==
  [t : {"join"}] \cup {m \in Signal : Fits(DeviceAt(s), m.to, m.data)}
FitDown(s) ==
  {m \in DownMessage : m.t = "signal" => Fits(m.from, DeviceAt(s), m.data)}
Directed ==
  \A s \in Socket : up[s] \in Seq(FitUp(s)) /\ down[s] \in Seq(FitDown(s))

\* What a client may be awaiting: on a connection of its own, an offer if it
\* initiates, and another's offer only if it does not.
Held(c) ==
  {k \in Call :
     /\ k.pc \in DOMAIN pcs /\ k.pc[1] = c
     /\ k.at = "offer" => Initiator(c, k.pc[2])
     /\ k.at = "remote" => k.sig \in Description
     /\ k.sig.kind = "offer" => ~Initiator(c, k.pc[2])
     /\ k.at = "answer" => pcs[k.pc].remote # NoConn}
CallsHeld == \A c \in Client : calls[c] \in Seq(Held(c))

\* The connections a client has made for a device are numbered from 1.
MadeFor(c, d) == {p \in Owned(c) : p[2] = d}
FirstOf(c, d, k) == {<<c, d, n>> : n \in 1 .. k}
InOrder ==
  \A c \in Client, d \in Device :
    MadeFor(c, d) = FirstOf(c, d, Cardinality(MadeFor(c, d)))

Connections ==
  /\ DOMAIN pcs \subseteq Conn /\ pcs \in [DOMAIN pcs -> Peer]
  /\ \A p \in DOMAIN pcs :
       /\ p[2] # DeviceOf[p[1]]
       /\ pcs[p].state = "offered" => Initiator(p[1], p[2])

\* A connection is open exactly while it is listed.
Listing ==
  /\ peers \in [Client -> [Device -> Conn \cup {NoConn}]]
  /\ \A c \in Client, d \in Device :
       peers[c][d] # NoConn =>
         peers[c][d] \in DOMAIN pcs /\ peers[c][d][1] = c /\ peers[c][d][2] = d
  /\ \A p \in DOMAIN pcs : pcs[p].state # "closed" <=> peers[p[1]][p[2]] = p

\* Nobody lists a connection before it was constructed or after it closed.
Away ==
  \A c \in Client : phase[c] \in {"idle", "closed"} =>
    \A d \in Device : peers[c][d] = NoConn

MeshInv ==
  calls \in [Client -> Seq(Call)] /\ CallsHeld /\ InOrder /\ Connections /\ Listing
PeerInv == MeshInv /\ Directed /\ Away /\ failures \in 0 .. MaxFailures

-----------------------------------------------------------------------------
\* Sequences.

\* Queues change by appending, joining, dropping and removing.
LEMMA QueueChanges ==
  ASSUME NEW S, NEW q \in Seq(S)
  PROVE  /\ <<>> \in Seq(S)
         /\ \A e \in S : <<e>> \in Seq(S) /\ Append(q, e) \in Seq(S)
         /\ \A t \in Seq(S) : q \o t \in Seq(S)
         /\ q # <<>> => Head(q) \in S /\ Tail(q) \in Seq(S)
         /\ \A i \in DOMAIN q : q[i] \in S /\ RemoveAt(q, i) \in Seq(S)
<1>1. ASSUME NEW i \in DOMAIN q  PROVE RemoveAt(q, i) \in Seq(S)
  <2>1. SubSeq(q, 1, i - 1) \in Seq(S) /\ SubSeq(q, i + 1, Len(q)) \in Seq(S)
    BY SubSeqProperties
  <2>. QED  BY <2>1 DEF RemoveAt
<1>. QED  BY <1>1

\* A sequence is one of any set that its elements are in.
LEMMA QueueOf ==
  ASSUME NEW S, NEW T, NEW q \in Seq(T), \A i \in DOMAIN q : q[i] \in S
  PROVE  q \in Seq(S)
OBVIOUS

\* A set that is counted out as a sequence gives one of its elements.
LEMMA SetToSeqType ==
  ASSUME NEW S, IsFiniteSet(S)
  PROVE  SetToSeq(S) \in Seq(S)
<1>1. PICK n \in Nat : ExistsBijection(1 .. n, S)
  BY FS_NatBijection
<1>2. Cardinality(S) = n
  BY <1>1, FS_CountingElements
<1>3. PICK f : f \in Bijection(1 .. n, S)
  BY <1>1 DEF ExistsBijection
<1>4. f \in [1 .. n -> S] /\ IsInjective(f)
  BY <1>3 DEF Bijection, Injection, IsInjective
<1>5. SetToSeq(S) \in [1 .. n -> S]
  BY <1>2, <1>4 DEF SetToSeq
<1>. QED  BY <1>5

-----------------------------------------------------------------------------
\* Signals go where they are meant to.

\* A message about presence fits everywhere.
LEMMA NewsFits ==
  ASSUME NEW q, \A s \in Socket : q[s] \in Seq(FitDown(s)),
         NEW targets, NEW m \in DownMessage, m.t # "signal"
  PROVE  \A s \in Socket : SendTo(q, targets, m)[s] \in Seq(FitDown(s))
<1>1. \A s \in Socket : m \in FitDown(s)
  BY DEF FitDown
<1>2. \A s \in Socket : Append(q[s], m) \in Seq(FitDown(s))
  BY <1>1, QueueChanges
<1>. QED  BY <1>2 DEF SendTo

\* What the server says of a join, a leave or an eviction fits, and a signal
\* is relayed to the device it was addressed to.
LEMMA DirectedByServer ==
  ASSUME RoomInv, Directed, NEW s \in Socket, Serve(s) \/ ServerClose(s)
  PROVE  \A r \in Socket : down'[r] \in Seq(FitDown(r))
<1>. DEFINE Fitting(q) == \A r \in Socket : q[r] \in Seq(FitDown(r))
<1>0. Fitting(down) /\ DeviceAt(s) \in Device
  BY SocketIsPair DEF Directed
<1>1. CASE Serve(s) /\ Head(up[s]).t = "join"
  <2> DEFINE d == DeviceAt(s)
             present == {e \in Device \ {d} : room[e] # NoSocket}
             evicted == {room[d]} \ {NoSocket}
             left == [t |-> "close4000"]
             welcome == [t |-> "peers", devices |-> present]
             news == [t |-> "peer-joined", device |-> d]
             warned == SendTo(down, evicted, left)
             greeted == SendTo(warned, {s}, welcome)
  <2>1. left \in DownMessage /\ welcome \in DownMessage /\ news \in DownMessage
    BY <1>0 DEF DownMessage
  <2>2. down' = SendTo(greeted, Others(s), news)
    BY <1>1 DEF Serve, Join
  <2>3. Fitting(warned)
    BY <1>0, <2>1, NewsFits
  <2>4. Fitting(greeted)
    <3>. HIDE DEF warned
    <3>. QED  BY <2>1, <2>3, NewsFits
  <2>5. Fitting(down')
    <3>. HIDE DEF greeted
    <3>. QED  BY <2>1, <2>2, <2>4, NewsFits
  <2>. QED  BY <2>5
<1>2. CASE Serve(s) /\ Head(up[s]).t # "join"
  <2> DEFINE m == Head(up[s])
             signal == [t |-> "signal", from |-> DeviceAt(s), data |-> m.data]
  <2>1. up[s] # <<>> /\ down' = SendTo(down, {room[m.to]}, signal)
    BY <1>2 DEF Serve, Relay
  <2>2. m \in Signal /\ Fits(DeviceAt(s), m.to, m.data)
    <3>1. m \in FitUp(s)
      BY <2>1, QueueChanges DEF Directed
    <3>. QED  BY <1>2, <3>1 DEF FitUp
  <2>3. signal \in DownMessage
    BY <1>0, <2>2 DEF DownMessage, Signal
  <2>4. ASSUME NEW r \in Socket
        PROVE  down'[r] \in Seq(FitDown(r))
    <3>1. down'[r] = down[r] \/ (r = room[m.to] /\ down'[r] = Append(down[r], signal))
      BY <2>1 DEF SendTo
    <3>2. ASSUME r = room[m.to]
          PROVE  signal \in FitDown(r)
      <4>1. m.to \in Device /\ DeviceAt(r) = m.to
        BY <2>2, <3>2, SocketIsPair DEF Signal, RoomInv, RoomOwn
      <4>2. signal.from = DeviceAt(s) /\ signal.data = m.data
        OBVIOUS
      <4>. HIDE DEF signal, m
      <4>3. Fits(signal.from, DeviceAt(r), signal.data)
        BY <2>2, <4>1, <4>2
      <4>. QED  BY <2>3, <4>3 DEF FitDown
    <3>3. down[r] \in Seq(FitDown(r))
      BY <1>0
    <3>. HIDE DEF signal
    <3>4. r = room[m.to] => Append(down[r], signal) \in Seq(FitDown(r))
      BY <3>2, <3>3, QueueChanges
    <3>. QED  BY <3>1, <3>3, <3>4
  <2>. QED  BY <2>4
<1>3. CASE ServerClose(s)
  <2> DEFINE news == [t |-> "peer-left", device |-> DeviceAt(s)]
  <2>1. down' = down \/ down' = SendTo(down, Others(s), news)
    BY <1>3 DEF ServerClose, Leave
  <2>2. news \in DownMessage
    BY <1>0 DEF DownMessage
  <2>3. Fitting(SendTo(down, Others(s), news))
    BY <1>0, <2>2, NewsFits
  <2>. QED  BY <1>0, <2>1, <2>3
<1>. QED  BY <1>1, <1>2, <1>3

\* No step of the signaling actions sends a signal astray.
LEMMA DirectedStep ==
  ASSUME RoomInv, Directed, [SignalingNext]_signalingVars
  PROVE  Directed'
<1>. USE DEF RoomInv
<1>1. CASE UNCHANGED <<up, down>>
  BY <1>1 DEF Directed
<1>2. ASSUME NEW c \in Client, Opened(c)
      PROVE  Directed'
  <2>1. UNCHANGED down /\ up' = [up EXCEPT ![Current(c)] = Append(@, [t |-> "join"])]
    BY <1>2 DEF Opened
  <2>2. ASSUME NEW s \in Socket  PROVE up'[s] \in Seq(FitUp(s))
    <3>1. Append(up[s], [t |-> "join"]) \in Seq(FitUp(s)) /\ up[s] \in Seq(FitUp(s))
      BY QueueChanges DEF Directed, FitUp
    <3>. QED  BY <2>1, <3>1 DEF SignalingTypeOK
  <2>. QED  BY <2>1, <2>2 DEF Directed
<1>3. ASSUME NEW c \in Client, Hear(c)
      PROVE  Directed'
  <2>1. /\ UNCHANGED up /\ down' = [down EXCEPT ![Current(c)] = Tail(@)]
        /\ down[Current(c)] # <<>>
    BY <1>3 DEF Hear, Receive
  <2>2. ASSUME NEW s \in Socket  PROVE down'[s] \in Seq(FitDown(s))
    <3>1. down[s] \in Seq(FitDown(s)) /\ (down[s] # <<>> => Tail(down[s]) \in Seq(FitDown(s)))
      BY QueueChanges DEF Directed
    <3>. QED  BY <2>1, <3>1 DEF SignalingTypeOK
  <2>. QED  BY <2>1, <2>2 DEF Directed
<1>4. ASSUME NEW c \in Client, NEW to, LoseEnd(c, to)
      PROVE  Directed'
  <2>1. ASSUME NEW s \in Socket  PROVE up'[s] \in Seq(FitUp(s))
    <3>1. /\ up'[s] \in Seq(UpMessage) /\ DOMAIN up'[s] \subseteq DOMAIN up[s]
          /\ \A i \in DOMAIN up'[s] : up'[s][i] = up[s][i]
      BY <1>4, LoseEndUp
    <3>2. \A i \in DOMAIN up[s] : up[s][i] \in FitUp(s)
      BY QueueChanges DEF Directed
    <3>. QED  BY <3>1, <3>2, QueueOf
  <2>2. ASSUME NEW s \in Socket  PROVE down'[s] \in Seq(FitDown(s))
    BY <1>4 DEF LoseEnd, Directed
  <2>. QED  BY <2>1, <2>2 DEF Directed
<1>5. ASSUME NEW s \in Socket, Serve(s)
      PROVE  Directed'
  <2>1. up[s] # <<>> /\ up' = [up EXCEPT ![s] = Tail(@)]
    BY <1>5 DEF Serve
  <2>2. ASSUME NEW r \in Socket  PROVE up'[r] \in Seq(FitUp(r))
    <3>1. up[r] \in Seq(FitUp(r)) /\ (up[r] # <<>> => Tail(up[r]) \in Seq(FitUp(r)))
      BY QueueChanges DEF Directed
    <3>. QED  BY <2>1, <3>1 DEF SignalingTypeOK
  <2>. QED  BY <1>5, <2>2, DirectedByServer DEF Directed
<1>6. ASSUME NEW s \in Socket, Closes(s) \/ Loses(s)
      PROVE  Directed'
  <2>1. ASSUME NEW r \in Socket  PROVE up'[r] \in Seq(FitUp(r))
    <3>1. up[r] \in Seq(FitUp(r)) /\ <<>> \in Seq(FitUp(r))
      BY DEF Directed
    <3>. QED  BY <1>6, <3>1 DEF Closes, Loses, SignalingTypeOK
  <2>. QED  BY <1>6, <2>1, DirectedByServer DEF Closes, Loses, Directed
<1>. QED
  BY <1>1, <1>2, <1>3, <1>4, <1>5, <1>6 DEF SignalingNext, Progressing, Breaking, Living,
     Construct, Retry, Connect, ConnectFails, Break, Notice, Close, signalingVars

\* What a client signals about its own connections goes where it fits.
Fitting(c) == {m \in Signal : Fits(DeviceOf[c], m.to, m.data)}

\* A client that signals what fits is a step of SignalingStep.
LEMMA SpeakFits ==
  ASSUME RoomInv, Directed, NEW c \in Client, NEW msgs \in Seq(Fitting(c)),
         up' = SigSend(up, c, msgs),
         UNCHANGED <<clientVars, down, serverVars, told, broken, evictions>>
  PROVE  Directed' /\ Speak(c)
<1>1. Fitting(c) \subseteq Signal
  BY DEF Fitting
<1>2. Speak(c)
  <2>1. msgs \in Seq(Signal)
    BY <1>1
  <2>. QED  BY <2>1 DEF Speak
<1>3. ASSUME NEW s \in Socket
      PROVE  up'[s] \in Seq(FitUp(s))
  <2>1. up[s] \in Seq(FitUp(s)) /\ up \in [Socket -> Seq(UpMessage)]
    BY DEF Directed, RoomInv, SignalingTypeOK
  <2>2. up'[s] = up[s] \/ (s = Current(c) /\ up'[s] = up[s] \o msgs)
    BY <2>1 DEF SigSend
  <2>3. ASSUME s = Current(c)  PROVE up[s] \o msgs \in Seq(FitUp(s))
    <3>1. Fitting(c) \subseteq FitUp(s)
      BY <2>3 DEF Fitting, FitUp, DeviceAt, Current
    <3>2. msgs \in Seq(FitUp(s))
      BY <3>1
    <3>. QED  BY <2>1, <3>2, QueueChanges
  <2>. QED  BY <2>1, <2>2, <2>3
<1>. QED  BY <1>2, <1>3 DEF Directed

-----------------------------------------------------------------------------
\* Connections: how they are numbered, listed and dropped.

\* A connection is of a client, for a device, with a number.
LEMMA ConnIsTriple ==
  /\ \A p \in Conn : /\ p[1] \in Client /\ p[2] \in Device /\ p[3] \in 1 .. MaxConns
                     /\ p = <<p[1], p[2], p[3]>> /\ p # NoConn
BY DEF Conn, NoConn

\* So many are counted.
LEMMA CountOf ==
  ASSUME NEW c, NEW d, NEW k \in Nat
  PROVE  Cardinality(FirstOf(c, d, k)) = k
<1> DEFINE S == FirstOf(c, d, k)
           f == [n \in 1 .. k |-> <<c, d, n>>]
<1>1. f \in [1 .. k -> S]
  BY DEF FirstOf
<1>2. \A a, b \in 1 .. k : f[a] = f[b] => a = b
  <2>. TAKE a \in 1 .. k, b \in 1 .. k
  <2>1. f[a] = <<c, d, a>> /\ f[b] = <<c, d, b>>
    OBVIOUS
  <2>. QED  BY <2>1
<1>3. \A t \in S : \E n \in 1 .. k : f[n] = t
  BY DEF FirstOf
<1>4. ExistsBijection(1 .. k, S)
  <2>. HIDE DEF f, S
  <2>1. f \in Injection(1 .. k, S)
    BY <1>1, <1>2 DEF Injection, IsInjective
  <2>2. f \in Surjection(1 .. k, S)
    BY <1>1, <1>3 DEF Surjection
  <2>. QED  BY <2>1, <2>2 DEF ExistsBijection, Bijection
<1>. QED  BY <1>4, FS_CountingElements

\* One more is made.
LEMMA OneMore ==
  ASSUME NEW c, NEW d, NEW k \in Nat
  PROVE  FirstOf(c, d, k) \cup {<<c, d, 1 + k>>} = FirstOf(c, d, 1 + k)
<1>1. 1 + k \in 1 .. 1 + k /\ \A n \in 1 .. k : n \in 1 .. 1 + k
  OBVIOUS
<1>2. \A n \in 1 .. 1 + k : n \in 1 .. k \/ n = 1 + k
  OBVIOUS
<1>3. \A t \in FirstOf(c, d, k) \cup {<<c, d, 1 + k>>} : t \in FirstOf(c, d, 1 + k)
  BY <1>1 DEF FirstOf
<1>4. \A t \in FirstOf(c, d, 1 + k) : t \in FirstOf(c, d, k) \cup {<<c, d, 1 + k>>}
  BY <1>2 DEF FirstOf
<1>. QED  BY <1>3, <1>4

\* There are finitely many connections to be made.
LEMMA ConnFinite == IsFiniteSet(Conn)
<1>1. IsFiniteSet(1 .. MaxConns)
  BY FS_Interval, PeerAssumption
<1> DEFINE P == (Client \X Device) \X (1 .. MaxConns)
           f == [t \in P |-> <<t[1][1], t[1][2], t[2]>>]
<1>2. IsFiniteSet(P)
  BY <1>1, FS_Product, SignalingAssumption, PeerAssumption
<1>3. f \in [P -> Conn]
  BY DEF Conn
<1>4. \A p \in Conn : \E t \in P : f[t] = p
  <2>. TAKE p \in Conn
  <2>1. <<<<p[1], p[2]>>, p[3]>> \in P /\ p = <<p[1], p[2], p[3]>>
    BY ConnIsTriple
  <2>. QED  BY <2>1
<1>5. f \in Surjection(P, Conn)
  <2>. HIDE DEF f, P
  <2>. QED  BY <1>3, <1>4 DEF Surjection
<1>. HIDE DEF f, P
<1>. QED  BY <1>2, <1>5, FS_Surjection

\* The connections made for a device are finite in number.
LEMMA MadeForFinite ==
  ASSUME Connections, NEW c \in Client, NEW d \in Device
  PROVE  Cardinality(MadeFor(c, d)) \in Nat
<1>1. MadeFor(c, d) \subseteq Conn
  BY DEF MadeFor, Owned, Connections
<1>. QED  BY <1>1, ConnFinite, FS_Subset, FS_CardinalityType

\* The next connection is a new one.
LEMMA NextIsNew ==
  ASSUME Connections, InOrder, NEW c \in Client, NEW d \in Device
  PROVE  /\ NextConn(c, d) = <<c, d, 1 + Cardinality(MadeFor(c, d))>>
         /\ NextConn(c, d) \notin DOMAIN pcs
<1> DEFINE k == Cardinality(MadeFor(c, d))
<1>1. k \in Nat /\ MadeFor(c, d) = FirstOf(c, d, k)
  BY MadeForFinite DEF InOrder
<1>2. NextConn(c, d) = <<c, d, 1 + k>>
  BY DEF NextConn, MadeFor
<1>. HIDE DEF k
<1>3. <<c, d, 1 + k>> \notin MadeFor(c, d)
  BY <1>1 DEF FirstOf
<1>4. <<c, d, 1 + k>> \in DOMAIN pcs => <<c, d, 1 + k>> \in MadeFor(c, d)
  BY DEF MadeFor, Owned
<1>. QED  BY <1>2, <1>3, <1>4 DEF k

\* While connections are only added and keep the description they have, calls
\* that may be awaited still may.
LEMMA HeldGrows ==
  ASSUME DOMAIN pcs \subseteq DOMAIN pcs',
         \A p \in DOMAIN pcs : pcs[p].remote # NoConn => pcs'[p].remote # NoConn,
         NEW c \in Client
  PROVE  Held(c) \subseteq Held(c)'
BY DEF Held, Initiator

\* The calls of one client change.
LEMMA CallsChange ==
  ASSUME CallsHeld, calls \in [Client -> Seq(Call)],
         \A e \in Client : Held(e) \subseteq Held(e)',
         NEW c \in Client, NEW q \in Seq(Held(c)'), calls' = [calls EXCEPT ![c] = q]
  PROVE  CallsHeld' /\ calls' \in [Client -> Seq(Call)]
<1>1. ASSUME NEW e \in Client  PROVE calls'[e] \in Seq(Held(e)')
  <2>1. calls[e] \in Seq(Held(e)')
    BY DEF CallsHeld
  <2>. QED  BY <2>1
<1>2. \A e \in Client : Held(e)' \subseteq Call
  BY DEF Held
<1>3. \A e \in Client : calls'[e] \in Seq(Call)
  BY <1>1, <1>2
<1>. QED  BY <1>1, <1>3 DEF CallsHeld

\* A connection changes but neither opens nor closes.
LEMMA ConnChanges ==
  ASSUME Connections, Listing, InOrder, UNCHANGED peers,
         NEW p \in DOMAIN pcs, NEW v \in Peer, pcs' = [pcs EXCEPT ![p] = v],
         v.state = "closed" <=> pcs[p].state = "closed",
         v.state = "offered" => Initiator(p[1], p[2]),
         pcs[p].remote # NoConn => v.remote # NoConn
  PROVE  /\ Connections' /\ Listing' /\ InOrder'
         /\ \A c \in Client : Held(c) \subseteq Held(c)'
<1>1. /\ DOMAIN pcs' = DOMAIN pcs /\ pcs'[p] = v
      /\ \A q \in DOMAIN pcs : q # p => pcs'[q] = pcs[q]
      /\ pcs' \in [DOMAIN pcs -> Peer]
  BY DEF Connections
<1>2. Connections'
  BY <1>1 DEF Connections, Initiator
<1>3. Listing'
  BY <1>1 DEF Listing
<1>4. InOrder'
  BY <1>1 DEF InOrder, MadeFor, Owned
<1>5. \A c \in Client : Held(c) \subseteq Held(c)'
  BY <1>1, HeldGrows
<1>. QED  BY <1>2, <1>3, <1>4, <1>5

\* A connection that is closed leaves the list, and one that leaves it closes.
LEMMA DropKeeps ==
  ASSUME Connections, Listing, InOrder, NEW c \in Client, NEW d \in Device, Drop(c, d)
  PROVE  /\ Connections' /\ Listing' /\ InOrder'
         /\ \A e \in Client : Held(e) \subseteq Held(e)'
         /\ \A e \in Client, f \in Device : peers'[e][f] \in {peers[e][f], NoConn}
<1>1. \A e \in Client, f \in Device :
        peers'[e][f] = IF e = c /\ f = d THEN NoConn ELSE peers[e][f]
  BY DEF Drop, Listing
<1>2. /\ peers' \in [Client -> [Device -> Conn \cup {NoConn}]]
  BY DEF Drop, Listing
<1>3. /\ DOMAIN pcs' = DOMAIN pcs
      /\ \A p \in DOMAIN pcs :
           pcs'[p] = IF p = peers[c][d] THEN [pcs[p] EXCEPT !.state = "closed"] ELSE pcs[p]
      /\ pcs' = [p \in DOMAIN pcs |-> pcs'[p]]
  <2>1. CASE peers[c][d] = NoConn
    BY <2>1, ConnIsTriple DEF Drop, Connections
  <2>2. CASE peers[c][d] # NoConn
    BY <2>2 DEF Drop, Connections
  <2>. QED  BY <2>1, <2>2
<1>4. \A p \in DOMAIN pcs : /\ pcs'[p] \in Peer /\ pcs'[p].remote = pcs[p].remote
                            /\ pcs'[p].state = IF p = peers[c][d] THEN "closed" ELSE pcs[p].state
  <2>. TAKE p \in DOMAIN pcs
  <2>1. pcs[p] \in Peer
    BY DEF Connections
  <2>2. CASE p = peers[c][d]
    <3>1. pcs'[p] = [pcs[p] EXCEPT !.state = "closed"]
      BY <1>3, <2>2
    <3>. QED  BY <2>1, <2>2, <3>1 DEF Peer
  <2>3. CASE p # peers[c][d]
    BY <1>3, <2>1, <2>3
  <2>. QED  BY <2>2, <2>3
<1>5. Connections'
  <2>1. pcs' \in [DOMAIN pcs -> Peer]
    BY <1>3, <1>4
  <2>. QED  BY <1>3, <1>4, <2>1 DEF Connections, Initiator
<1>6. Listing'
  <2>1. \A p \in DOMAIN pcs : p = peers[c][d] => p[1] = c /\ p[2] = d
    BY ConnIsTriple DEF Listing, Connections
  <2>2. \A p \in DOMAIN pcs : pcs'[p].state # "closed" <=> peers'[p[1]][p[2]] = p
    <3>. TAKE p \in DOMAIN pcs
    <3>1. p[1] \in Client /\ p[2] \in Device /\ p # NoConn
      BY ConnIsTriple DEF Connections
    <3>2. pcs[p].state # "closed" <=> peers[p[1]][p[2]] = p
      BY DEF Listing
    <3>. QED  BY <1>1, <1>4, <2>1, <3>1, <3>2
  <2>. QED  BY <1>1, <1>2, <1>3, <2>2 DEF Listing
<1>7. InOrder'
  BY <1>3 DEF InOrder, MadeFor, Owned
<1>8. \A e \in Client : Held(e) \subseteq Held(e)'
  BY <1>3, <1>4, HeldGrows
<1>. QED  BY <1>1, <1>5, <1>6, <1>7, <1>8

\* The connections that are missing are next, for devices not listed.
LEMMA MissingIsNext ==
  ASSUME Connections, InOrder, NEW c \in Client, NEW ds \in SUBSET Device,
         NEW p \in Missing(c, ds)
  PROVE  /\ p[1] = c /\ p[2] \in ds /\ p[2] # DeviceOf[c] /\ peers[c][p[2]] = NoConn
         /\ p = NextConn(c, p[2]) /\ p \notin DOMAIN pcs
<1>1. PICK d \in ds : d # DeviceOf[c] /\ peers[c][d] = NoConn /\ p = NextConn(c, d)
  BY DEF Missing
<1>2. p = <<c, d, 1 + Cardinality(MadeFor(c, d))>> /\ p \notin DOMAIN pcs
  BY <1>1, NextIsNew
<1>3. p[1] = c /\ p[2] = d
  BY <1>2
<1>. QED  BY <1>1, <1>2, <1>3

\* The connections that are missing are made, and listed.
LEMMA MadeKeeps ==
  ASSUME Connections, Listing, InOrder, NEW c \in Client, NEW ds \in SUBSET Device,
         Missing(c, ds) \subseteq Conn,
         DOMAIN pcs' = DOMAIN pcs \cup Missing(c, ds), pcs' \in [DOMAIN pcs' -> Peer],
         \A p \in DOMAIN pcs : pcs'[p].state = pcs[p].state /\ pcs'[p].remote = pcs[p].remote,
         \A p \in Missing(c, ds) : pcs'[p].state = "new",
         peers' \in [Client -> [Device -> Conn \cup {NoConn}]],
         \A e \in Client, d \in Device :
           peers'[e][d] = IF e = c /\ NextConn(c, d) \in Missing(c, ds)
                            THEN NextConn(c, d) ELSE peers[e][d]
  PROVE  /\ Connections' /\ Listing' /\ InOrder'
         /\ \A e \in Client : Held(e) \subseteq Held(e)'
<1>1. \A p \in Missing(c, ds) :
        /\ p[1] = c /\ p[2] \in Device /\ p[2] # DeviceOf[c] /\ peers[c][p[2]] = NoConn
        /\ p = NextConn(c, p[2]) /\ p \notin DOMAIN pcs
  BY MissingIsNext
<1>2. \A d \in Device : /\ NextConn(c, d) = <<c, d, 1 + Cardinality(MadeFor(c, d))>>
                        /\ NextConn(c, d) \notin DOMAIN pcs
  BY NextIsNew
<1>3. Connections'
  <2>1. DOMAIN pcs' \subseteq Conn
    BY DEF Connections
  <2>2. \A p \in DOMAIN pcs' :
          p[2] # DeviceOf[p[1]] /\ (pcs'[p].state = "offered" => Initiator(p[1], p[2]))
    BY <1>1 DEF Connections
  <2>. QED  BY <2>1, <2>2 DEF Connections, Initiator
<1>4. Listing'
  <2>1. ASSUME NEW e \in Client, NEW d \in Device, peers'[e][d] # NoConn
        PROVE  peers'[e][d] \in DOMAIN pcs' /\ peers'[e][d][1] = e /\ peers'[e][d][2] = d
    <3>1. CASE e = c /\ NextConn(c, d) \in Missing(c, ds)
      <4>1. peers'[e][d] = NextConn(c, d)
        BY <3>1
      <4>2. NextConn(c, d)[1] = c /\ NextConn(c, d)[2] = d
        BY <1>2
      <4>. QED  BY <3>1, <4>1, <4>2
    <3>2. CASE ~(e = c /\ NextConn(c, d) \in Missing(c, ds))
      <4>1. peers'[e][d] = peers[e][d]
        BY <3>2
      <4>. QED  BY <2>1, <4>1 DEF Listing
    <3>. QED  BY <3>1, <3>2
  <2>2. ASSUME NEW p \in DOMAIN pcs'
        PROVE  pcs'[p].state # "closed" <=> peers'[p[1]][p[2]] = p
    <3>1. p[1] \in Client /\ p[2] \in Device /\ p # NoConn
      BY ConnIsTriple DEF Connections
    <3>2. CASE p \in Missing(c, ds)
      <4>1. p[1] = c /\ p = NextConn(c, p[2])
        BY <1>1, <3>2
      <4>2. peers'[p[1]][p[2]] = p
        BY <3>1, <3>2, <4>1
      <4>. QED  BY <3>2, <4>2
    <3>3. CASE p \in DOMAIN pcs
      <4>1. pcs[p].state # "closed" <=> peers[p[1]][p[2]] = p
        BY <3>3 DEF Listing
      <4>2. CASE p[1] = c /\ NextConn(c, p[2]) \in Missing(c, ds)
        <5>1. peers'[p[1]][p[2]] = NextConn(c, p[2]) /\ NextConn(c, p[2]) # p
          BY <1>2, <3>1, <3>3, <4>2
        <5>2. NextConn(c, p[2])[2] = p[2]
          BY <1>2, <3>1
        <5>3. peers[p[1]][p[2]] = NoConn
          BY <1>1, <4>2, <5>2
        <5>. QED  BY <3>1, <3>3, <4>1, <5>1, <5>3
      <4>3. CASE ~(p[1] = c /\ NextConn(c, p[2]) \in Missing(c, ds))
        <5>1. peers'[p[1]][p[2]] = peers[p[1]][p[2]]
          BY <3>1, <4>3
        <5>. QED  BY <3>3, <4>1, <5>1
      <4>. QED  BY <4>2, <4>3
    <3>. QED  BY <3>2, <3>3
  <2>. QED  BY <2>1, <2>2 DEF Listing
<1>5. InOrder'
  <2>. SUFFICES ASSUME NEW e \in Client, NEW d \in Device
                PROVE  MadeFor(e, d)' = FirstOf(e, d, Cardinality(MadeFor(e, d)'))
    BY DEF InOrder
  <2>1. MadeFor(e, d)' = {p \in DOMAIN pcs' : p[1] = e /\ p[2] = d}
    BY DEF MadeFor, Owned
  <2>2. MadeFor(e, d) = {p \in DOMAIN pcs : p[1] = e /\ p[2] = d}
    BY DEF MadeFor, Owned
  <2>3. CASE e = c /\ NextConn(c, d) \in Missing(c, ds)
    <3>. DEFINE k == Cardinality(MadeFor(c, d))
    <3>1. k \in Nat /\ MadeFor(c, d) = FirstOf(c, d, k)
      BY MadeForFinite DEF InOrder
    <3>2. NextConn(c, d) = <<c, d, 1 + k>>
      BY <1>2
    <3>. HIDE DEF k
    <3>3. MadeFor(e, d)' = MadeFor(c, d) \cup {<<c, d, 1 + k>>}
      <4>1. \A p \in Missing(c, ds) : p[1] = e /\ p[2] = d <=> p = NextConn(c, d)
        <5>. TAKE p \in Missing(c, ds)
        <5>1. p[1] = c /\ p = NextConn(c, p[2])
          BY <1>1
        <5>2. NextConn(c, d)[2] = d
          BY <3>2
        <5>. QED  BY <2>3, <5>1, <5>2
      <4>2. MadeFor(e, d)' = MadeFor(e, d) \cup {NextConn(c, d)}
        BY <2>1, <2>2, <2>3, <4>1
      <4>. QED  BY <2>3, <3>2, <4>2
    <3>4. MadeFor(e, d)' = FirstOf(c, d, 1 + k)
      BY <3>1, <3>3, OneMore
    <3>5. Cardinality(MadeFor(e, d)') = 1 + k
      <4>1. 1 + k \in Nat
        BY <3>1
      <4>. HIDE DEF k
      <4>. QED  BY <3>4, <4>1, CountOf
    <3>. QED  BY <2>3, <3>4, <3>5
  <2>4. CASE ~(e = c /\ NextConn(c, d) \in Missing(c, ds))
    <3>1. \A p \in Missing(c, ds) : ~(p[1] = e /\ p[2] = d)
      BY <1>1, <2>4
    <3>2. MadeFor(e, d)' = MadeFor(e, d)
      BY <2>1, <2>2, <3>1
    <3>. QED  BY <3>2 DEF InOrder
  <2>. QED  BY <2>3, <2>4
<1>6. \A e \in Client : Held(e) \subseteq Held(e)'
  BY HeldGrows
<1>. QED  BY <1>3, <1>4, <1>5, <1>6

\* A candidate changes neither what a connection has agreed nor with whom.
LEMMA CandidateKeeps ==
  ASSUME NEW v \in Peer, NEW of \in Conn
  PROVE  /\ TakeCandidate(v, of) \in Peer
         /\ TakeCandidate(v, of).state = v.state
         /\ TakeCandidate(v, of).remote = v.remote
<1>1. Append(v.pending, of) \in Seq(Conn) /\ v.added \cup {of} \in SUBSET Conn
  BY AppendProperties DEF Peer
<1>. QED  BY <1>1 DEF TakeCandidate, Peer

-----------------------------------------------------------------------------
\* What a client does on hearing a message.

\* Calls are made after those already pending.
LEMMA CallsGrow ==
  ASSUME CallsHeld, calls \in [Client -> Seq(Call)],
         \A e \in Client : Held(e) \subseteq Held(e)',
         NEW c \in Client, NEW more \in Seq(Held(c)'),
         calls' = [calls EXCEPT ![c] = @ \o more]
  PROVE  CallsHeld' /\ calls' \in [Client -> Seq(Call)]
<1>1. calls[c] \in Seq(Held(c)')
  BY DEF CallsHeld
<1>2. calls[c] \o more \in Seq(Held(c)')
  BY <1>1
<1>. QED  BY <1>2, CallsChange

\* A call that settles leaves the others pending, and may lead to more.
LEMMA CallsSettle ==
  ASSUME CallsHeld, calls \in [Client -> Seq(Call)],
         \A e \in Client : Held(e) \subseteq Held(e)',
         NEW c \in Client, NEW i \in DOMAIN calls[c], NEW more \in Seq(Held(c)'),
         calls' = [calls EXCEPT ![c] = RemoveAt(@, i) \o more]
  PROVE  CallsHeld' /\ calls' \in [Client -> Seq(Call)]
<1>1. calls[c] \in Seq(Held(c)')
  BY DEF CallsHeld
<1>2. RemoveAt(calls[c], i) \in Seq(Held(c)')
  BY <1>1, QueueChanges
<1>3. RemoveAt(calls[c], i) \o more \in Seq(Held(c)')
  BY <1>2
<1>. QED  BY <1>3, CallsChange

\* Whoever is not listed is connected to, and offered to if this side does.
LEMMA EnsureKeeps ==
  ASSUME MeshInv, NEW c \in Client, NEW ds \in SUBSET Device,
         NEW sig \in Signals \cup {NoSignal}, sig.kind # "offer", Ensure(c, ds, sig)
  PROVE  MeshInv'
<1>. USE DEF MeshInv
<1>. DEFINE new == Missing(c, ds)
            call(p) == [at |-> "offer", pc |-> p, sig |-> sig]
            ours == {q \in new : Initiator(c, q[2])}
            offers == {call(p) : p \in ours}
<1>1. /\ new \subseteq Conn
      /\ peers' = [peers EXCEPT ![c] =
           [d \in Device |-> IF NextConn(c, d) \in new THEN NextConn(c, d) ELSE @[d]]]
      /\ pcs' = Made(new)
      /\ calls' = [calls EXCEPT ![c] = @ \o SetToSeq(offers)]
  BY DEF Ensure
<1>2. /\ DOMAIN pcs' = DOMAIN pcs \cup new
      /\ \A p \in new : pcs'[p] = NewPeer
      /\ \A p \in DOMAIN pcs : p \notin new => pcs'[p] = pcs[p]
      /\ pcs' = [p \in DOMAIN pcs' |-> pcs'[p]]
  BY <1>1 DEF Made
<1>3. \A p \in new : p[1] = c /\ p \notin DOMAIN pcs
  BY MissingIsNext
<1>4. NewPeer \in Peer /\ NewPeer.state = "new"
  BY DEF NewPeer, Peer
<1>5. peers' \in [Client -> [Device -> Conn \cup {NoConn}]]
  BY <1>1 DEF Listing
<1>6. \A e \in Client, d \in Device :
        peers'[e][d] = IF e = c /\ NextConn(c, d) \in new THEN NextConn(c, d) ELSE peers[e][d]
  BY <1>1 DEF Listing
<1>7. pcs' \in [DOMAIN pcs' -> Peer]
  <2>1. \A p \in DOMAIN pcs' : pcs'[p] \in Peer
    BY <1>2, <1>4 DEF Connections
  <2>. QED  BY <1>2, <2>1
<1>8. /\ Connections' /\ Listing' /\ InOrder'
      /\ \A e \in Client : Held(e) \subseteq Held(e)'
  BY <1>1, <1>2, <1>3, <1>4, <1>5, <1>6, <1>7, MadeKeeps
<1>9. IsFiniteSet(offers)
  <2>1. IsFiniteSet(ours)
    BY <1>1, ConnFinite, FS_Subset
  <2> DEFINE f == [p \in ours |-> call(p)]
  <2>2. f \in [ours -> offers] /\ \A t \in offers : \E p \in ours : f[p] = t
    OBVIOUS
  <2>3. f \in Surjection(ours, offers)
    <3>. HIDE DEF f, ours, offers
    <3>. QED  BY <2>2 DEF Surjection
  <2>. HIDE DEF f, ours, offers
  <2>. QED  BY <2>1, <2>3, FS_Surjection
<1>10. \A k \in offers : k \in Held(c)'
  <2>1. \A p \in ours : call(p) \in Held(c)'
    <3>. TAKE p \in ours
    <3>1. p \in DOMAIN pcs' /\ p[1] = c /\ p \in Conn /\ Initiator(c, p[2])
      BY <1>1, <1>2, <1>3
    <3>2. call(p) \in Call
      BY <3>1 DEF Call
    <3>. QED  BY <3>1, <3>2 DEF Held, Initiator
  <2>. QED  BY <2>1
<1>11. SetToSeq(offers) \in Seq(Held(c)')
  <2>. HIDE DEF offers
  <2>1. SetToSeq(offers) \in Seq(offers)
    BY <1>9, SetToSeqType
  <2>. QED  BY <1>10, <2>1
<1>12. CallsHeld' /\ calls' \in [Client -> Seq(Call)]
  <2>. DEFINE more == SetToSeq(offers)
  <2>1. calls' = [calls EXCEPT ![c] = @ \o more] /\ more \in Seq(Held(c)')
    BY <1>1, <1>11
  <2>. HIDE DEF more
  <2>. QED  BY <1>8, <2>1, CallsGrow
<1>. QED  BY <1>8, <1>12

\* Of two devices one is lower, not each.
LEMMA OneLower ==
  ASSUME NEW c \in Client, NEW d \in Device
  PROVE  d < DeviceOf[c] => ~(DeviceOf[c] < d)
<1>1. d \in Nat /\ DeviceOf[c] \in Nat
  BY SignalingAssumption, PeerAssumption
<1>. QED  BY <1>1

\* A signal from a device not listed, for which this side offers first, is no
\* offer: it waits until the offer is out.
LEMMA HearSignalEarlyKeeps ==
  ASSUME MeshInv, NEW c \in Client, NEW m \in DownMessage,
         m.t = "signal", Fits(m.from, DeviceOf[c], m.data), HearSignalEarly(c, m)
  PROVE  MeshInv'
<1>1. m.from \in Device /\ m.data \in Signals
  BY BlobAssumption DEF DownMessage
<1>2. m.from < DeviceOf[c] => ~(DeviceOf[c] < m.from)
  BY <1>1, OneLower
<1>3. m.data.kind # "offer"
  BY <1>2 DEF HearSignalEarly, Initiator, Fits
<1>4. Ensure(c, {m.from}, m.data) /\ {m.from} \in SUBSET Device
  BY <1>1 DEF HearSignalEarly
<1>. QED  BY <1>1, <1>3, <1>4, EnsureKeeps

\* Any other signal finds the connection listed for its sender, or has an
\* answering one made: a candidate goes to it, a description is awaited.
LEMMA HearSignalKeeps ==
  ASSUME MeshInv, NEW c \in Client, NEW m \in DownMessage,
         m.t = "signal", Fits(m.from, DeviceOf[c], m.data), HearSignal(c, m)
  PROVE  MeshInv'
<1>. USE DEF MeshInv
<1>. DEFINE d == m.from
            new == Missing(c, {d})
            p == IF new = {} THEN peers[c][d] ELSE NextConn(c, d)
<1>1. d \in Device /\ m.data \in Signals /\ d # DeviceOf[c]
  BY BlobAssumption DEF DownMessage, Fits
<1>2. /\ new \subseteq Conn
      /\ peers' = [peers EXCEPT ![c][d] = p]
      /\ pcs' = Handled(p, m.data, Made(new))
      /\ calls' = [calls EXCEPT ![c] = @ \o Awaited(p, m.data)]
  BY DEF HearSignal
<1>3. new = IF peers[c][d] = NoConn THEN {NextConn(c, d)} ELSE {}
  BY <1>1 DEF Missing
<1>4. \A q \in new : q[1] = c /\ q[2] = d /\ q \notin DOMAIN pcs
  BY <1>1, MissingIsNext
<1>5. p \in DOMAIN pcs \cup new /\ p[1] = c /\ p[2] = d
  <2>1. CASE peers[c][d] = NoConn
    BY <1>3, <1>4, <2>1
  <2>2. CASE peers[c][d] # NoConn
    <3>1. new = {} /\ p = peers[c][d]
      BY <1>3, <2>2
    <3>. QED  BY <1>1, <2>2, <3>1 DEF Listing
  <2>. QED  BY <2>1, <2>2
<1>6. peers' \in [Client -> [Device -> Conn \cup {NoConn}]]
  <2>1. p \in Conn
    BY <1>2, <1>5 DEF Connections
  <2>. QED  BY <1>1, <1>2, <2>1 DEF Listing
<1>7. \A e \in Client, f \in Device :
        peers'[e][f] = IF e = c /\ NextConn(c, f) \in new THEN NextConn(c, f) ELSE peers[e][f]
  <2>. TAKE e \in Client, f \in Device
  <2>1. NextConn(c, f)[2] = f
    BY NextIsNew
  <2>2. NextConn(c, f) \in new => f = d
    BY <1>4, <2>1
  <2>3. peers'[e][f] = IF e = c /\ f = d THEN p ELSE peers[e][f]
    <3>. HIDE DEF p
    <3>. QED  BY <1>1, <1>2 DEF Listing
  <2>4. f = d => p = IF NextConn(c, f) \in new THEN NextConn(c, f) ELSE peers[c][f]
    BY <1>3
  <2>. HIDE DEF p, new
  <2>. QED  BY <2>2, <2>3, <2>4
<1>8. /\ DOMAIN Made(new) = DOMAIN pcs \cup new
      /\ \A q \in new : Made(new)[q] = NewPeer
      /\ \A q \in DOMAIN pcs : Made(new)[q] = pcs[q]
      /\ Made(new) \in [DOMAIN pcs \cup new -> Peer]
  <2>1. NewPeer \in Peer
    BY DEF NewPeer, Peer
  <2>. QED  BY <1>4, <2>1 DEF Made, Connections
<1>9. /\ DOMAIN pcs' = DOMAIN pcs \cup new
      /\ pcs' \in [DOMAIN pcs \cup new -> Peer]
      /\ \A q \in DOMAIN pcs \cup new : /\ pcs'[q].state = Made(new)[q].state
                                        /\ pcs'[q].remote = Made(new)[q].remote
  <2>. HIDE DEF new, p
  <2>1. CASE m.data.kind # "ice"
    BY <1>2, <1>8, <2>1 DEF Handled
  <2>2. CASE m.data.kind = "ice"
    <3>1. m.data.of \in Conn
      BY <1>1, <2>2 DEF Signals, Description, Candidate
    <3>. DEFINE conns == Made(new)
                v == TakeCandidate(conns[p], m.data.of)
    <3>2. v \in Peer /\ v.state = conns[p].state /\ v.remote = conns[p].remote
      BY <1>5, <1>8, <3>1, CandidateKeeps
    <3>3. pcs' = [conns EXCEPT ![p] = v]
      BY <1>2, <2>2 DEF Handled
    <3>. HIDE DEF v, conns
    <3>4. conns \in [DOMAIN pcs \cup new -> Peer]
      BY <1>8 DEF conns
    <3>5. /\ DOMAIN pcs' = DOMAIN pcs \cup new
          /\ pcs' \in [DOMAIN pcs \cup new -> Peer]
          /\ \A q \in DOMAIN pcs \cup new :
               pcs'[q].state = conns[q].state /\ pcs'[q].remote = conns[q].remote
      BY <1>5, <3>2, <3>3, <3>4
    <3>. QED  BY <3>5 DEF conns
  <2>. QED  BY <2>1, <2>2
<1>10. /\ Connections' /\ Listing' /\ InOrder'
       /\ \A e \in Client : Held(e) \subseteq Held(e)'
  <2>1. NewPeer.state = "new"
    BY DEF NewPeer
  <2>2. {d} \in SUBSET Device
    BY <1>1
  <2>3. \A q \in new : pcs'[q].state = "new"
    BY <1>8, <1>9, <2>1
  <2>4. \A q \in DOMAIN pcs : pcs'[q].state = pcs[q].state /\ pcs'[q].remote = pcs[q].remote
    BY <1>8, <1>9
  <2>. HIDE DEF p
  <2>. QED  BY <1>2, <1>6, <1>7, <1>9, <2>2, <2>3, <2>4, MadeKeeps
<1>11. Awaited(p, m.data) \in Seq(Held(c)')
  <2>. DEFINE k == [at |-> "remote", pc |-> p, sig |-> m.data]
  <2>1. CASE m.data.kind = "ice"
    BY <2>1 DEF Awaited
  <2>2. CASE m.data.kind # "ice"
    <3>1. m.data \in Description
      BY <1>1, <2>2 DEF Signals, Candidate
    <3>2. k \in Call /\ p \in DOMAIN pcs'
      BY <1>1, <1>2, <1>5, <1>9 DEF Call, Connections
    <3>3. m.data.kind = "offer" => ~Initiator(c, p[2])
      <4>1. d < DeviceOf[c] => ~(DeviceOf[c] < d)
        BY <1>1, OneLower
      <4>. QED  BY <1>5, <4>1 DEF Fits, Initiator
    <3>4. p[1] = c
      BY <1>5
    <3>. HIDE DEF p
    <3>5. k \in Held(c)'
      BY <3>1, <3>2, <3>3, <3>4 DEF Held, Initiator
    <3>6. Awaited(p, m.data) = <<k>>
      BY <2>2 DEF Awaited
    <3>. QED  BY <3>5, <3>6
  <2>. QED  BY <2>1, <2>2
<1>12. CallsHeld' /\ calls' \in [Client -> Seq(Call)]
  <2>. DEFINE more == Awaited(p, m.data)
  <2>1. calls' = [calls EXCEPT ![c] = @ \o more] /\ more \in Seq(Held(c)')
    BY <1>2, <1>11
  <2>. HIDE DEF more
  <2>. QED  BY <1>10, <2>1, CallsGrow
<1>. QED  BY <1>10, <1>12

\* Dropping whatever is listed for a device changes no call.
LEMMA DropMesh ==
  ASSUME MeshInv, NEW c \in Client, NEW d \in Device, Drop(c, d), UNCHANGED calls
  PROVE  MeshInv'
<1>. USE DEF MeshInv
<1>1. /\ Connections' /\ Listing' /\ InOrder'
      /\ \A e \in Client : Held(e) \subseteq Held(e)'
  BY DropKeeps
<1>2. \A e \in Client : calls[e] \in Seq(Held(e)')
  BY <1>1 DEF CallsHeld
<1>. QED  BY <1>1, <1>2 DEF CallsHeld

\* Whatever a client hears.
LEMMA HearsKeeps ==
  ASSUME RoomInv, Directed, MeshInv, NEW c \in Client, Hears(c)
  PROVE  MeshInv' /\ Hear(c) /\ UNCHANGED failures
         /\ \A e \in Client \ {c}, d \in Device : peers'[e][d] = peers[e][d]
<1>. DEFINE s == Current(c)
            m == Head(down[s])
<1>1. /\ Hear(c) /\ phase[c] = "open" /\ down[s] # <<>>
      /\ \/ HearPresent(c, m) \/ HearLeft(c, m)
         \/ HearSignalEarly(c, m) \/ HearSignal(c, m) \/ HearClose(c, m)
  BY DEF Hears, Hear, Receive, Live, Current
<1>2. s \in Socket /\ DeviceAt(s) = DeviceOf[c]
  BY <1>1, CurrentSocket DEF RoomInv
<1>3. m \in DownMessage /\ (m.t = "signal" => Fits(m.from, DeviceOf[c], m.data))
  <2>1. m \in FitDown(s)
    BY <1>1, <1>2, QueueChanges DEF Directed
  <2>. QED  BY <1>2, <2>1 DEF FitDown
<1>. HIDE DEF m
<1>4. CASE HearPresent(c, m)
  <2>. DEFINE ds == IF m.t = "peers" THEN m.devices ELSE {m.device}
  <2>1. ds \in SUBSET Device /\ Ensure(c, ds, NoSignal) /\ NoSignal.kind # "offer"
    BY <1>3, <1>4 DEF HearPresent, DownMessage, NoSignal
  <2>. HIDE DEF ds
  <2>2. MeshInv'
    BY <2>1, EnsureKeeps
  <2>. QED  BY <1>1, <2>1, <2>2 DEF Ensure, MeshInv, Listing
<1>5. CASE HearLeft(c, m)
  <2>1. m.device \in Device /\ Drop(c, m.device) /\ UNCHANGED <<calls, failures>>
    BY <1>3, <1>5 DEF HearLeft, DownMessage
  <2>2. MeshInv'
    BY <2>1, DropMesh
  <2>. QED  BY <1>1, <2>1, <2>2 DEF Drop, MeshInv, Listing
<1>6. CASE HearSignalEarly(c, m)
  <2>1. MeshInv'
    BY <1>3, <1>6, HearSignalEarlyKeeps DEF HearSignalEarly
  <2>2. Ensure(c, {m.from}, m.data)
    BY <1>6 DEF HearSignalEarly
  <2>3. UNCHANGED failures /\ \E q : peers' = [peers EXCEPT ![c] = q]
    BY <2>2, Zenon DEF Ensure
  <2>4. \A e \in Client \ {c}, d \in Device : peers'[e][d] = peers[e][d]
    BY <2>3 DEF MeshInv, Listing
  <2>. QED  BY <1>1, <2>1, <2>3, <2>4
<1>7. CASE HearSignal(c, m)
  <2>1. MeshInv'
    BY <1>3, <1>7, HearSignalKeeps DEF HearSignal
  <2>2. UNCHANGED failures /\ \E p : peers' = [peers EXCEPT ![c][m.from] = p]
    BY <1>7, Zenon DEF HearSignal
  <2>3. \A e \in Client \ {c}, d \in Device : peers'[e][d] = peers[e][d]
    BY <2>2 DEF MeshInv, Listing
  <2>. QED  BY <1>1, <2>1, <2>2, <2>3
<1>8. CASE HearClose(c, m)
  BY <1>1, <1>8 DEF HearClose, peerVars, MeshInv, Connections, Listing, InOrder, MadeFor,
     Owned, CallsHeld, Held, Initiator
<1>. QED  BY <1>1, <1>4, <1>5, <1>6, <1>7, <1>8

-----------------------------------------------------------------------------
\* Calls that settle, and what connections do of themselves.

\* What a client is awaiting is what it may be.
LEMMA Pending ==
  ASSUME MeshInv, NEW c \in Client, NEW i \in DOMAIN calls[c]
  PROVE  calls[c][i] \in Held(c)
<1>1. calls[c] \in Seq(Held(c))
  BY DEF MeshInv, CallsHeld
<1>. QED  BY <1>1

\* What a connection of the client's own signals goes where it fits.
LEMMA OwnSignal ==
  ASSUME MeshInv, NEW p \in DOMAIN pcs, NEW data \in Signals,
         data.kind = "offer" => Initiator(p[1], p[2])
  PROVE  /\ p[1] \in Client
         /\ <<SignalTo(p, data)>> \in Seq(Fitting(p[1]))
<1>1. p[1] \in Client /\ p[2] \in Device /\ p[2] # DeviceOf[p[1]]
  BY ConnIsTriple DEF MeshInv, Connections
<1>2. SignalTo(p, data) \in Fitting(p[1])
  BY <1>1, BlobAssumption DEF SignalTo, Fitting, Signal, Fits, Initiator
<1>. QED  BY <1>1, <1>2

\* An offer goes out, and a candidate or an answer that waited is handled.
LEMMA OfferKeeps ==
  ASSUME RoomInv, Directed, MeshInv, NEW c \in Client, NEW i \in DOMAIN calls[c], Offer(c, i)
  PROVE  MeshInv' /\ Directed' /\ Speak(c)
<1>. USE DEF MeshInv
<1>. DEFINE p == calls[c][i].pc
            sig == calls[c][i].sig
            more == IF sig = NoSignal THEN <<>> ELSE Awaited(p, sig)
            offer == [kind |-> "offer", of |-> p]
            w == [pcs[p] EXCEPT !.state = "offered"]
            v == IF sig # NoSignal /\ sig.kind = "ice" THEN TakeCandidate(w, sig.of) ELSE w
<1>1. /\ Open(p) /\ UNCHANGED peers
      /\ calls[c][i].at = "offer"
      /\ Settle(c, i, more, <<SignalTo(p, offer)>>)
  BY DEF Offer, Ready
<1>2. p \in DOMAIN pcs /\ p[1] = c /\ Initiator(c, p[2])
      /\ sig \in Signals \cup {NoSignal} /\ sig.kind # "offer"
  BY <1>1, Pending DEF Held, Call
<1>3. p \in Conn /\ pcs[p] \in Peer
  BY <1>2 DEF Connections
<1>4. w \in Peer /\ w.state = "offered" /\ w.remote = pcs[p].remote
  BY <1>3 DEF Peer
<1>5. v \in Peer /\ v.state = "offered" /\ v.remote = pcs[p].remote
  <2>1. CASE sig # NoSignal /\ sig.kind = "ice"
    <3>1. sig.of \in Conn
      BY <1>2, <2>1 DEF Signals, Description, Candidate
    <3>. HIDE DEF w, sig
    <3>. QED  BY <1>4, <2>1, <3>1, CandidateKeeps
  <2>2. CASE ~(sig # NoSignal /\ sig.kind = "ice")
    <3>. HIDE DEF w, sig
    <3>. QED  BY <1>4, <2>2
  <2>. QED  BY <2>1, <2>2
<1>6. pcs' = [pcs EXCEPT ![p] = v]
  <2>. DEFINE conns == [pcs EXCEPT ![p].state = "offered"]
  <2>1. pcs' = IF sig = NoSignal THEN conns ELSE Handled(p, sig, conns)
    BY DEF Offer
  <2>2. conns = [pcs EXCEPT ![p] = w]
    BY <1>2 DEF Connections
  <2>. HIDE DEF conns, w, sig, p
  <2>3. conns[p] = w /\ \A x : [conns EXCEPT ![p] = x] = [pcs EXCEPT ![p] = x]
    BY <1>2, <2>2 DEF Connections
  <2>. QED  BY <2>1, <2>2, <2>3 DEF Handled
<1>7. /\ Connections' /\ Listing' /\ InOrder'
      /\ \A e \in Client : Held(e) \subseteq Held(e)'
  <2>1. pcs[p].state # "closed"
    BY <1>1 DEF Open
  <2>. HIDE DEF v, p
  <2>. QED  BY <1>1, <1>2, <1>3, <1>5, <1>6, <2>1, ConnChanges
<1>8. more \in Seq(Held(c)')
  <2>. DEFINE k == [at |-> "remote", pc |-> p, sig |-> sig]
  <2>1. CASE sig = NoSignal \/ sig.kind = "ice"
    <3>. HIDE DEF sig
    <3>. QED  BY <2>1 DEF Awaited
  <2>2. CASE sig # NoSignal /\ sig.kind # "ice"
    <3>1. sig \in Description
      BY <1>2, <2>2 DEF Signals, Candidate
    <3>2. p \in DOMAIN pcs'
      BY <1>2, <1>6 DEF Connections
    <3>. HIDE DEF sig, p
    <3>3. k \in Held(c)'
      BY <1>2, <1>3, <3>1, <3>2 DEF Held, Call, Initiator, Signals
    <3>4. more = <<k>>
      BY <2>2 DEF Awaited
    <3>. HIDE DEF k, more
    <3>. QED  BY <3>3, <3>4
  <2>. QED  BY <2>1, <2>2
<1>9. CallsHeld' /\ calls' \in [Client -> Seq(Call)]
  <2>1. calls' = [calls EXCEPT ![c] = RemoveAt(@, i) \o more]
    BY <1>1 DEF Settle
  <2>. HIDE DEF more
  <2>. QED  BY <1>7, <1>8, <2>1, CallsSettle
<1>10. Directed' /\ Speak(c)
  <2>. DEFINE msgs == <<SignalTo(p, offer)>>
  <2>1. offer \in Signals /\ offer.kind = "offer"
    BY <1>3 DEF Signals, Description
  <2>2. msgs \in Seq(Fitting(c))
    <3>. HIDE DEF offer
    <3>. QED  BY <1>2, <2>1, OwnSignal
  <2>3. /\ up' = SigSend(up, c, msgs)
        /\ UNCHANGED <<clientVars, down, serverVars, told, broken, evictions>>
    BY <1>1 DEF Settle
  <2>. HIDE DEF msgs
  <2>. QED  BY <2>2, <2>3, SpeakFits
<1>. QED  BY <1>7, <1>9, <1>10

\* A call that settles without anything being signalled.
LEMMA SettleQuietly ==
  ASSUME RoomInv, Directed, CallsHeld, calls \in [Client -> Seq(Call)],
         \A e \in Client : Held(e) \subseteq Held(e)',
         NEW c \in Client, NEW i \in DOMAIN calls[c],
         NEW more \in Seq(Held(c)'), Settle(c, i, more, <<>>)
  PROVE  CallsHeld' /\ calls' \in [Client -> Seq(Call)] /\ Directed' /\ Speak(c)
<1>1. calls' = [calls EXCEPT ![c] = RemoveAt(@, i) \o more]
  BY DEF Settle
<1>2. CallsHeld' /\ calls' \in [Client -> Seq(Call)]
  BY <1>1, CallsSettle
<1>3. Directed' /\ Speak(c)
  <2>. DEFINE msgs == <<>>
  <2>1. msgs \in Seq(Fitting(c)) /\ up' = SigSend(up, c, msgs)
        /\ UNCHANGED <<clientVars, down, serverVars, told, broken, evictions>>
    BY DEF Settle
  <2>. HIDE DEF msgs
  <2>. QED  BY <2>1, SpeakFits
<1>. QED  BY <1>2, <1>3

\* A call never settles, a description is rejected, or an answer fails.
LEMMA GivesUpKeeps ==
  ASSUME RoomInv, Directed, MeshInv, NEW c \in Client, NEW i \in DOMAIN calls[c],
         NeverSettles(c, i) \/ RejectRemote(c, i) \/ AnswerFails(c, i)
  PROVE  MeshInv' /\ Directed' /\ Speak(c)
<1>. USE DEF MeshInv
<1>1. Settle(c, i, <<>>, <<>>) /\ UNCHANGED <<peers, pcs>>
  BY DEF NeverSettles, RejectRemote, AnswerFails
<1>2. Connections' /\ Listing' /\ InOrder'
  BY <1>1 DEF Connections, Listing, InOrder, MadeFor, Owned, Initiator
<1>3. \A e \in Client : Held(e) \subseteq Held(e)'
  BY <1>1, HeldGrows
<1>4. <<>> \in Seq(Held(c)')
  OBVIOUS
<1>. QED  BY <1>1, <1>2, <1>3, <1>4, SettleQuietly

\* An offer fails, and what is listed for its device is dropped.
LEMMA OfferFailsKeeps ==
  ASSUME RoomInv, Directed, MeshInv, NEW c \in Client, NEW i \in DOMAIN calls[c],
         OfferFails(c, i)
  PROVE  MeshInv' /\ Directed' /\ Speak(c)
         /\ \A e \in Client, d \in Device : peers'[e][d] \in {peers[e][d], NoConn}
<1>. USE DEF MeshInv
<1>. DEFINE d == calls[c][i].pc[2]
<1>1. Drop(c, d) /\ Settle(c, i, <<>>, <<>>)
  BY DEF OfferFails
<1>2. d \in Device
  BY Pending, ConnIsTriple DEF Held, Call
<1>. HIDE DEF d
<1>3. /\ Connections' /\ Listing' /\ InOrder'
      /\ \A e \in Client : Held(e) \subseteq Held(e)'
      /\ \A e \in Client, f \in Device : peers'[e][f] \in {peers[e][f], NoConn}
  BY <1>1, <1>2, DropKeeps
<1>4. <<>> \in Seq(Held(c)')
  OBVIOUS
<1>. QED  BY <1>1, <1>3, <1>4, SettleQuietly

\* A remote description is set.
LEMMA SetRemoteKeeps ==
  ASSUME RoomInv, Directed, MeshInv, NEW c \in Client, NEW i \in DOMAIN calls[c],
         SetRemote(c, i)
  PROVE  MeshInv' /\ Directed' /\ Speak(c)
<1>. USE DEF MeshInv
<1>. DEFINE p == calls[c][i].pc
            sig == calls[c][i].sig
            v == WithRemote(p, sig)
            k == [at |-> "answer", pc |-> p, sig |-> sig]
<1>1. PICK more : /\ Settle(c, i, more, <<>>)
                  /\ more = <<>> \/ (sig.kind = "offer" /\ more = <<k>>)
  BY Zenon DEF SetRemote
<1>2. /\ Open(p) /\ UNCHANGED peers /\ pcs' = [pcs EXCEPT ![p] = v]
      /\ calls[c][i].at = "remote"
  BY DEF SetRemote, Ready
<1>3. /\ p \in DOMAIN pcs /\ p[1] = c /\ sig \in Description
      /\ sig.kind = "offer" => ~Initiator(c, p[2])
  BY <1>2, Pending DEF Held, Call
<1>4. p \in Conn /\ pcs[p] \in Peer /\ pcs[p].state # "closed"
  BY <1>2, <1>3 DEF Connections, Open
<1>5. v \in Peer /\ v.remote = sig.of /\ sig.of \in Conn /\ v.remote # NoConn
      /\ v.state \in {"answering", "stable", "crossed"}
  <2>1. sig.of \in Conn /\ sig.of # NoConn
    BY <1>3, ConnIsTriple DEF Description
  <2>2. <<>> \in Seq(Conn) /\ Agreed(p, sig) \in {"answering", "stable", "crossed"}
    BY DEF Agreed
  <2>. HIDE DEF p, sig
  <2>. QED  BY <1>4, <2>1, <2>2 DEF WithRemote, Peer
<1>6. /\ Connections' /\ Listing' /\ InOrder'
      /\ \A e \in Client : Held(e) \subseteq Held(e)'
  <2>. HIDE DEF v, p
  <2>. QED  BY <1>2, <1>3, <1>4, <1>5, ConnChanges
<1>7. more \in Seq(Held(c)')
  <2>1. CASE more = <<>>
    BY <2>1
  <2>2. CASE sig.kind = "offer" /\ more = <<k>>
    <3>1. p \in DOMAIN pcs' /\ pcs'[p].remote # NoConn
      BY <1>2, <1>3, <1>5 DEF Connections
    <3>. HIDE DEF p, sig
    <3>2. k \in Held(c)'
      BY <1>3, <1>4, <2>2, <3>1 DEF Held, Call, Initiator, Signals
    <3>. HIDE DEF k
    <3>. QED  BY <2>2, <3>2
  <2>. QED  BY <1>1, <2>1, <2>2
<1>. QED  BY <1>1, <1>6, <1>7, SettleQuietly

\* An answer goes out.
LEMMA AnswerKeeps ==
  ASSUME RoomInv, Directed, MeshInv, NEW c \in Client, NEW i \in DOMAIN calls[c],
         Answer(c, i)
  PROVE  MeshInv' /\ Directed' /\ Speak(c)
<1>. USE DEF MeshInv
<1>. DEFINE p == calls[c][i].pc
            v == [pcs[p] EXCEPT !.state = "stable"]
            answer == [kind |-> "answer", of |-> p, to |-> pcs[p].remote]
            msgs == <<SignalTo(p, answer)>>
<1>1. /\ Open(p) /\ UNCHANGED peers /\ pcs' = [pcs EXCEPT ![p].state = "stable"]
      /\ calls[c][i].at = "answer" /\ Settle(c, i, <<>>, msgs)
  BY DEF Answer, Ready
<1>2. p \in DOMAIN pcs /\ p[1] = c /\ pcs[p].remote # NoConn
  BY <1>1, Pending DEF Held
<1>3. p \in Conn /\ pcs[p] \in Peer /\ pcs[p].state # "closed"
  BY <1>1, <1>2 DEF Connections, Open
<1>4. v \in Peer /\ v.state = "stable" /\ v.remote = pcs[p].remote
  BY <1>3 DEF Peer
<1>5. pcs' = [pcs EXCEPT ![p] = v]
  BY <1>1
<1>6. /\ Connections' /\ Listing' /\ InOrder'
      /\ \A e \in Client : Held(e) \subseteq Held(e)'
  <2>. HIDE DEF v, p
  <2>. QED  BY <1>1, <1>2, <1>3, <1>4, <1>5, ConnChanges
<1>7. CallsHeld' /\ calls' \in [Client -> Seq(Call)]
  <2>. DEFINE more == <<>>
  <2>1. calls' = [calls EXCEPT ![c] = RemoveAt(@, i) \o more] /\ more \in Seq(Held(c)')
    BY <1>1 DEF Settle
  <2>. HIDE DEF more
  <2>. QED  BY <1>6, <2>1, CallsSettle
<1>8. Directed' /\ Speak(c)
  <2>1. answer \in Signals /\ answer.kind = "answer"
    <3>1. pcs[p].remote \in Conn
      BY <1>2, <1>3 DEF Peer
    <3>. QED  BY <1>3, <3>1 DEF Signals, Description
  <2>2. msgs \in Seq(Fitting(c))
    <3>. HIDE DEF answer
    <3>. QED  BY <1>2, <2>1, OwnSignal
  <2>3. /\ up' = SigSend(up, c, msgs)
        /\ UNCHANGED <<clientVars, down, serverVars, told, broken, evictions>>
    BY <1>1 DEF Settle
  <2>. HIDE DEF msgs
  <2>. QED  BY <2>2, <2>3, SpeakFits
<1>. QED  BY <1>6, <1>7, <1>8

\* A connection changes and no call does.
LEMMA OneChanges ==
  ASSUME MeshInv, UNCHANGED <<peers, calls>>,
         NEW p \in DOMAIN pcs, NEW v \in Peer, pcs' = [pcs EXCEPT ![p] = v],
         v.state = pcs[p].state, v.remote = pcs[p].remote
  PROVE  MeshInv'
<1>. USE DEF MeshInv
<1>1. pcs[p].state = "offered" => Initiator(p[1], p[2])
  BY DEF Connections
<1>2. /\ Connections' /\ Listing' /\ InOrder'
      /\ \A e \in Client : Held(e) \subseteq Held(e)'
  BY <1>1, ConnChanges
<1>3. \A e \in Client : calls[e] \in Seq(Held(e)')
  BY <1>2 DEF CallsHeld
<1>. QED  BY <1>2, <1>3 DEF CallsHeld

\* A connection signals its candidate.
LEMMA TrickleKeeps ==
  ASSUME RoomInv, Directed, MeshInv, NEW p \in DOMAIN pcs, Trickle(p)
  PROVE  MeshInv' /\ Directed' /\ p[1] \in Client /\ Speak(p[1])
<1>. DEFINE v == [pcs[p] EXCEPT !.trickled = TRUE]
            ice == [kind |-> "ice", of |-> p]
            msgs == <<SignalTo(p, ice)>>
<1>1. p \in Conn /\ pcs[p] \in Peer
  BY DEF MeshInv, Connections
<1>2. v \in Peer /\ v.state = pcs[p].state /\ v.remote = pcs[p].remote
  BY <1>1 DEF Peer
<1>3. pcs' = [pcs EXCEPT ![p] = v] /\ UNCHANGED <<peers, calls>>
  BY DEF Trickle
<1>4. MeshInv'
  <2>. HIDE DEF v
  <2>. QED  BY <1>2, <1>3, OneChanges
<1>5. ice \in Signals /\ ice.kind = "ice"
  BY <1>1 DEF Signals, Candidate
<1>6. p[1] \in Client /\ msgs \in Seq(Fitting(p[1]))
  <2>. HIDE DEF ice
  <2>. QED  BY <1>5, OwnSignal
<1>7. /\ up' = SigSend(up, p[1], msgs)
      /\ UNCHANGED <<clientVars, down, serverVars, told, broken, evictions>>
  BY DEF Trickle
<1>8. Directed' /\ Speak(p[1])
  <2>. HIDE DEF msgs
  <2>. QED  BY <1>6, <1>7, SpeakFits
<1>. QED  BY <1>4, <1>6, <1>8

\* A channel opens, a connection fails, a path breaks.
LEMMA ConnectionsKeep ==
  ASSUME MeshInv, NEW p \in DOMAIN pcs, ChannelOpens(p) \/ Fails(p) \/ PathBreaks(p)
  PROVE  /\ MeshInv' /\ UNCHANGED signalingVars
         /\ \A e \in Client, d \in Device : peers'[e][d] \in {peers[e][d], NoConn}
<1>1. CASE ChannelOpens(p)
  <2>. DEFINE v == [pcs[p] EXCEPT !.channel = TRUE]
  <2>1. pcs[p] \in Peer
    BY DEF MeshInv, Connections
  <2>2. v \in Peer /\ v.state = pcs[p].state /\ v.remote = pcs[p].remote
    BY <2>1 DEF Peer
  <2>3. pcs' = [pcs EXCEPT ![p] = v] /\ UNCHANGED <<peers, calls>>
    BY <1>1 DEF ChannelOpens
  <2>. HIDE DEF v
  <2>4. MeshInv'
    BY <2>2, <2>3, OneChanges
  <2>. QED  BY <1>1, <2>3, <2>4 DEF ChannelOpens
<1>2. CASE Fails(p) \/ PathBreaks(p)
  <2>1. Drop(p[1], p[2]) /\ UNCHANGED <<signalingVars, calls>>
    BY <1>2 DEF Fails, PathBreaks
  <2>2. p[1] \in Client /\ p[2] \in Device
    BY ConnIsTriple DEF MeshInv, Connections
  <2>3. MeshInv'
    BY <2>1, <2>2, DropMesh
  <2>4. \A e \in Client, d \in Device : peers'[e][d] \in {peers[e][d], NoConn}
    BY <2>1, <2>2, DropKeeps DEF MeshInv
  <2>. QED  BY <2>1, <2>3, <2>4
<1>. QED  BY <1>1, <1>2

\* Everything a client has is gone.
LEMMA DropAllKeeps ==
  ASSUME MeshInv, NEW c \in Client, DropAll(c)
  PROVE  /\ MeshInv'
         /\ \A d \in Device : peers'[c][d] = NoConn
         /\ \A e \in Client, d \in Device : peers'[e][d] \in {peers[e][d], NoConn}
<1>. USE DEF MeshInv
<1>1. /\ peers' \in [Client -> [Device -> Conn \cup {NoConn}]]
      /\ \A e \in Client, d \in Device : peers'[e][d] = IF e = c THEN NoConn ELSE peers[e][d]
  <2>. DEFINE none == [d \in Device |-> NoConn]
  <2>1. none \in [Device -> Conn \cup {NoConn}] /\ \A d \in Device : none[d] = NoConn
    OBVIOUS
  <2>2. peers' = [peers EXCEPT ![c] = none]
    BY DEF DropAll
  <2>3. peers \in [Client -> [Device -> Conn \cup {NoConn}]]
    BY DEF Listing
  <2>. HIDE DEF none
  <2>. QED  BY <2>1, <2>2, <2>3
<1>2. /\ DOMAIN pcs' = DOMAIN pcs
      /\ pcs' = [p \in DOMAIN pcs |-> pcs'[p]]
      /\ \A p \in DOMAIN pcs :
           pcs'[p] = IF p[1] = c THEN [pcs[p] EXCEPT !.state = "closed"] ELSE pcs[p]
  BY DEF DropAll
<1>3. \A p \in DOMAIN pcs : /\ pcs'[p] \in Peer /\ pcs'[p].remote = pcs[p].remote
                            /\ pcs'[p].state = IF p[1] = c THEN "closed" ELSE pcs[p].state
  <2>. TAKE p \in DOMAIN pcs
  <2>1. pcs[p] \in Peer
    BY DEF Connections
  <2>2. CASE p[1] = c
    <3>1. pcs'[p] = [pcs[p] EXCEPT !.state = "closed"]
      BY <1>2, <2>2
    <3>. QED  BY <2>1, <2>2, <3>1 DEF Peer
  <2>3. CASE p[1] # c
    BY <1>2, <2>1, <2>3
  <2>. QED  BY <2>2, <2>3
<1>4. Connections'
  <2>1. pcs' \in [DOMAIN pcs -> Peer]
    BY <1>2, <1>3
  <2>. QED  BY <1>2, <1>3, <2>1 DEF Connections, Initiator
<1>5. Listing'
  <2>1. \A p \in DOMAIN pcs : pcs'[p].state # "closed" <=> peers'[p[1]][p[2]] = p
    <3>. TAKE p \in DOMAIN pcs
    <3>1. p[1] \in Client /\ p[2] \in Device /\ p # NoConn
      BY ConnIsTriple DEF Connections
    <3>2. pcs[p].state # "closed" <=> peers[p[1]][p[2]] = p
      BY DEF Listing
    <3>3. /\ peers'[p[1]][p[2]] = IF p[1] = c THEN NoConn ELSE peers[p[1]][p[2]]
          /\ pcs'[p].state = IF p[1] = c THEN "closed" ELSE pcs[p].state
      BY <1>1, <1>3, <3>1
    <3>. QED  BY <3>1, <3>2, <3>3
  <2>. QED  BY <1>1, <1>2, <2>1 DEF Listing
<1>6. InOrder'
  BY <1>2 DEF InOrder, MadeFor, Owned
<1>7. \A e \in Client : Held(e) \subseteq Held(e)'
  BY <1>2, <1>3, HeldGrows
<1>8. CallsHeld' /\ calls' \in [Client -> Seq(Call)]
  <2>. DEFINE q == <<>>
  <2>1. q \in Seq(Held(c)') /\ calls' = [calls EXCEPT ![c] = q]
    BY DEF DropAll
  <2>. HIDE DEF q
  <2>. QED  BY <1>7, <2>1, CallsChange
<1>. QED  BY <1>1, <1>4, <1>5, <1>6, <1>8

-----------------------------------------------------------------------------
\* The invariant of every step.

\* Signaling goes on and connections are left alone.
LEMMA MeshLeftAlone ==
  ASSUME MeshInv, UNCHANGED peerVars
  PROVE  MeshInv'
BY DEF peerVars, MeshInv, Connections, Listing, InOrder, MadeFor, Owned, CallsHeld, Held,
   Initiator

\* Nobody closes but who drops all.
LEMMA StaysAway ==
  ASSUME Away, \A c \in Client, d \in Device : peers'[c][d] \in {peers[c][d], NoConn},
         \A c \in Client : phase'[c] \in {"idle", "closed"} => phase'[c] = phase[c]
  PROVE  Away'
<1>. SUFFICES ASSUME NEW c \in Client, phase'[c] \in {"idle", "closed"}, NEW d \in Device
              PROVE  peers'[c][d] = NoConn
  BY DEF Away
<1>1. phase[c] \in {"idle", "closed"}
  OBVIOUS
<1>2. peers[c][d] = NoConn
  BY <1>1 DEF Away
<1>. QED  BY <1>2

\* A client is idle or closed only if it was, unless it closes.
LEMMA PhaseStep ==
  ASSUME RoomInv,
         \/ \E c \in Client : \/ Retry(c) \/ Opened(c) \/ Hear(c) \/ Notice(c) \/ Construct(c)
                              \/ ConnectFails(c) \/ Break(c)
         \/ \E s \in Socket : Serve(s) \/ Closes(s) \/ Loses(s)
  PROVE  \A c \in Client : phase'[c] \in {"idle", "closed"} => phase'[c] = phase[c]
<1>1. phase \in [Client -> {"idle", "connecting", "open", "waiting", "conflict", "closed"}]
  BY DEF RoomInv, SignalingTypeOK
<1>2. \/ UNCHANGED phase
      \/ \E c \in Client, to \in {"connecting", "open", "waiting", "conflict"} :
           phase' = [phase EXCEPT ![c] = to]
  BY DEF Retry, Construct, Connect, Opened, Hear, Receive, Notice, Break, LoseEnd, ConnectFails,
     Serve, Closes, Loses, ServerClose, clientVars
<1>. QED  BY <1>1, <1>2

\* Every step of PeerConnections is one of the signaling actions or signals,
\* and keeps the invariant.
LEMMA PeerStep ==
  ASSUME RoomInv, PeerInv, [PeerNext]_meshVars
  PROVE  PeerInv' /\ [SignalingStep]_signalingVars
<1>. USE DEF PeerInv
<1>1. CASE UNCHANGED meshVars
  <2>1. MeshInv' /\ UNCHANGED <<signalingVars, peerVars>>
    BY <1>1, MeshLeftAlone DEF meshVars
  <2>. QED  BY <2>1 DEF signalingVars, peerVars, clientVars, Directed, Away
<1>2. ASSUME \E c \in Client : Speak(c), MeshInv', Directed',
             \A c \in Client, d \in Device : peers'[c][d] \in {peers[c][d], NoConn},
             failures' \in 0 .. MaxFailures
      PROVE  PeerInv' /\ [SignalingStep]_signalingVars
  <2>1. UNCHANGED phase
    BY <1>2 DEF Speak, clientVars
  <2>2. Away'
    BY <1>2, <2>1, StaysAway
  <2>. QED  BY <1>2, <2>2 DEF SignalingStep
<1>3. ASSUME NEW c \in Client, NEW i \in DOMAIN calls[c],
             \/ Offer(c, i) \/ NeverSettles(c, i) \/ SetRemote(c, i) \/ RejectRemote(c, i)
             \/ Answer(c, i)
      PROVE  PeerInv' /\ [SignalingStep]_signalingVars
  <2>1. MeshInv' /\ Directed' /\ Speak(c)
    BY <1>3, OfferKeeps, GivesUpKeeps, SetRemoteKeeps, AnswerKeeps
  <2>2. UNCHANGED <<peers, failures>>
    BY <1>3 DEF Offer, NeverSettles, SetRemote, RejectRemote, Answer
  <2>. QED  BY <1>2, <2>1, <2>2
<1>4. ASSUME NEW c \in Client, NEW i \in DOMAIN calls[c], OfferFails(c, i) \/ AnswerFails(c, i)
      PROVE  PeerInv' /\ [SignalingStep]_signalingVars
  <2>1. failures' \in 0 .. MaxFailures
    BY <1>4, PeerAssumption DEF OfferFails, AnswerFails
  <2>2. CASE OfferFails(c, i)
    BY <1>2, <2>1, <2>2, OfferFailsKeeps
  <2>3. CASE AnswerFails(c, i)
    <3>1. MeshInv' /\ Directed' /\ Speak(c)
      BY <2>3, GivesUpKeeps
    <3>2. UNCHANGED peers
      BY <2>3 DEF AnswerFails
    <3>. QED  BY <1>2, <2>1, <3>1, <3>2
  <2>. QED  BY <1>4, <2>2, <2>3
<1>5. ASSUME NEW p \in DOMAIN pcs, Trickle(p)
      PROVE  PeerInv' /\ [SignalingStep]_signalingVars
  <2>1. MeshInv' /\ Directed' /\ p[1] \in Client /\ Speak(p[1])
    BY <1>5, TrickleKeeps
  <2>2. UNCHANGED <<peers, failures>>
    BY <1>5 DEF Trickle
  <2>. QED  BY <1>2, <2>1, <2>2
<1>6. ASSUME NEW p \in DOMAIN pcs, ChannelOpens(p) \/ Fails(p) \/ PathBreaks(p)
      PROVE  PeerInv' /\ [SignalingStep]_signalingVars
  <2>1. /\ MeshInv' /\ UNCHANGED signalingVars
        /\ \A c \in Client, d \in Device : peers'[c][d] \in {peers[c][d], NoConn}
    BY <1>6, ConnectionsKeep
  <2>2. failures' \in 0 .. MaxFailures
    BY <1>6, PeerAssumption DEF ChannelOpens, Fails, PathBreaks
  <2>3. UNCHANGED <<up, down, phase>>
    BY <2>1 DEF signalingVars, clientVars
  <2>4. Away' /\ Directed'
    BY <2>1, <2>3, StaysAway DEF Directed
  <2>. QED  BY <2>1, <2>2, <2>4
<1>7. ASSUME UNCHANGED peerVars, SignalingNext,
             \/ \E c \in Client : \/ Retry(c) \/ Opened(c) \/ Hear(c) \/ Notice(c)
                                  \/ Construct(c) \/ ConnectFails(c) \/ Break(c)
             \/ \E s \in Socket : Serve(s) \/ Closes(s) \/ Loses(s)
      PROVE  PeerInv' /\ [SignalingStep]_signalingVars
  <2>1. MeshInv' /\ Directed'
    BY <1>7, MeshLeftAlone, DirectedStep
  <2>2. Away'
    <3>1. UNCHANGED peers
      BY <1>7 DEF peerVars
    <3>2. \A c \in Client : phase'[c] \in {"idle", "closed"} => phase'[c] = phase[c]
      BY <1>7, PhaseStep
    <3>. QED  BY <3>1, <3>2, StaysAway
  <2>. QED  BY <1>7, <2>1, <2>2 DEF SignalingStep, peerVars
<1>8. ASSUME NEW c \in Client, Hears(c)
      PROVE  PeerInv' /\ [SignalingStep]_signalingVars
  <2>1. /\ MeshInv' /\ Hear(c) /\ UNCHANGED failures
        /\ \A e \in Client \ {c}, d \in Device : peers'[e][d] = peers[e][d]
    BY <1>8, HearsKeeps
  <2>2. SignalingNext
    BY <2>1 DEF SignalingNext, Progressing
  <2>3. Directed'
    BY <2>2, DirectedStep
  <2>4. Away'
    <3>1. phase[c] = "open" /\ phase'[c] \in {"open", "conflict"}
      BY <2>1 DEF Hear, Receive, Live, Current, RoomInv, SignalingTypeOK
    <3>2. \A e \in Client : phase'[e] \in {"idle", "closed"} => e # c /\ phase'[e] = phase[e]
      BY <2>1, <3>1, PhaseStep
    <3>. QED  BY <2>1, <3>2 DEF Away
  <2>. QED  BY <2>1, <2>2, <2>3, <2>4 DEF SignalingStep
<1>9. ASSUME NEW c \in Client, Ends(c)
      PROVE  PeerInv' /\ [SignalingStep]_signalingVars
  <2>1. Close(c) /\ DropAll(c) /\ UNCHANGED failures
    BY <1>9 DEF Ends
  <2>2. SignalingNext
    BY <2>1 DEF SignalingNext, Living
  <2>3. MeshInv' /\ Directed'
    BY <2>1, <2>2, DropAllKeeps, DirectedStep
  <2>4. Away'
    <3>1. phase' = [phase EXCEPT ![c] = "closed"]
      BY <2>1 DEF Close, LoseEnd
    <3>2. /\ \A d \in Device : peers'[c][d] = NoConn
          /\ \A e \in Client, d \in Device : peers'[e][d] \in {peers[e][d], NoConn}
      BY <2>1, DropAllKeeps
    <3>3. \A e \in Client : e # c => phase'[e] = phase[e]
      BY <3>1 DEF RoomInv, SignalingTypeOK
    <3>. QED  BY <3>2, <3>3 DEF Away
  <2>. QED  BY <2>1, <2>2, <2>3, <2>4 DEF SignalingStep
<1>10. CASE Settling \/ Connecting \/ PeerFailing
  BY <1>10, <1>3, <1>4, <1>5, <1>6 DEF Settling, Connecting, PeerFailing
<1>11. CASE Networking
  BY <1>11, <1>7, <1>8 DEF Networking, SignalingNext, Progressing
<1>12. CASE (Breaking /\ UNCHANGED peerVars) \/ \E c \in Client : Constructing(c) \/ Ends(c)
  BY <1>12, <1>7, <1>9 DEF Breaking, Constructing, SignalingNext, Living
<1>. QED  BY <1>1, <1>10, <1>11, <1>12 DEF PeerNext

\* Nothing is connected at first.
LEMMA PeerInitInv ==
  ASSUME PeerInit
  PROVE  PeerInv
<1>1. MeshInv
  <2>0. pcs = [p \in {} |-> NewPeer] /\ DOMAIN pcs = {} /\ pcs \in [{} -> Peer]
    BY DEF PeerInit
  <2>1. Connections /\ Listing
    BY <2>0 DEF PeerInit, Connections, Listing
  <2>2. CallsHeld /\ calls \in [Client -> Seq(Call)]
    BY DEF PeerInit, CallsHeld
  <2>3. InOrder
    <3>. SUFFICES ASSUME NEW c \in Client, NEW d \in Device
                  PROVE  MadeFor(c, d) = FirstOf(c, d, Cardinality(MadeFor(c, d)))
      BY DEF InOrder
    <3>1. MadeFor(c, d) = {}
      BY DEF PeerInit, MadeFor, Owned
    <3>2. FirstOf(c, d, 0) = {}
      BY DEF FirstOf
    <3>3. Cardinality(MadeFor(c, d)) = 0
      BY <3>1, FS_EmptySet
    <3>. QED  BY <3>1, <3>2, <3>3
  <2>. QED  BY <2>1, <2>2, <2>3 DEF MeshInv
<1>2. Directed
  BY DEF PeerInit, SignalingInit, Directed
<1>3. Away /\ failures \in 0 .. MaxFailures
  BY PeerAssumption DEF PeerInit, Away
<1>. QED  BY <1>1, <1>2, <1>3 DEF PeerInv

\* The invariants of the room and of its connections hold together.
LEMMA PeerInvAlways == PeerSpec => [](RoomInv /\ PeerInv)
<1>1. PeerInit => RoomInv /\ PeerInv
  BY RoomInvInit, PeerInitInv DEF PeerInit
<1>2. (RoomInv /\ PeerInv) /\ [PeerNext]_meshVars => (RoomInv /\ PeerInv)'
  BY PeerStep, RoomInvStep
<1>. QED  BY <1>1, <1>2, PTL DEF PeerSpec

-----------------------------------------------------------------------------
\* Peers, connections and the calls on them are well-typed.
THEOREM PeerTypeCorrect == PeerSpec => []PeerTypeOK
<1>1. RoomInv /\ PeerInv => PeerTypeOK
  BY DEF RoomInv, PeerInv, MeshInv, Connections, Listing, PeerTypeOK
<1>. QED  BY <1>1, PeerInvAlways, PTL

\* No connection runs that send() does not reach: replaced, dropped, failed
\* and closed ones are closed, whatever breaks and whoever comes back.
THEOREM ConnectionsAreListed == PeerSpec => []NoStrayConnections
<1>1. ASSUME PeerInv, NEW c \in Client
      PROVE  {p \in Owned(c) : Open(p)} = {peers[c][d] : d \in Device} \ {NoConn}
  <2>1. ASSUME NEW p \in Owned(c), Open(p)
        PROVE  p # NoConn /\ \E d \in Device : p = peers[c][d]
    <3>1. p \in DOMAIN pcs /\ p[1] = c /\ p[2] \in Device /\ p # NoConn
      BY <1>1, ConnIsTriple DEF Owned, PeerInv, MeshInv, Connections
    <3>2. peers[c][p[2]] = p
      BY <1>1, <2>1, <3>1 DEF Open, PeerInv, MeshInv, Listing
    <3>. QED  BY <3>1, <3>2
  <2>2. ASSUME NEW d \in Device, peers[c][d] # NoConn
        PROVE  peers[c][d] \in Owned(c) /\ Open(peers[c][d])
    BY <1>1, <2>2 DEF Owned, Open, PeerInv, MeshInv, Listing
  <2>. QED  BY <2>1, <2>2
<1>2. PeerInv => NoStrayConnections
  BY <1>1 DEF NoStrayConnections, PeerInv, Away
<1>. QED  BY <1>2, PeerInvAlways, PTL

\* Only one side ever offers: an offer that is applied meets none of its own
\* side, because signals go between two devices of which the lower offers.
THEOREM OnlyOneSideOffers == PeerSpec => []OneSideOffers
<1>1. ASSUME PeerInv, NEW c \in Client, NEW i \in DOMAIN calls[c],
             calls[c][i].at = "remote", calls[c][i].sig.kind = "offer"
      PROVE  pcs[calls[c][i].pc].state # "offered"
  <2>1. calls[c][i] \in Held(c)
    BY <1>1, Pending DEF PeerInv
  <2>2. /\ calls[c][i].pc \in DOMAIN pcs /\ calls[c][i].pc[1] = c
        /\ ~Initiator(c, calls[c][i].pc[2])
    BY <1>1, <2>1 DEF Held
  <2>. QED  BY <1>1, <2>2 DEF PeerInv, MeshInv, Connections
<1>2. PeerInv => OneSideOffers
  BY <1>1 DEF OneSideOffers
<1>. QED  BY <1>2, PeerInvAlways, PTL

\* What is proved of the signaling server and its clients holds of the mesh:
\* what clients do on what they hear, and say, disturbs none of it.
THEOREM RoomStaysRightUnderMesh == PeerSpec => [](RoomExact /\ PresenceExact /\ NoDuel)
<1>1. PeerInit => PresenceExact /\ Paid /\ Charged
  <2>1. SignalingInit => PresenceExact
    BY DEF SignalingInit, PresenceExact
  <2>. QED  BY <2>1, DuelInit DEF PeerInit
<1>2. (RoomInv /\ PeerInv) /\ (PresenceExact /\ Paid /\ Charged) /\ [PeerNext]_meshVars
        => (PresenceExact /\ Paid /\ Charged)'
  BY PeerStep, PresenceStep, PaidStep, ChargedStep
<1>3. (RoomInv /\ PeerInv) /\ (PresenceExact /\ Paid /\ Charged)
        => RoomExact /\ PresenceExact /\ NoDuel
  BY DuelsEnd DEF RoomInv
<1>. QED  BY <1>1, <1>2, <1>3, PeerInvAlways, PTL DEF PeerSpec
=============================================================================
