-------------------------- MODULE SignalingProofs --------------------------
(***************************************************************************)
(* Theorems of Signaling, for every set of devices, transports and blobs,  *)
(* and for every bound.                                                    *)
(*                                                                         *)
(* The inductive invariant is RoomInv. RoomExact rests on a client joining *)
(* once per socket: a second join of an evicted socket, which the server   *)
(* still reads from, would put a socket into the room that is closing.     *)
(* That what clients are told of presence is exact, and that evictions     *)
(* end, rests on RoomInv. Both are proved of every step of the signaling   *)
(* actions and of a client that signals, so that they hold of              *)
(* PeerConnections too.                                                    *)
(***************************************************************************)
EXTENDS Signaling, FiniteSetTheorems, SequenceTheorems, TLAPS

\* A socket nobody has opened yet.
Unopened(s) ==
  \/ s[2] > sock[s[1]]
  \/ s[2] = sock[s[1]] /\ phase[s[1]] = "connecting"

Untouched ==
  \A s \in Socket : Unopened(s) => conn[s] = "none" /\ up[s] = <<>>

\* A join is the first thing a socket says, and it says it once.
JoinsOnce ==
  \A s \in Socket : \A i \in DOMAIN up[s] :
    up[s][i].t = "join" => i = 1 /\ s \notin me

Members ==
  \A s \in Socket :
    /\ s \in me => conn[s] \in {"open", "closing"}
    /\ conn[s] = "closing" => s \in me

RoomOwn ==
  \A d \in Device : room[d] # NoSocket => room[d] \in Socket /\ DeviceAt(room[d]) = d

\* Whoever has connected has a socket.
Numbered == \A c \in Client : phase[c] # "idle" => sock[c] # 0

\* What PeerConnections adds to the signaling actions: a client signals.
Signal == [t : {"signal"}, to : Device, data : Blob]
Speak(c) ==
  /\ \E msgs \in Seq(Signal) : up' = SigSend(up, c, msgs)
  /\ UNCHANGED <<clientVars, down, serverVars, told, broken, evictions>>
SignalingStep == SignalingNext \/ \E c \in Client : Speak(c)

RoomInv ==
  SignalingTypeOK /\ Numbered /\ Untouched /\ JoinsOnce /\ Members /\ RoomOwn /\ RoomExact

-----------------------------------------------------------------------------
\* Type correctness.

\* A socket is a pair, and so is not NoSocket.
LEMMA SocketIsPair ==
  /\ \A s \in Socket : s # NoSocket /\ s[1] \in Client /\ s[2] \in 1 .. MaxSockets
                       /\ s = <<s[1], s[2]>> /\ DeviceAt(s) \in Device
BY SignalingAssumption DEF Socket, NoSocket, DeviceAt

\* The socket of a client that has connected.
LEMMA CurrentSocket ==
  ASSUME SignalingTypeOK, Numbered, NEW c \in Client, phase[c] # "idle"
  PROVE  Current(c) \in Socket /\ Current(c)[1] = c /\ Current(c)[2] = sock[c]
         /\ DeviceAt(Current(c)) = DeviceOf[c]
<1>1. sock[c] \in 1 .. MaxSockets
  BY SignalingAssumption DEF Numbered, SignalingTypeOK
<1>. QED  BY <1>1 DEF Current, Socket, DeviceAt

\* send() keeps what is in flight well-typed.
LEMMA SendToType ==
  ASSUME NEW q \in [Socket -> Seq(DownMessage)], NEW targets, NEW m \in DownMessage
  PROVE  SendTo(q, targets, m) \in [Socket -> Seq(DownMessage)]
<1>1. \A s \in Socket : Append(q[s], m) \in Seq(DownMessage)
  BY AppendProperties
<1>. QED  BY <1>1 DEF SendTo

\* A message in flight is a message, and so are those behind it.
LEMMA InFlight ==
  ASSUME SignalingTypeOK, NEW s \in Socket
  PROVE  /\ up[s] # <<>> => Head(up[s]) \in UpMessage /\ Tail(up[s]) \in Seq(UpMessage)
         /\ down[s] # <<>> => Head(down[s]) \in DownMessage
                              /\ Tail(down[s]) \in Seq(DownMessage)
<1>1. up[s] \in Seq(UpMessage) /\ down[s] \in Seq(DownMessage)
  BY DEF SignalingTypeOK
<1>. QED  BY <1>1, HeadTailProperties

\* What a client takes presence to be is a set of devices.
LEMMA HeardType ==
  ASSUME NEW view \in SUBSET Device, NEW m \in DownMessage
  PROVE  Heard(view, m) \in SUBSET Device
<1>1. m.t = "peers" => m.devices \in SUBSET Device
  BY DEF DownMessage
<1>2. m.t = "peer-joined" => m.device \in Device
  BY DEF DownMessage
<1>. QED  BY <1>1, <1>2 DEF Heard

\* What an end that goes leaves behind of what it had sent.
LEMMA LoseEndUp ==
  ASSUME SignalingTypeOK, NEW c \in Client, NEW to, LoseEnd(c, to)
  PROVE  /\ up' \in [Socket -> Seq(UpMessage)]
         /\ down' \in [Socket -> Seq(DownMessage)]
         /\ \A s \in Socket :
              /\ DOMAIN up'[s] \subseteq DOMAIN up[s]
              /\ \A i \in DOMAIN up'[s] : up'[s][i] = up[s][i]
              /\ up[s] = <<>> => up'[s] = <<>>
<1> DEFINE q == Current(c)
<1>1. PICK n \in 0 .. (IF q \in Socket THEN Len(up[q]) ELSE 0) :
        up' = [s \in Socket |-> IF s = q THEN SubSeq(up[q], 1, n) ELSE up[s]]
  BY Zenon DEF LoseEnd
<1>2. down' = [s \in Socket |-> IF s = q THEN <<>> ELSE down[s]]
  BY DEF LoseEnd
<1>3. <<>> \in Seq(DownMessage) /\ <<>> \in Seq(UpMessage)
  OBVIOUS
<1>4. down' \in [Socket -> Seq(DownMessage)]
  BY <1>2, <1>3 DEF SignalingTypeOK
<1>5. ASSUME q \in Socket
      PROVE  /\ SubSeq(up[q], 1, n) \in Seq(UpMessage)
             /\ DOMAIN SubSeq(up[q], 1, n) \subseteq DOMAIN up[q]
             /\ \A i \in DOMAIN SubSeq(up[q], 1, n) : SubSeq(up[q], 1, n)[i] = up[q][i]
             /\ up[q] = <<>> => SubSeq(up[q], 1, n) = <<>>
  <2>1. up[q] \in Seq(UpMessage)
    BY <1>5 DEF SignalingTypeOK
  <2>2. n \in 0 .. Len(up[q])
    BY <1>1, <1>5
  <2>3. n \in Nat /\ n <= Len(up[q]) /\ Len(up[q]) \in Nat
    BY <2>1, <2>2
  <2>4. \A i \in 1 .. n : up[q][i] \in UpMessage
    BY <2>1, <2>3
  <2>5. /\ SubSeq(up[q], 1, n) \in Seq(UpMessage)
        /\ Len(SubSeq(up[q], 1, n)) = n
        /\ \A i \in 1 .. n : SubSeq(up[q], 1, n)[i] = up[q][i]
    <3>1. /\ SubSeq(up[q], 1, n) \in Seq(UpMessage)
          /\ Len(SubSeq(up[q], 1, n)) = IF 1 <= n THEN n - 1 + 1 ELSE 0
          /\ \A i \in 1 .. n - 1 + 1 : SubSeq(up[q], 1, n)[i] = up[q][1 + i - 1]
      BY <2>3, <2>4, SubSeqProperties
    <3>. QED  BY <3>1, <2>3
  <2>6. up[q] = <<>> => n = 0
    BY <2>3
  <2>. QED  BY <2>1, <2>3, <2>5, <2>6
<1>6. up' \in [Socket -> Seq(UpMessage)]
  BY <1>1, <1>5 DEF SignalingTypeOK
<1>7. ASSUME NEW s \in Socket
      PROVE  /\ DOMAIN up'[s] \subseteq DOMAIN up[s]
             /\ \A i \in DOMAIN up'[s] : up'[s][i] = up[s][i]
             /\ up[s] = <<>> => up'[s] = <<>>
  BY <1>1, <1>5, <1>7
<1>. QED  BY <1>4, <1>6, <1>7

-----------------------------------------------------------------------------
\* Clients. None of their steps touches the server, but that an accepted
\* socket is open.

\* A client's end goes.
LEMMA LoseEndKeeps ==
  ASSUME RoomInv, NEW c \in Client, NEW to \in {"waiting", "closed"}, LoseEnd(c, to),
         phase[c] # "idle", broken' \subseteq Socket
  PROVE  RoomInv'
<1>. USE DEF RoomInv
<1>1. SignalingTypeOK'
  BY LoseEndUp DEF LoseEnd, SignalingTypeOK, serverVars
<1>2. UNCHANGED <<sock, conn, me, room>> /\ phase' = [phase EXCEPT ![c] = to]
  BY DEF LoseEnd, serverVars
<1>6. Numbered'
  BY <1>2 DEF Numbered, SignalingTypeOK
<1>3. Untouched'
  <2>1. \A s \in Socket : Unopened(s)' => Unopened(s)
    BY <1>2, SocketIsPair DEF Unopened, SignalingTypeOK
  <2>. QED  BY <1>2, <2>1, LoseEndUp DEF Untouched
<1>4. JoinsOnce'
  BY <1>2, LoseEndUp DEF JoinsOnce
<1>5. Members' /\ RoomOwn' /\ RoomExact'
  BY <1>2 DEF Members, RoomOwn, RoomExact
<1>. QED  BY <1>1, <1>3, <1>4, <1>5, <1>6

\* A socket is opened, the first or another one.
LEMMA ConnectKeeps ==
  ASSUME RoomInv, NEW c \in Client, NEW from, Connect(c, from)
  PROVE  RoomInv'
<1>. USE DEF RoomInv
<1>1. UNCHANGED <<up, down, conn, me, room, told, broken, evictions>>
  BY DEF Connect, serverVars
<1>2. sock' = [sock EXCEPT ![c] = @ + 1] /\ phase' = [phase EXCEPT ![c] = "connecting"]
  BY DEF Connect
<1>3. SignalingTypeOK'
  <2>1. sock' \in [Client -> 0 .. MaxSockets]
    BY SignalingAssumption DEF Connect, SignalingTypeOK
  <2>. QED  BY <1>1, <1>2, <2>1 DEF SignalingTypeOK
<1>4. Untouched'
  <2>1. \A s \in Socket : Unopened(s)' => Unopened(s)
    BY <1>2, SocketIsPair, SignalingAssumption DEF Unopened, SignalingTypeOK
  <2>. QED  BY <1>1, <2>1 DEF Untouched
<1>5. JoinsOnce' /\ Members' /\ RoomOwn' /\ RoomExact'
  BY <1>1 DEF JoinsOnce, Members, RoomOwn, RoomExact
<1>6. Numbered'
  BY <1>2 DEF Numbered, SignalingTypeOK
<1>. QED  BY <1>3, <1>4, <1>5, <1>6

\* A socket opens, and says its first word.
LEMMA OpenedKeeps ==
  ASSUME RoomInv, NEW c \in Client, Opened(c)
  PROVE  RoomInv'
<1>. USE DEF RoomInv
<1> DEFINE q == Current(c)
<1>1. UNCHANGED <<sock, down, me, room, broken, evictions>> /\ phase[c] = "connecting"
  BY DEF Opened
<1>2. /\ phase' = [phase EXCEPT ![c] = "open"]
      /\ conn' = [conn EXCEPT ![q] = "open"]
      /\ up' = [up EXCEPT ![q] = Append(@, [t |-> "join"])]
      /\ told' = [told EXCEPT ![c] = {}]
  BY DEF Opened
<1>3. q \in Socket => Unopened(q) /\ conn[q] = "none" /\ up[q] = <<>> /\ q \notin me
  BY <1>1 DEF Current, Unopened, Untouched, Members
<1>4. q \in Socket => up'[q] = <<[t |-> "join"]>>
  BY <1>2, <1>3 DEF SignalingTypeOK
<1>5. \A s \in Socket : s # q => up'[s] = up[s] /\ conn'[s] = conn[s]
  BY <1>2 DEF SignalingTypeOK
<1>6. q \in Socket => conn'[q] = "open"
  BY <1>2 DEF SignalingTypeOK
<1>7. SignalingTypeOK'
  <2>1. [t |-> "join"] \in UpMessage
    BY DEF UpMessage
  <2>2. <<[t |-> "join"]>> \in Seq(UpMessage)
    BY <2>1
  <2>3. up' \in [Socket -> Seq(UpMessage)]
    BY <1>2, <1>4, <1>5, <2>2 DEF SignalingTypeOK
  <2>4. conn' \in [Socket -> {"none", "open", "closing", "closed"}]
    BY <1>2 DEF SignalingTypeOK
  <2>5. told' \in [Client -> SUBSET Device] /\ phase' \in [Client -> {"idle", "connecting", "open", "waiting", "conflict", "closed"}]
    BY <1>2 DEF SignalingTypeOK
  <2>. QED  BY <1>1, <2>3, <2>4, <2>5 DEF SignalingTypeOK
<1>8. Untouched'
  <2>1. ASSUME NEW s \in Socket, Unopened(s)'
        PROVE  s # q /\ Unopened(s)
    BY <1>1, <1>2, <2>1, SocketIsPair DEF Unopened, Current, SignalingTypeOK
  <2>. QED  BY <1>5, <2>1 DEF Untouched
<1>9. JoinsOnce'
  <2>1. ASSUME NEW s \in Socket, NEW i \in DOMAIN up'[s], up'[s][i].t = "join"
        PROVE  i = 1 /\ s \notin me'
    <3>1. CASE s = q
      <4>1. DOMAIN up'[q] = {1}
        BY <1>4, <3>1
      <4>. QED  BY <1>1, <1>3, <2>1, <3>1, <4>1
    <3>2. CASE s # q
      BY <1>1, <1>5, <2>1, <3>2 DEF JoinsOnce
    <3>. QED  BY <3>1, <3>2
  <2>. QED  BY <2>1 DEF JoinsOnce
<1>10. Members'
  BY <1>1, <1>3, <1>5, <1>6 DEF Members
<1>11. RoomOwn'
  BY <1>1 DEF RoomOwn
<1>12. RoomExact'
  BY <1>1, <1>3, <1>5, <1>6 DEF RoomExact
<1>13. Numbered'
  BY <1>1, <1>2 DEF Numbered, SignalingTypeOK
<1>. QED  BY <1>7, <1>8, <1>9, <1>10, <1>11, <1>12, <1>13

\* A client hears something.
LEMMA ReceiveKeeps ==
  ASSUME RoomInv, NEW c \in Client, Receive(c), UNCHANGED up
  PROVE  RoomInv'
<1>. USE DEF RoomInv
<1> DEFINE s == Current(c)
           m == Head(down[s])
<1>1. /\ UNCHANGED <<sock, up, conn, me, room, broken, evictions>>
      /\ down[s] # <<>>
      /\ down' = [down EXCEPT ![s] = Tail(@)]
      /\ told' = [told EXCEPT ![c] = Heard(@, m)]
      /\ phase' = IF m.t = "close4000" THEN [phase EXCEPT ![c] = "conflict"] ELSE phase
  BY DEF Receive, serverVars
<1>2. c \in Client /\ s \in Socket /\ phase[c] = "open"
  <2>1. phase[c] = "open"
    BY DEF Receive, Live, Current
  <2>. QED  BY <2>1, CurrentSocket
<1>3. m \in DownMessage /\ Tail(down[s]) \in Seq(DownMessage)
  BY <1>1, <1>2, InFlight
<1>4. SignalingTypeOK'
  <2>1. Heard(told[c], m) \in SUBSET Device
    BY <1>3, HeardType DEF SignalingTypeOK
  <2>2. told' \in [Client -> SUBSET Device]
    BY <1>1, <2>1 DEF SignalingTypeOK
  <2>3. down' \in [Socket -> Seq(DownMessage)]
    BY <1>1, <1>3 DEF SignalingTypeOK
  <2>4. phase' \in [Client -> {"idle", "connecting", "open", "waiting", "conflict", "closed"}]
    BY <1>1 DEF SignalingTypeOK
  <2>. QED  BY <1>1, <2>2, <2>3, <2>4 DEF SignalingTypeOK
<1>5. Numbered'
  BY <1>1, <1>2 DEF Numbered, SignalingTypeOK
<1>6. Untouched'
  <2>1. \A q \in Socket : Unopened(q)' => Unopened(q)
    BY <1>1, SocketIsPair DEF Unopened, SignalingTypeOK
  <2>. QED  BY <1>1, <2>1 DEF Untouched
<1>7. JoinsOnce' /\ Members' /\ RoomOwn' /\ RoomExact'
  BY <1>1 DEF JoinsOnce, Members, RoomOwn, RoomExact
<1>. QED  BY <1>4, <1>5, <1>6, <1>7

\* A client signals: the socket has been opened, and it says no join.
LEMMA SpeakKeeps ==
  ASSUME RoomInv, NEW c \in Client, Speak(c)
  PROVE  RoomInv'
<1>. USE DEF RoomInv
<1> DEFINE q == Current(c)
<1>1. UNCHANGED <<phase, sock, down, conn, me, room, told, broken, evictions>>
  BY DEF Speak, clientVars, serverVars
<1>2. PICK msgs \in Seq(Signal) : up' = SigSend(up, c, msgs)
  BY DEF Speak
<1>3. CASE phase[c] # "open" \/ conn[q] = "closed"
  <2>1. UNCHANGED up
    BY <1>2, <1>3 DEF SigSend
  <2>. QED
    BY <1>1, <2>1 DEF SignalingTypeOK, Numbered, Untouched, Unopened, JoinsOnce, Members,
       RoomOwn, RoomExact
<1>4. CASE phase[c] = "open" /\ conn[q] # "closed"
  <2>1. q \in Socket /\ ~Unopened(q) /\ up' = [up EXCEPT ![q] = @ \o msgs]
    BY <1>2, <1>4, CurrentSocket DEF SigSend, Unopened, SignalingTypeOK
  <2>2. up[q] \in Seq(UpMessage) /\ Signal \subseteq UpMessage
    BY <2>1 DEF SignalingTypeOK, Signal, UpMessage
  <2>3. /\ up[q] \o msgs \in Seq(UpMessage)
        /\ \A i \in DOMAIN (up[q] \o msgs) :
             \/ i \in DOMAIN up[q] /\ (up[q] \o msgs)[i] = up[q][i]
             \/ (up[q] \o msgs)[i] \in Signal
    <3> DEFINE said == up[q]
    <3>1. said \in Seq(UpMessage) /\ msgs \in Seq(UpMessage)
      BY <2>2
    <3>. HIDE DEF said
    <3>2. /\ said \o msgs \in Seq(UpMessage)
          /\ \A i \in DOMAIN (said \o msgs) :
               \/ i \in DOMAIN said /\ (said \o msgs)[i] = said[i]
               \/ (said \o msgs)[i] \in Signal
      BY <3>1
    <3>. QED  BY <3>2 DEF said
  <2>4. SignalingTypeOK'
    BY <1>1, <2>1, <2>3 DEF SignalingTypeOK
  <2>5. \A s \in Socket : up'[s] = IF s = q THEN up[q] \o msgs ELSE up[s]
    BY <2>1 DEF SignalingTypeOK
  <2>6. Untouched'
    BY <1>1, <2>1, <2>5 DEF Untouched, Unopened
  <2>7. JoinsOnce'
    BY <1>1, <2>3, <2>5 DEF JoinsOnce, Signal
  <2>. QED  BY <1>1, <2>4, <2>6, <2>7 DEF Numbered, Members, RoomOwn, RoomExact
<1>. QED  BY <1>3, <1>4

\* A socket that does not open.
LEMMA ConnectFailsKeeps ==
  ASSUME RoomInv, NEW c \in Client, ConnectFails(c)
  PROVE  RoomInv'
<1>. USE DEF RoomInv
<1>1. /\ UNCHANGED <<sock, up, down, conn, me, room, told, evictions>>
      /\ phase[c] = "connecting"
      /\ phase' = [phase EXCEPT ![c] = "waiting"]
      /\ broken' = broken \cup {Current(c)}
  BY DEF ConnectFails, serverVars
<1>2. SignalingTypeOK'
  BY <1>1, CurrentSocket DEF SignalingTypeOK
<1>3. Numbered'
  BY <1>1 DEF Numbered, SignalingTypeOK
<1>4. Untouched'
  <2>1. \A q \in Socket : Unopened(q)' => Unopened(q)
    BY <1>1, SocketIsPair DEF Unopened, SignalingTypeOK
  <2>. QED  BY <1>1, <2>1 DEF Untouched
<1>5. JoinsOnce' /\ Members' /\ RoomOwn' /\ RoomExact'
  BY <1>1 DEF JoinsOnce, Members, RoomOwn, RoomExact
<1>. QED  BY <1>2, <1>3, <1>4, <1>5

-----------------------------------------------------------------------------
\* The server.

\* Once the server has read a message of s, no join of s is on its way.
LEMMA JoinsRead ==
  ASSUME RoomInv, NEW s \in Socket, up[s] # <<>>,
         up' = [up EXCEPT ![s] = Tail(@)], me' \subseteq me \cup {s}
  PROVE  JoinsOnce'
<1>. USE DEF RoomInv
<1>1. up[s] \in Seq(UpMessage) /\ up'[s] = Tail(up[s])
  BY DEF SignalingTypeOK
<1>2. ASSUME NEW i \in DOMAIN up'[s]
      PROVE  up'[s][i].t # "join"
  <2> DEFINE said == up[s]
  <2>1. said \in Seq(UpMessage) /\ said # <<>>
    BY <1>1
  <2>. HIDE DEF said
  <2>2. /\ Len(Tail(said)) = Len(said) - 1
        /\ Tail(said) \in Seq(UpMessage)
        /\ \A k \in 1 .. Len(Tail(said)) : Tail(said)[k] = said[k + 1]
    BY <2>1, HeadTailProperties
  <2>4. i \in DOMAIN Tail(said)
    BY <1>1 DEF said
  <2>5. i \in 1 .. Len(said) - 1 /\ Len(said) \in Nat /\ DOMAIN said = 1 .. Len(said)
    BY <2>1, <2>2, <2>4
  <2>3. i + 1 \in DOMAIN up[s] /\ up'[s][i] = up[s][i + 1] /\ i + 1 # 1
    <3>1. i + 1 \in DOMAIN said /\ i + 1 # 1 /\ Tail(said)[i] = said[i + 1]
      BY <2>2, <2>5
    <3>. QED  BY <1>1, <3>1 DEF said
  <2>. QED  BY <2>3 DEF JoinsOnce
<1>3. ASSUME NEW q \in Socket, q # s
      PROVE  \A i \in DOMAIN up'[q] : up'[q][i].t = "join" => i = 1 /\ q \notin me'
  BY <1>3 DEF JoinsOnce, SignalingTypeOK
<1>. QED  BY <1>2, <1>3 DEF JoinsOnce

\* A join: the socket has not joined before, so it is open, and whoever held
\* its device id is another one, which is now closing.
LEMMA JoinKeeps ==
  ASSUME RoomInv, NEW s \in Socket, Serve(s), Head(up[s]).t = "join"
  PROVE  RoomInv'
<1>. USE DEF RoomInv
<1> DEFINE d == DeviceAt(s)
           evicted == {room[d]} \ {NoSocket}
<1>1. /\ conn[s] \in {"open", "closing"} /\ up[s] # <<>>
      /\ up' = [up EXCEPT ![s] = Tail(@)]
      /\ Join(s)
      /\ UNCHANGED <<phase, sock, told, broken>>
  BY DEF Serve, clientVars
<1>2. /\ me' = me \cup {s}
      /\ room' = [room EXCEPT ![d] = s]
      /\ conn' = [q \in Socket |-> IF q \in evicted THEN "closing" ELSE conn[q]]
      /\ evictions' = [evictions EXCEPT ![d] = @ + Cardinality(evicted)]
  BY <1>1 DEF Join, Entered
<1>3. up[s] \in Seq(UpMessage) /\ d \in Device
  BY SocketIsPair DEF SignalingTypeOK
<1>4. s \notin me
  <2>1. 1 \in DOMAIN up[s] /\ Head(up[s]) = up[s][1]
    BY <1>1, <1>3
  <2>. QED  BY <2>1 DEF JoinsOnce
<1>5. conn[s] = "open" /\ room[d] # s
  BY <1>1, <1>4 DEF Members, RoomExact
<1>6. SignalingTypeOK'
  <2>1. down' \in [Socket -> Seq(DownMessage)]
    <3> DEFINE present == {e \in Device \ {d} : room[e] # NoSocket}
               warned == SendTo(down, evicted, [t |-> "close4000"])
               greeted == SendTo(warned, {s}, [t |-> "peers", devices |-> present])
    <3>1. /\ [t |-> "close4000"] \in DownMessage
          /\ [t |-> "peers", devices |-> present] \in DownMessage
          /\ [t |-> "peer-joined", device |-> d] \in DownMessage
      BY <1>3 DEF DownMessage
    <3>2. warned \in [Socket -> Seq(DownMessage)]
      BY <3>1, SendToType DEF SignalingTypeOK
    <3>3. greeted \in [Socket -> Seq(DownMessage)]
      BY <3>1, <3>2, SendToType
    <3>4. SendTo(greeted, Others(s), [t |-> "peer-joined", device |-> d])
            \in [Socket -> Seq(DownMessage)]
      BY <3>1, <3>3, SendToType
    <3>. QED  BY <1>1, <3>4 DEF Join
  <2>2. up' \in [Socket -> Seq(UpMessage)]
    BY <1>1, InFlight DEF SignalingTypeOK
  <2>3. me' \subseteq Socket /\ room' \in [Device -> Socket \cup {NoSocket}]
    BY <1>2 DEF SignalingTypeOK
  <2>4. conn' \in [Socket -> {"none", "open", "closing", "closed"}]
    BY <1>2 DEF SignalingTypeOK
  <2>5. Cardinality(evicted) \in Nat
    BY FS_Singleton, FS_Difference, FS_CardinalityType
  <2>6. evictions' \in [Device -> Nat]
    <3>1. evictions[d] + Cardinality(evicted) \in Nat
      BY <1>3, <2>5 DEF SignalingTypeOK
    <3>. HIDE DEF evicted
    <3>. QED  BY <1>2, <3>1 DEF SignalingTypeOK
  <2>7. UNCHANGED <<phase, sock, told, broken>>
    BY <1>1
  <2>. QED  BY <2>1, <2>2, <2>3, <2>4, <2>6, <2>7 DEF SignalingTypeOK
<1>7. Numbered'
  BY <1>1 DEF Numbered
<1>8. \A q \in Socket : q \in evicted => q \in me /\ conn[q] = "open"
  BY <1>3 DEF RoomOwn, RoomExact
<1>9. Untouched'
  <2>1. \A q \in Socket : Unopened(q)' => Unopened(q) /\ q # s /\ q \notin evicted
    BY <1>1, <1>5, <1>8 DEF Unopened, Untouched
  <2>2. \A q \in Socket : q # s => up'[q] = up[q]
    BY <1>1 DEF SignalingTypeOK
  <2>. QED  BY <1>2, <2>1, <2>2 DEF Untouched
<1>10. JoinsOnce'
  BY <1>1, <1>2, JoinsRead
<1>11. Members'
  BY <1>2, <1>5, <1>8 DEF Members
<1>12. RoomOwn'
  BY <1>2, <1>3 DEF RoomOwn, SignalingTypeOK
<1>13. RoomExact'
  <2>1. ASSUME NEW q \in Socket
        PROVE  q \in me' /\ conn'[q] = "open" <=> room'[DeviceAt(q)] = q
    <3>1. CASE q = s
      BY <1>2, <1>3, <1>5, <3>1 DEF SignalingTypeOK
    <3>2. CASE q # s /\ DeviceAt(q) = d
      BY <1>2, <1>3, <3>2, SocketIsPair DEF RoomExact, SignalingTypeOK
    <3>3. CASE q # s /\ DeviceAt(q) # d
      <4>1. q \notin evicted
        BY <1>3, <3>3 DEF RoomOwn
      <4>. QED  BY <1>2, <3>3, <4>1, SocketIsPair DEF RoomExact, SignalingTypeOK
    <3>. QED  BY <3>1, <3>2, <3>3
  <2>. QED  BY <2>1 DEF RoomExact
<1>. QED  BY <1>6, <1>7, <1>9, <1>10, <1>11, <1>12, <1>13

\* A signal is relayed.
LEMMA RelayKeeps ==
  ASSUME RoomInv, NEW s \in Socket, Serve(s), Head(up[s]).t # "join"
  PROVE  RoomInv'
<1>. USE DEF RoomInv
<1> DEFINE m == Head(up[s])
<1>1. /\ conn[s] \in {"open", "closing"} /\ up[s] # <<>>
      /\ up' = [up EXCEPT ![s] = Tail(@)]
      /\ Relay(s, m)
      /\ UNCHANGED <<phase, sock, told, broken, conn, me, room, evictions>>
  BY DEF Serve, Relay, clientVars
<1>2. up[s] \in Seq(UpMessage)
  BY DEF SignalingTypeOK
<1>3. SignalingTypeOK'
  <2>1. m \in [t : {"signal"}, to : Device, data : Blob]
    BY <1>1, InFlight DEF UpMessage
  <2>2. [t |-> "signal", from |-> DeviceAt(s), data |-> m.data] \in DownMessage
    BY <2>1, SocketIsPair DEF DownMessage
  <2>3. down' \in [Socket -> Seq(DownMessage)]
    BY <1>1, <2>2, SendToType DEF Relay, SignalingTypeOK
  <2>4. up' \in [Socket -> Seq(UpMessage)]
    BY <1>1, InFlight DEF SignalingTypeOK
  <2>. QED  BY <1>1, <2>3, <2>4 DEF SignalingTypeOK
<1>4. Untouched'
  <2>1. \A q \in Socket : Unopened(q)' => Unopened(q) /\ q # s
    BY <1>1 DEF Unopened, Untouched
  <2>. QED  BY <1>1, <2>1 DEF Untouched, SignalingTypeOK
<1>5. JoinsOnce'
  BY <1>1, JoinsRead
<1>6. Numbered' /\ Members' /\ RoomOwn' /\ RoomExact'
  BY <1>1 DEF Numbered, Members, RoomOwn, RoomExact
<1>. QED  BY <1>3, <1>4, <1>5, <1>6

\* A socket is closed at the server: it leaves the room if it is there.
LEMMA ServerCloseKeeps ==
  ASSUME RoomInv, NEW s \in Socket, ServerClose(s), conn[s] \in {"open", "closing"},
         up' = [up EXCEPT ![s] = <<>>], broken' \subseteq Socket
  PROVE  RoomInv'
<1>. USE DEF RoomInv
<1> DEFINE d == DeviceAt(s)
<1>1. /\ conn' = [conn EXCEPT ![s] = "closed"]
      /\ me' = me \ {s}
      /\ UNCHANGED <<phase, sock, told, evictions>>
  BY DEF ServerClose, clientVars
<1>2. d \in Device
  BY SocketIsPair
<1>3. room' = [room EXCEPT ![d] = IF @ = s THEN NoSocket ELSE @]
  <2>1. CASE s \in me
    BY <2>1 DEF ServerClose, Leave, Left
  <2>2. CASE s \notin me
    BY <1>2, <2>2 DEF ServerClose, RoomExact, SignalingTypeOK
  <2>. QED  BY <2>1, <2>2
<1>4. SignalingTypeOK'
  <2>1. [t |-> "peer-left", device |-> d] \in DownMessage
    BY <1>2 DEF DownMessage
  <2>2. SendTo(down, Others(s), [t |-> "peer-left", device |-> d]) \in [Socket -> Seq(DownMessage)]
    BY <2>1, SendToType DEF SignalingTypeOK
  <2>3. down' \in [Socket -> Seq(DownMessage)]
    BY <2>2 DEF ServerClose, Leave, SignalingTypeOK
  <2>4. up' \in [Socket -> Seq(UpMessage)]
    BY DEF SignalingTypeOK
  <2>5. room' \in [Device -> Socket \cup {NoSocket}]
    BY <1>3 DEF SignalingTypeOK
  <2>. QED  BY <1>1, <2>3, <2>4, <2>5 DEF SignalingTypeOK
<1>5. \A q \in Socket : q # s => up'[q] = up[q] /\ conn'[q] = conn[q]
  BY <1>1 DEF SignalingTypeOK
<1>6. up'[s] = <<>> /\ conn'[s] = "closed"
  BY <1>1 DEF SignalingTypeOK
<1>7. Untouched'
  <2>1. \A q \in Socket : Unopened(q)' => Unopened(q) /\ q # s
    BY <1>1 DEF Unopened, Untouched
  <2>. QED  BY <1>5, <2>1 DEF Untouched
<1>8. JoinsOnce'
  BY <1>1, <1>5, <1>6 DEF JoinsOnce
<1>9. Numbered' /\ Members'
  BY <1>1, <1>5, <1>6 DEF Numbered, Members
<1>10. RoomOwn'
  BY <1>3 DEF RoomOwn, SignalingTypeOK
<1>11. RoomExact'
  <2>1. ASSUME NEW q \in Socket
        PROVE  q \in me' /\ conn'[q] = "open" <=> room'[DeviceAt(q)] = q
    <3>1. DeviceAt(q) \in Device /\ q # NoSocket
      BY SocketIsPair
    <3>2. CASE q = s
      BY <1>1, <1>3, <3>1, <3>2 DEF SignalingTypeOK
    <3>3. CASE q # s
      BY <1>1, <1>3, <1>5, <3>1, <3>3 DEF RoomExact, SignalingTypeOK
    <3>. QED  BY <3>2, <3>3
  <2>. QED  BY <2>1 DEF RoomExact
<1>. QED  BY <1>4, <1>7, <1>8, <1>9, <1>10, <1>11

-----------------------------------------------------------------------------
\* The invariant.

\* Nobody has connected and the room is empty.
LEMMA RoomInvInit == SignalingInit => RoomInv
<1>. SUFFICES ASSUME SignalingInit PROVE RoomInv
  OBVIOUS
<1>. USE DEF SignalingInit
<1>1. SignalingTypeOK
  <2>1. <<>> \in Seq(UpMessage) /\ <<>> \in Seq(DownMessage)
    OBVIOUS
  <2>. QED  BY <2>1, SignalingAssumption DEF SignalingTypeOK
<1>2. Numbered /\ Untouched /\ JoinsOnce /\ Members
  BY DEF Numbered, Untouched, JoinsOnce, Members
<1>3. RoomOwn /\ RoomExact
  BY SocketIsPair DEF RoomOwn, RoomExact
<1>. QED  BY <1>1, <1>2, <1>3 DEF RoomInv

\* Every step of a client, of the server and of the network keeps it.
LEMMA RoomInvStep ==
  ASSUME RoomInv, [SignalingStep]_signalingVars
  PROVE  RoomInv'
<1>1. CASE UNCHANGED signalingVars
  BY <1>1 DEF signalingVars, clientVars, serverVars, RoomInv, SignalingTypeOK, Numbered,
     Untouched, Unopened, JoinsOnce, Members, RoomOwn, RoomExact
<1>2. ASSUME NEW c \in Client, Construct(c) \/ Retry(c)
      PROVE  RoomInv'
  BY <1>2, ConnectKeeps DEF Construct, Retry
<1>3. ASSUME NEW c \in Client, Opened(c)
      PROVE  RoomInv'
  BY <1>3, OpenedKeeps
<1>4. ASSUME NEW c \in Client, Hear(c)
      PROVE  RoomInv'
  BY <1>4, ReceiveKeeps DEF Hear
<1>5. ASSUME NEW c \in Client, Notice(c) \/ Close(c)
      PROVE  RoomInv'
  <2>1. \E to \in {"waiting", "closed"} : LoseEnd(c, to)
    BY <1>5 DEF Notice, Close
  <2>2. phase[c] # "idle" /\ broken' \subseteq Socket
    BY <1>5 DEF Notice, Close, RoomInv, SignalingTypeOK
  <2>. QED  BY <2>1, <2>2, LoseEndKeeps
<1>6. ASSUME NEW c \in Client, Break(c)
      PROVE  RoomInv'
  <2>1. LoseEnd(c, "waiting") /\ phase[c] # "idle"
    BY <1>6 DEF Break
  <2>2. broken' \subseteq Socket
    BY <1>6, CurrentSocket DEF Break, RoomInv, SignalingTypeOK
  <2>. QED  BY <2>1, <2>2, LoseEndKeeps
<1>7. ASSUME NEW c \in Client, ConnectFails(c)
      PROVE  RoomInv'
  BY <1>7, ConnectFailsKeeps
<1>8. ASSUME NEW s \in Socket, Serve(s)
      PROVE  RoomInv'
  BY <1>8, JoinKeeps, RelayKeeps
<1>9. ASSUME NEW s \in Socket, Closes(s)
      PROVE  RoomInv'
  <2>1. up' = [up EXCEPT ![s] = <<>>]
    BY <1>9 DEF Closes, RoomInv, SignalingTypeOK
  <2>2. broken' \subseteq Socket /\ ServerClose(s) /\ conn[s] \in {"open", "closing"}
    BY <1>9 DEF Closes, RoomInv, SignalingTypeOK
  <2>. QED  BY <2>1, <2>2, ServerCloseKeeps
<1>10. ASSUME NEW s \in Socket, Loses(s)
       PROVE  RoomInv'
  <2>1. broken' \subseteq Socket
    BY <1>10, SocketIsPair DEF Loses, RoomInv, SignalingTypeOK
  <2>2. /\ up' = [up EXCEPT ![s] = <<>>] /\ ServerClose(s)
        /\ conn[s] \in {"open", "closing"}
    BY <1>10 DEF Loses
  <2>. QED  BY <2>1, <2>2, ServerCloseKeeps
<1>11. ASSUME NEW c \in Client, Speak(c)
       PROVE  RoomInv'
  BY <1>11, SpeakKeeps
<1>. QED
  BY <1>1, <1>2, <1>3, <1>4, <1>5, <1>6, <1>7, <1>8, <1>9, <1>10, <1>11
     DEF SignalingStep, SignalingNext, Progressing, Breaking, Living

\* So it holds in every reachable state.
LEMMA RoomInvAlways == SignalingSpec => []RoomInv
<1>1. SignalingInit => RoomInv
  BY RoomInvInit
<1>2. RoomInv /\ [SignalingNext]_signalingVars => RoomInv'
  BY RoomInvStep DEF SignalingStep
<1>. QED  BY <1>1, <1>2, PTL DEF SignalingSpec

\* Every reachable state of the server, its clients and the sockets between
\* them is well typed.
THEOREM SignalingTypeCorrect == SignalingSpec => []SignalingTypeOK
<1>1. RoomInv => SignalingTypeOK
  BY DEF RoomInv
<1>. QED  BY <1>1, RoomInvAlways, PTL

\* The room names exactly the open sockets that have joined, one for each
\* device id, whatever joins, evictions, breaks and late closes there are.
THEOREM RoomStaysExact == SignalingSpec => []RoomExact
<1>1. RoomInv => RoomExact
  BY DEF RoomInv
<1>. QED  BY <1>1, RoomInvAlways, PTL

-----------------------------------------------------------------------------
\* What is heard.

\* A message says that a device is present, or that it is gone, or nothing.
LEMMA HeardOfDevice ==
  ASSUME NEW view \in SUBSET Device, NEW m \in DownMessage, NEW d \in Device
  PROVE  d \in Heard(view, m) <=> d \in Heard({}, m) \/ (d \in view /\ d \in Heard(Device, m))
BY DEF Heard, DownMessage

\* What is heard is of devices.
LEMMA HeardAllType ==
  ASSUME NEW view, NEW q
  PROVE  HeardAll(view, q) \in SUBSET Device
BY DEF HeardAll

\* One more message is heard last.
LEMMA HeardLast ==
  ASSUME NEW view \in SUBSET Device, NEW q \in Seq(DownMessage), NEW m \in DownMessage
  PROVE  HeardAll(view, Append(q, m)) = Heard(HeardAll(view, q), m)
<1> DEFINE r == Append(q, m)
<1>1. /\ Len(q) \in Nat /\ Len(r) = Len(q) + 1 /\ DOMAIN r = 1 .. Len(q) + 1
      /\ DOMAIN q = 1 .. Len(q)
      /\ r[Len(q) + 1] = m /\ \A i \in 1 .. Len(q) : r[i] = q[i]
  OBVIOUS
<1>. HIDE DEF r
<1>2. Heard(HeardAll(view, q), m) \subseteq Device
  BY HeardAllType, HeardType
<1>3. ASSUME NEW d \in Device
      PROVE  d \in HeardAll(view, r) <=> d \in Heard(HeardAll(view, q), m)
  <2> DEFINE says(k) == d \in Heard({}, r[k])
             keeps(k) == d \in Heard(Device, r[k])
             n == Len(q)
  <2>1. d \in HeardAll(view, q) <=>
          \/ d \in view /\ \A i \in 1 .. n : keeps(i)
          \/ \E i \in 1 .. n : says(i) /\ \A j \in i + 1 .. n : keeps(j)
    BY <1>1, <1>3 DEF HeardAll
  <2>2. d \in HeardAll(view, r) <=>
          \/ d \in view /\ \A i \in 1 .. n + 1 : keeps(i)
          \/ \E i \in 1 .. n + 1 : says(i) /\ \A j \in i + 1 .. n + 1 : keeps(j)
    BY <1>1, <1>3 DEF HeardAll
  <2>3. d \in Heard(HeardAll(view, q), m) <=>
          says(n + 1) \/ (d \in HeardAll(view, q) /\ keeps(n + 1))
    BY <1>1, HeardOfDevice, HeardAllType
  <2>4. n \in Nat
    BY <1>1
  <2>. HIDE DEF says, keeps, n
  <2>5. (\A i \in 1 .. n + 1 : keeps(i)) <=> (\A i \in 1 .. n : keeps(i)) /\ keeps(n + 1)
    BY <2>4
  <2>6. (\E i \in 1 .. n + 1 : says(i) /\ \A j \in i + 1 .. n + 1 : keeps(j))
          <=> \/ says(n + 1)
              \/ /\ keeps(n + 1)
                 /\ \E i \in 1 .. n : says(i) /\ \A j \in i + 1 .. n : keeps(j)
    BY <2>4
  <2>. QED  BY <2>1, <2>2, <2>3, <2>5, <2>6
<1>. QED  BY <1>2, <1>3, HeardAllType DEF r

\* The first message is heard first.
LEMMA HeardFirst ==
  ASSUME NEW view \in SUBSET Device, NEW q \in Seq(DownMessage), q # <<>>
  PROVE  HeardAll(Heard(view, Head(q)), Tail(q)) = HeardAll(view, q)
<1> DEFINE r == Tail(q)
<1>1. /\ Head(q) = q[1] /\ q[1] \in DownMessage
      /\ Len(q) \in Nat /\ Len(q) >= 1 /\ DOMAIN q = 1 .. Len(q)
      /\ Len(r) = Len(q) - 1 /\ DOMAIN r = 1 .. Len(q) - 1
      /\ \A i \in 1 .. Len(q) - 1 : r[i] = q[i + 1]
  <2>1. /\ Head(q) \in DownMessage /\ Tail(q) \in Seq(DownMessage)
        /\ Len(Tail(q)) = Len(q) - 1
        /\ \A i \in 1 .. Len(Tail(q)) : Tail(q)[i] = q[i + 1]
    BY HeadTailProperties
  <2>2. Head(q) = q[1] /\ Len(q) \in Nat /\ Len(q) >= 1 /\ DOMAIN q = 1 .. Len(q)
    OBVIOUS
  <2>3. DOMAIN Tail(q) = 1 .. Len(q) - 1
    BY <2>1, <2>2
  <2>. QED  BY <2>1, <2>2, <2>3
<1>. HIDE DEF r
<1>2. Heard(view, q[1]) \in SUBSET Device
  BY <1>1, HeardType
<1>3. ASSUME NEW d \in Device
      PROVE  d \in HeardAll(Heard(view, q[1]), r) <=> d \in HeardAll(view, q)
  <2> DEFINE says(k) == d \in Heard({}, q[k])
             keeps(k) == d \in Heard(Device, q[k])
             n == Len(q)
  <2>1. d \in HeardAll(view, q) <=>
          \/ d \in view /\ \A i \in 1 .. n : keeps(i)
          \/ \E i \in 1 .. n : says(i) /\ \A j \in i + 1 .. n : keeps(j)
    BY <1>1, <1>3 DEF HeardAll
  <2>2. d \in HeardAll(Heard(view, q[1]), r) <=>
          \/ d \in Heard(view, q[1]) /\ \A i \in 1 .. n - 1 : keeps(i + 1)
          \/ \E i \in 1 .. n - 1 : says(i + 1) /\ \A j \in i + 1 .. n - 1 : keeps(j + 1)
    <3>1. d \in HeardAll(Heard(view, q[1]), r) <=>
            \/ d \in Heard(view, q[1]) /\ \A i \in 1 .. n - 1 : d \in Heard(Device, r[i])
            \/ \E i \in 1 .. n - 1 : /\ d \in Heard({}, r[i])
                                    /\ \A j \in i + 1 .. n - 1 : d \in Heard(Device, r[j])
      BY <1>1, <1>3 DEF HeardAll
    <3>2. \A i \in 1 .. n - 1 : r[i] = q[i + 1] /\ i + 1 .. n - 1 \subseteq 1 .. n - 1
      BY <1>1
    <3>. QED  BY <3>1, <3>2, Zenon
  <2>3. d \in Heard(view, q[1]) <=> says(1) \/ (d \in view /\ keeps(1))
    BY <1>1, HeardOfDevice
  <2>4. n \in Nat /\ n >= 1
    BY <1>1
  <2>. HIDE DEF says, keeps, n
  <2>5. \A k \in 1 .. n : (\A i \in k .. n - 1 : keeps(i + 1)) <=> (\A j \in k + 1 .. n : keeps(j))
    <3>1. ASSUME NEW k \in 1 .. n, \A i \in k .. n - 1 : keeps(i + 1), NEW j \in k + 1 .. n
          PROVE  keeps(j)
      <4>1. j - 1 \in k .. n - 1 /\ (j - 1) + 1 = j
        BY <2>4
      <4>. QED  BY <3>1, <4>1
    <3>2. ASSUME NEW k \in 1 .. n, \A j \in k + 1 .. n : keeps(j), NEW i \in k .. n - 1
          PROVE  keeps(i + 1)
      BY <2>4, <3>2
    <3>. QED  BY <3>1, <3>2
  <2>6. (\A i \in 1 .. n - 1 : keeps(i + 1)) <=> (\A j \in 2 .. n : keeps(j))
    <3>1. 1 \in 1 .. n /\ 1 + 1 = 2
      BY <2>4
    <3>. QED  BY <2>5, <3>1
  <2>7. (\A i \in 1 .. n : keeps(i)) <=> keeps(1) /\ \A j \in 2 .. n : keeps(j)
    <3>1. 1 \in 1 .. n /\ \A i \in 1 .. n : i = 1 \/ i \in 2 .. n
      BY <2>4
    <3>2. \A j \in 2 .. n : j \in 1 .. n
      OBVIOUS
    <3>. QED  BY <3>1, <3>2
  <2>8. (\E i \in 1 .. n : says(i) /\ \A j \in i + 1 .. n : keeps(j))
          <=> \/ says(1) /\ \A j \in 2 .. n : keeps(j)
              \/ \E i \in 1 .. n - 1 : says(i + 1) /\ \A j \in i + 1 .. n - 1 : keeps(j + 1)
    <3>1. ASSUME NEW i \in 1 .. n, says(i), \A j \in i + 1 .. n : keeps(j), i # 1
          PROVE  \E h \in 1 .. n - 1 : says(h + 1) /\ \A j \in h + 1 .. n - 1 : keeps(j + 1)
      <4>1. PICK h \in 1 .. n - 1 : h + 1 = i
        <5>1. i - 1 \in 1 .. n - 1 /\ (i - 1) + 1 = i
          BY <2>4, <3>1
        <5>. QED  BY <5>1
      <4>2. \A j \in h + 1 .. n - 1 : keeps(j + 1)
        BY <2>5, <3>1, <4>1
      <4>. QED  BY <3>1, <4>1, <4>2
    <3>2. ASSUME NEW i \in 1 .. n - 1, says(i + 1), \A j \in i + 1 .. n - 1 : keeps(j + 1)
          PROVE  \E h \in 1 .. n : says(h) /\ \A j \in h + 1 .. n : keeps(j)
      <4>1. i + 1 \in 1 .. n
        BY <2>4
      <4>2. \A j \in (i + 1) + 1 .. n : keeps(j)
        BY <2>5, <3>2, <4>1
      <4>. QED  BY <3>2, <4>1, <4>2
    <3>3. 1 \in 1 .. n /\ 1 + 1 = 2
      BY <2>4
    <3>. QED  BY <3>1, <3>2, <3>3
  <2>. QED  BY <2>1, <2>2, <2>3, <2>6, <2>7, <2>8
<1>. QED  BY <1>1, <1>2, <1>3, HeardAllType DEF r

-----------------------------------------------------------------------------
\* Presence. A client watches while its open socket is in the room.

Watches(c) == Live(Current(c)) /\ Current(c) \in me /\ conn[Current(c)] = "open"
Informed(c) ==
  HeardAll(told[c], down[Current(c)]) = {d \in Device \ {DeviceOf[c]} : room[d] # NoSocket}

\* Whoever watches is in the room, and its end of the socket is open.
LEMMA Watcher ==
  ASSUME RoomInv, NEW c \in Client, Watches(c)
  PROVE  /\ Current(c) \in Socket /\ phase[c] = "open"
         /\ DeviceAt(Current(c)) = DeviceOf[c] /\ DeviceOf[c] \in Device
         /\ room[DeviceOf[c]] = Current(c)
         /\ down[Current(c)] \in Seq(DownMessage) /\ told[c] \in SUBSET Device
<1>1. phase[c] = "open"
  BY DEF Watches, Live, Current
<1>2. Current(c) \in Socket /\ DeviceAt(Current(c)) = DeviceOf[c]
  BY <1>1, CurrentSocket DEF RoomInv
<1>. QED
  BY <1>1, <1>2, SignalingAssumption DEF Watches, RoomInv, RoomExact, SignalingTypeOK

\* A client to which nothing is said, while nobody enters or leaves, is as well
\* informed as before.
LEMMA InformedKept ==
  ASSUME PresenceExact, NEW c \in Client,
         phase'[c] = phase[c], sock'[c] = sock[c], told'[c] = told[c],
         down'[Current(c)] = down[Current(c)], UNCHANGED room,
         Current(c) \in me' => Current(c) \in me,
         conn'[Current(c)] = "open" => conn[Current(c)] = "open"
  PROVE  Watches(c)' => Informed(c)'
<1>1. Current(c)' = Current(c)
  BY DEF Current
<1>2. Watches(c)' => Watches(c)
  BY <1>1 DEF Watches, Live, Current
<1>3. Watches(c) => Informed(c)
  BY DEF PresenceExact, Watches, Informed
<1>4. UNCHANGED <<told[c], down[Current(c)], room>>
  BY <1>1
<1>. QED  BY <1>1, <1>2, <1>3, <1>4 DEF Informed

\* The steps of a client, and of the network, that say nothing to anybody.
LEMMA PresenceOfClients ==
  ASSUME RoomInv, RoomInv', PresenceExact, NEW c \in Client,
         \/ \E from \in {"idle", "waiting"} : Connect(c, from)
         \/ ConnectFails(c)
         \/ \E to \in {"waiting", "closed"} : LoseEnd(c, to) /\ phase[c] # "idle"
  PROVE  PresenceExact'
<1>1. /\ UNCHANGED <<conn, me, room, told>>
      /\ \A e \in Client \ {c} : phase'[e] = phase[e] /\ sock'[e] = sock[e]
      /\ phase'[c] # "open"
  BY DEF Connect, ConnectFails, LoseEnd, RoomInv, SignalingTypeOK, serverVars
<1>2. ASSUME NEW e \in Client \ {c}
      PROVE  down'[Current(e)] = down[Current(e)] \/ Current(e) \notin Socket
  <2>1. Current(e) # Current(c)
    BY DEF Current
  <2>. QED  BY <2>1 DEF Connect, ConnectFails, LoseEnd
<1>3. ASSUME NEW e \in Client
      PROVE  Watches(e)' => Informed(e)'
  <2>1. CASE e = c
    BY <1>1, <2>1 DEF Watches, Live, Current
  <2>2. CASE e # c /\ Current(e) \notin Socket
    <3>1. Current(e)' = Current(e)
      BY <1>1, <2>2 DEF Current
    <3>. QED  BY <1>1, <2>2, <3>1 DEF Watches, RoomInv, SignalingTypeOK
  <2>3. CASE e # c /\ Current(e) \in Socket
    BY <1>1, <1>2, <2>3, InformedKept
  <2>. QED  BY <2>1, <2>2, <2>3
<1>. QED  BY <1>3 DEF PresenceExact, Watches, Informed

\* A socket opens: it is not in the room yet.
LEMMA PresenceOfOpened ==
  ASSUME RoomInv, PresenceExact, NEW c \in Client, Opened(c)
  PROVE  PresenceExact'
<1>1. /\ UNCHANGED <<sock, down, me, room>> /\ phase[c] = "connecting"
      /\ \A e \in Client \ {c} : phase'[e] = phase[e] /\ told'[e] = told[e]
      /\ \A s \in Socket \ {Current(c)} : conn'[s] = conn[s]
  BY DEF Opened, RoomInv, SignalingTypeOK
<1>2. Current(c) \notin me
  <2>1. Current(c) \in Socket /\ Unopened(Current(c))
    BY <1>1, CurrentSocket DEF RoomInv, Unopened
  <2>. QED  BY <2>1 DEF RoomInv, Untouched, Members
<1>3. ASSUME NEW e \in Client
      PROVE  Watches(e)' => Informed(e)'
  <2>1. Current(e)' = Current(e)
    BY <1>1 DEF Current
  <2>2. CASE e = c \/ Current(e) \notin Socket
    BY <1>1, <1>2, <2>1, <2>2 DEF Watches, RoomInv, SignalingTypeOK
  <2>3. CASE e # c /\ Current(e) \in Socket
    <3>1. Current(e) # Current(c)
      BY <2>3 DEF Current
    <3>. QED  BY <1>1, <2>3, <3>1, InformedKept
  <2>. QED  BY <2>2, <2>3
<1>. QED  BY <1>3 DEF PresenceExact, Watches, Informed

\* A client hears the next message: it will have heard the same in the end.
LEMMA PresenceOfReceive ==
  ASSUME RoomInv, PresenceExact, NEW c \in Client, Receive(c)
  PROVE  PresenceExact'
<1> DEFINE s == Current(c)
           m == Head(down[s])
<1>1. /\ UNCHANGED <<sock, conn, me, room>>
      /\ down[s] # <<>>
      /\ down' = [down EXCEPT ![s] = Tail(@)]
      /\ told' = [told EXCEPT ![c] = Heard(@, m)]
      /\ phase' = IF m.t = "close4000" THEN [phase EXCEPT ![c] = "conflict"] ELSE phase
  BY DEF Receive, serverVars
<1>2. ASSUME NEW e \in Client \ {c}
      PROVE  Watches(e)' => Informed(e)'
  <2>1. phase'[e] = phase[e] /\ told'[e] = told[e] /\ Current(e) # s
    BY <1>1 DEF RoomInv, SignalingTypeOK, Current
  <2>2. Current(e) \in Socket => down'[Current(e)] = down[Current(e)]
    BY <1>1, <2>1 DEF RoomInv, SignalingTypeOK
  <2>3. Current(e)' = Current(e)
    BY <1>1 DEF Current
  <2>4. Current(e) \notin Socket => ~Watches(e)'
    BY <1>1, <2>3 DEF Watches, RoomInv, SignalingTypeOK
  <2>. QED  BY <1>1, <2>1, <2>2, <2>4, InformedKept
<1>3. Watches(c)' => Informed(c)'
  <2>. SUFFICES ASSUME Watches(c)'  PROVE Informed(c)'
    OBVIOUS
  <2>1. Current(c)' = s
    BY <1>1 DEF Current
  <2>2. Live(s)
    BY DEF Receive
  <2>3. Watches(c)
    BY <1>1, <2>1, <2>2 DEF Watches
  <2>4. s \in Socket /\ down[s] \in Seq(DownMessage) /\ told[c] \in SUBSET Device
    BY <2>3, Watcher
  <2>5. down'[s] = Tail(down[s]) /\ told'[c] = Heard(told[c], Head(down[s]))
    BY <1>1, <2>4 DEF RoomInv, SignalingTypeOK
  <2>6. HeardAll(told'[c], down'[s]) = HeardAll(told[c], down[s])
    BY <1>1, <2>4, <2>5, HeardFirst
  <2>7. Informed(c)
    BY <2>3 DEF PresenceExact, Watches, Informed
  <2>. QED  BY <1>1, <2>1, <2>6, <2>7 DEF Informed
<1>. QED  BY <1>2, <1>3 DEF PresenceExact, Watches, Informed

\* Of two who watch, one is at each device: a socket in the room is another's
\* or one's own.
LEMMA AmongOthers ==
  ASSUME RoomInv, NEW c \in Client, Watches(c), NEW s \in Socket, DeviceAt(s) # DeviceOf[c]
  PROVE  Current(c) \in Others(s)
<1>1. /\ DeviceOf[c] \in Device \ {DeviceAt(s)} /\ room[DeviceOf[c]] = Current(c)
      /\ Current(c) \in Socket
  BY Watcher
<1>2. Current(c) # NoSocket
  BY <1>1, SocketIsPair
<1>. QED  BY <1>1, <1>2 DEF Others

\* A newcomer is told who is there, the others are told of it, and whoever it
\* evicts watches no longer.
LEMMA PresenceOfJoin ==
  ASSUME RoomInv, RoomInv', PresenceExact, NEW s \in Socket, Serve(s), Head(up[s]).t = "join"
  PROVE  PresenceExact'
<1> DEFINE d == DeviceAt(s)
           present == {e \in Device \ {d} : room[e] # NoSocket}
           evicted == {room[d]} \ {NoSocket}
           left == [t |-> "close4000"]
           welcome == [t |-> "peers", devices |-> present]
           news == [t |-> "peer-joined", device |-> d]
           warned == SendTo(down, evicted, left)
           greeted == SendTo(warned, {s}, welcome)
<1>1. /\ me' = me \cup {s}
      /\ room' = [room EXCEPT ![d] = s]
      /\ conn' = [q \in Socket |-> IF q \in evicted THEN "closing" ELSE conn[q]]
      /\ down' = SendTo(greeted, Others(s), news)
      /\ UNCHANGED <<phase, sock, told>>
  BY DEF Serve, Join, Entered, clientVars
<1>2. d \in Device /\ s \in Socket /\ s # NoSocket
  BY SocketIsPair
<1>3. s \notin me
  <2>1. up[s] \in Seq(UpMessage) /\ up[s] # <<>>
    BY DEF Serve, RoomInv, SignalingTypeOK
  <2>2. 1 \in DOMAIN up[s] /\ Head(up[s]) = up[s][1]
    BY <2>1
  <2>. QED  BY <2>2 DEF RoomInv, JoinsOnce
<1>4. s \notin Others(s)
  BY <1>2, SocketIsPair DEF Others, RoomInv, RoomOwn
<1>5. \A e \in Device : room'[e] = IF e = d THEN s ELSE room[e]
  BY <1>1 DEF RoomInv, SignalingTypeOK
<1>6. ASSUME NEW c \in Client, Watches(c)'
      PROVE  Informed(c)'
  <2> DEFINE q == Current(c)
  <2>1. Current(c)' = q /\ Live(q)' = Live(q)
    BY <1>1 DEF Current, Live
  <2>2. q \in Socket /\ q \in me \cup {s} /\ conn'[q] = "open" /\ Live(q)
    BY <1>1, <1>6, <2>1 DEF Watches, RoomInv, SignalingTypeOK
  <2>3. q \notin evicted /\ conn[q] = "open"
    BY <1>1, <2>2
  <2>4. warned[q] = down[q]
    BY <2>2, <2>3 DEF SendTo
  <2>5. greeted[q] = IF q = s THEN Append(down[q], welcome) ELSE down[q]
    BY <2>2, <2>3, <2>4 DEF SendTo
  <2>6. down'[q] = IF q \in Others(s) THEN Append(greeted[q], news) ELSE greeted[q]
    BY <1>1, <2>2, <2>3 DEF SendTo
  <2>7. down[q] \in Seq(DownMessage) /\ told[c] \in SUBSET Device
    BY <2>2 DEF RoomInv, SignalingTypeOK
  <2>8. DeviceAt(q) = DeviceOf[c]
    BY DEF DeviceAt, Current
  <2>9. CASE q = s
    <3>1. down'[q] = Append(down[q], welcome)
      BY <1>4, <2>5, <2>6, <2>9
    <3>2. welcome \in DownMessage
      BY DEF DownMessage
    <3>3. HeardAll(told[c], down'[q]) = present
      <4>1. HeardAll(told[c], down'[q]) = Heard(HeardAll(told[c], down[q]), welcome)
        BY <2>7, <3>1, <3>2, HeardLast
      <4>. QED  BY <4>1 DEF Heard
    <3>4. present = {e \in Device \ {DeviceOf[c]} : room'[e] # NoSocket}
      BY <1>5, <2>8, <2>9
    <3>5. told'[c] = told[c]
      BY <1>1
    <3>. QED  BY <2>1, <3>3, <3>4, <3>5 DEF Informed
  <2>10. CASE q # s
    <3>1. Watches(c)
      BY <2>2, <2>3, <2>10 DEF Watches
    <3>2. DeviceOf[c] # d
      BY <2>3, <3>1, <2>2, Watcher, SocketIsPair
    <3>3. down'[q] = Append(down[q], news)
      BY <2>5, <2>6, <2>10, <3>1, <3>2, AmongOthers
    <3>4. news \in DownMessage
      BY <1>2 DEF DownMessage
    <3>5. HeardAll(told[c], down'[q]) = HeardAll(told[c], down[q]) \cup {d}
      <4>1. HeardAll(told[c], down'[q]) = Heard(HeardAll(told[c], down[q]), news)
        BY <2>7, <3>3, <3>4, HeardLast
      <4>. QED  BY <4>1 DEF Heard
    <3>6. HeardAll(told[c], down[q]) = {e \in Device \ {DeviceOf[c]} : room[e] # NoSocket}
      BY <3>1 DEF PresenceExact, Watches
    <3>7. {e \in Device \ {DeviceOf[c]} : room[e] # NoSocket} \cup {d}
            = {e \in Device \ {DeviceOf[c]} : room'[e] # NoSocket}
      BY <1>2, <1>5, <3>2
    <3>8. told'[c] = told[c]
      BY <1>1
    <3>. QED  BY <2>1, <3>5, <3>6, <3>7, <3>8 DEF Informed
  <2>. QED  BY <2>9, <2>10
<1>. QED  BY <1>6 DEF PresenceExact, Watches, Informed

\* A relayed signal says nothing of presence.
LEMMA PresenceOfRelay ==
  ASSUME RoomInv, PresenceExact, NEW s \in Socket, Serve(s), Head(up[s]).t # "join"
  PROVE  PresenceExact'
<1> DEFINE m == Head(up[s])
           signal == [t |-> "signal", from |-> DeviceAt(s), data |-> m.data]
<1>1. /\ UNCHANGED <<phase, sock, told, conn, me, room>>
      /\ down' = SendTo(down, {room[m.to]}, signal)
      /\ up[s] # <<>>
  BY DEF Serve, Relay, clientVars
<1>2. signal \in DownMessage
  <2>1. m \in [t : {"signal"}, to : Device, data : Blob]
    BY <1>1, InFlight DEF UpMessage, RoomInv
  <2>. QED  BY <2>1, SocketIsPair DEF DownMessage
<1>3. ASSUME NEW c \in Client, Watches(c)'
      PROVE  Informed(c)'
  <2> DEFINE q == Current(c)
  <2>1. Current(c)' = q /\ Live(q)' = Live(q)
    BY <1>1 DEF Current, Live
  <2>2. Watches(c) /\ Informed(c)
    BY <1>1, <1>3, <2>1 DEF Watches, PresenceExact, Informed
  <2>3. q \in Socket /\ down[q] \in Seq(DownMessage) /\ told[c] \in SUBSET Device
    BY <2>2, Watcher
  <2>4. down'[q] = down[q] \/ down'[q] = Append(down[q], signal)
    BY <1>1, <2>3 DEF SendTo
  <2>5. HeardAll(told[c], Append(down[q], signal)) = HeardAll(told[c], down[q])
    <3>1. HeardAll(told[c], Append(down[q], signal)) = Heard(HeardAll(told[c], down[q]), signal)
      BY <1>2, <2>3, HeardLast
    <3>. QED  BY <3>1 DEF Heard
  <2>6. HeardAll(told'[c], down'[q]) = HeardAll(told[c], down[q])
    BY <1>1, <2>4, <2>5
  <2>. QED  BY <1>1, <2>1, <2>2, <2>6 DEF Informed
<1>. QED  BY <1>3 DEF PresenceExact, Watches, Informed

\* The server closes a socket: whoever watches is told, if the socket was in
\* the room, and nothing otherwise.
LEMMA PresenceOfServerClose ==
  ASSUME RoomInv, PresenceExact, NEW s \in Socket, ServerClose(s)
  PROVE  PresenceExact'
<1> DEFINE d == DeviceAt(s)
           news == [t |-> "peer-left", device |-> d]
<1>1. /\ conn' = [conn EXCEPT ![s] = "closed"]
      /\ me' = me \ {s}
      /\ UNCHANGED <<phase, sock, told>>
  BY DEF ServerClose, clientVars
<1>2. d \in Device /\ s # NoSocket
  BY SocketIsPair
<1>3. CASE room[d] # s
  <2>1. UNCHANGED <<room, down>>
    BY <1>2, <1>3 DEF ServerClose, Leave, Left, RoomInv, SignalingTypeOK
  <2>2. \A c \in Client : conn'[Current(c)] = "open" => conn[Current(c)] = "open"
    BY <1>1 DEF RoomInv, SignalingTypeOK
  <2>3. \A c \in Client : Watches(c)' => Informed(c)'
    BY <1>1, <2>1, <2>2, InformedKept
  <2>. QED  BY <2>3 DEF PresenceExact, Watches, Informed
<1>4. CASE room[d] = s
  <2>1. s \in me
    BY <1>4 DEF RoomInv, RoomExact
  <2>2. /\ room' = [room EXCEPT ![d] = NoSocket]
        /\ down' = SendTo(down, Others(s), news)
    BY <1>4, <2>1 DEF ServerClose, Leave, Left
  <2>3. \A e \in Device : room'[e] = IF e = d THEN NoSocket ELSE room[e]
    BY <2>2 DEF RoomInv, SignalingTypeOK
  <2>4. ASSUME NEW c \in Client, Watches(c)'
        PROVE  Informed(c)'
    <3> DEFINE q == Current(c)
    <3>1. Current(c)' = q /\ Live(q)' = Live(q)
      BY <1>1 DEF Current, Live
    <3>2. q \in me /\ q \in Socket /\ q # s /\ Live(q) /\ conn'[q] = "open"
      BY <1>1, <2>4, <3>1 DEF Watches, RoomInv, SignalingTypeOK
    <3>3. Watches(c) /\ conn[q] = "open"
      BY <1>1, <3>2 DEF Watches, RoomInv, SignalingTypeOK
    <3>4. DeviceOf[c] # d
      BY <1>4, <3>2, <3>3, Watcher
    <3>5. down'[q] = Append(down[q], news)
      BY <2>2, <3>2, <3>3, <3>4, AmongOthers DEF SendTo
    <3>6. down[q] \in Seq(DownMessage) /\ told[c] \in SUBSET Device
      BY <3>3, Watcher
    <3>7. HeardAll(told[c], down'[q]) = HeardAll(told[c], down[q]) \ {d}
      <4>1. news \in DownMessage
        BY <1>2 DEF DownMessage
      <4>2. HeardAll(told[c], down'[q]) = Heard(HeardAll(told[c], down[q]), news)
        BY <3>5, <3>6, <4>1, HeardLast
      <4>. QED  BY <4>2 DEF Heard
    <3>8. HeardAll(told[c], down[q]) = {e \in Device \ {DeviceOf[c]} : room[e] # NoSocket}
      BY <3>3 DEF PresenceExact, Watches
    <3>9. {e \in Device \ {DeviceOf[c]} : room[e] # NoSocket} \ {d}
            = {e \in Device \ {DeviceOf[c]} : room'[e] # NoSocket}
      BY <2>3
    <3>10. told'[c] = told[c]
      BY <1>1
    <3>. QED  BY <3>1, <3>7, <3>8, <3>9, <3>10 DEF Informed
  <2>. QED  BY <2>4 DEF PresenceExact, Watches, Informed
<1>. QED  BY <1>3, <1>4

\* Every step keeps who watches informed.
LEMMA PresenceStep ==
  ASSUME RoomInv, PresenceExact, [SignalingStep]_signalingVars
  PROVE  PresenceExact'
<1>0. RoomInv'
  BY RoomInvStep
<1>1. CASE UNCHANGED signalingVars
  BY <1>1 DEF signalingVars, clientVars, serverVars, PresenceExact, Live, Current
<1>2. ASSUME NEW c \in Client,
             Construct(c) \/ Retry(c) \/ ConnectFails(c) \/ Break(c) \/ Notice(c) \/ Close(c)
      PROVE  PresenceExact'
  <2>1. \/ \E from \in {"idle", "waiting"} : Connect(c, from)
        \/ ConnectFails(c)
        \/ \E to \in {"waiting", "closed"} : LoseEnd(c, to) /\ phase[c] # "idle"
    BY <1>2 DEF Construct, Retry, Break, Notice, Close
  <2>. QED  BY <1>0, <2>1, PresenceOfClients
<1>3. ASSUME NEW c \in Client, Opened(c)
      PROVE  PresenceExact'
  BY <1>3, PresenceOfOpened
<1>4. ASSUME NEW c \in Client, Hear(c)
      PROVE  PresenceExact'
  BY <1>4, PresenceOfReceive DEF Hear
<1>5. ASSUME NEW c \in Client, Speak(c)
      PROVE  PresenceExact'
  BY <1>5 DEF Speak, clientVars, serverVars, PresenceExact, Live, Current
<1>6. ASSUME NEW s \in Socket, Serve(s)
      PROVE  PresenceExact'
  BY <1>0, <1>6, PresenceOfJoin, PresenceOfRelay
<1>7. ASSUME NEW s \in Socket, Closes(s) \/ Loses(s)
      PROVE  PresenceExact'
  BY <1>7, PresenceOfServerClose DEF Closes, Loses
<1>. QED
  BY <1>1, <1>2, <1>3, <1>4, <1>5, <1>6, <1>7
     DEF SignalingStep, SignalingNext, Progressing, Breaking, Living

\* A client that has joined knows who is present, once it has heard what is on
\* its way to it, whatever joins, leaves, evictions and breaks come between.
THEOREM PresenceStaysExact == SignalingSpec => []PresenceExact
<1>1. SignalingInit => PresenceExact
  BY DEF SignalingInit, PresenceExact
<1>2. RoomInv /\ PresenceExact /\ [SignalingNext]_signalingVars => PresenceExact'
  BY PresenceStep DEF SignalingStep
<1>. QED  BY <1>1, <1>2, RoomInvAlways, PTL DEF SignalingSpec

-----------------------------------------------------------------------------
\* Evictions. A socket evicts once at most, when its join is read, and a client
\* opens another socket only after the last one broke.

Lost(s) ==
  \/ s[2] < sock[s[1]]
  \/ /\ s[2] = sock[s[1]]
     /\ phase[s[1]] = "waiting" \/ (phase[s[1]] = "open" /\ conn[s] = "closed")

Paid ==
  /\ \A c \in Client : phase[c] = "idle" => sock[c] = 0
  /\ \A s \in Socket : Lost(s) => s \in broken

\* The sockets of a device that have joined, or never will.
Spent(d) ==
  {s \in Socket : /\ DeviceAt(s) = d /\ ~Unopened(s)
                  /\ \A i \in DOMAIN up[s] : up[s][i].t # "join"}

\* The first of them evicted nobody.
Charged ==
  \A d \in Device : evictions[d] = 0 \/ evictions[d] < Cardinality(Spent(d))

\* Sockets are finite in number.
LEMMA SocketsFinite ==
  /\ IsFiniteSet(Socket)
  /\ \A S \in SUBSET Socket : IsFiniteSet(S) /\ Cardinality(S) \in Nat
<1>1. IsFiniteSet(1 .. MaxSockets)
  BY FS_Interval, SignalingAssumption
<1>2. IsFiniteSet(Socket)
  BY <1>1, FS_Product, SignalingAssumption DEF Socket
<1>. QED  BY <1>2, FS_Subset, FS_CardinalityType

\* A socket that has been opened stays so.
LEMMA OpenedForGood ==
  ASSUME RoomInv, [SignalingStep]_signalingVars, NEW s \in Socket, Unopened(s)'
  PROVE  Unopened(s)
<1>1. s[1] \in Client /\ s[2] \in 1 .. MaxSockets
  BY SocketIsPair
<1>2. CASE UNCHANGED <<phase, sock>>
  BY <1>2 DEF Unopened
<1>3. ASSUME NEW c \in Client,
             \/ Opened(c) \/ Hear(c) \/ ConnectFails(c)
             \/ \E to \in {"waiting", "closed"} : LoseEnd(c, to)
      PROVE  Unopened(s)
  <2>1. UNCHANGED sock /\ \E to \in {"open", "waiting", "closed", "conflict"} :
          phase' = [phase EXCEPT ![c] = to] \/ UNCHANGED phase
    BY <1>3 DEF Opened, Hear, Receive, ConnectFails, LoseEnd
  <2>. QED  BY <1>1, <2>1 DEF Unopened, RoomInv, SignalingTypeOK
<1>4. ASSUME NEW c \in Client, NEW from, Connect(c, from)
      PROVE  Unopened(s)
  BY <1>1, <1>4, SignalingAssumption DEF Connect, Unopened, RoomInv, SignalingTypeOK
<1>. QED
  BY <1>2, <1>3, <1>4 DEF SignalingStep, SignalingNext, Progressing, Breaking, Living,
     Construct, Retry, Break, Notice, Close, Speak, Serve, Closes, Loses, ServerClose,
     clientVars, signalingVars

\* A socket that has joined, or lost its join on the way, joins no more.
LEMMA JoinsFade ==
  ASSUME RoomInv, [SignalingStep]_signalingVars, NEW s \in Socket, ~Unopened(s),
         \A i \in DOMAIN up[s] : up[s][i].t # "join"
  PROVE  \A i \in DOMAIN up'[s] : up'[s][i].t # "join"
<1>. DEFINE Quieter == \A i \in DOMAIN up'[s] : up'[s][i].t # "join"
<1>0. up[s] \in Seq(UpMessage) /\ up \in [Socket -> Seq(UpMessage)]
  BY DEF RoomInv, SignalingTypeOK
<1>1. CASE up'[s] = up[s]
  BY <1>1
<1>2. ASSUME NEW c \in Client, Opened(c)
      PROVE  Quieter
  <2>1. phase[c] = "connecting"
    BY <1>2 DEF Opened
  <2>2. s # Current(c)
    BY <2>1 DEF Unopened, Current
  <2>3. up'[s] = up[s]
    BY <1>0, <1>2, <2>2 DEF Opened
  <2>. QED  BY <2>3
<1>3. ASSUME NEW c \in Client, NEW to, LoseEnd(c, to)
      PROVE  Quieter
  BY <1>3, LoseEndUp DEF RoomInv
<1>4. ASSUME NEW c \in Client, Speak(c)
      PROVE  Quieter
  <2>1. PICK msgs \in Seq(Signal) : up' = SigSend(up, c, msgs)
    BY <1>4 DEF Speak
  <2>2. up'[s] = up[s] \/ up'[s] = up[s] \o msgs
    BY <1>0, <2>1 DEF SigSend
  <2>3. \A i \in DOMAIN (up[s] \o msgs) : (up[s] \o msgs)[i].t # "join"
    <3> DEFINE said == up[s]
    <3>1. said \in Seq(UpMessage) /\ \A i \in DOMAIN said : said[i].t # "join"
      BY <1>0
    <3>3. \A i \in DOMAIN msgs : msgs[i] \in Signal
      OBVIOUS
    <3>4. \A i \in DOMAIN msgs : msgs[i].t # "join"
      BY <3>3 DEF Signal
    <3>. HIDE DEF said
    <3>2. \A i \in DOMAIN (said \o msgs) : (said \o msgs)[i].t # "join"
      BY <3>1, <3>4
    <3>. QED  BY <3>2 DEF said
  <2>. QED  BY <2>2, <2>3
<1>5. ASSUME NEW r \in Socket, Serve(r)
      PROVE  Quieter
  <2>1. up' = [up EXCEPT ![r] = Tail(@)] /\ up[r] # <<>>
    BY <1>5 DEF Serve
  <2>2. CASE r # s
    BY <1>0, <1>1, <2>1, <2>2
  <2>3. CASE r = s
    <3> DEFINE said == up[s]
    <3>1. said \in Seq(UpMessage) /\ said # <<>> /\ \A i \in DOMAIN said : said[i].t # "join"
      BY <1>0, <2>1, <2>3
    <3>2. up'[s] = Tail(said)
      BY <1>0, <2>1, <2>3
    <3>. HIDE DEF said
    <3>3. \A i \in DOMAIN Tail(said) : i + 1 \in DOMAIN said /\ Tail(said)[i] = said[i + 1]
      <4>1. /\ Tail(said) \in Seq(UpMessage) /\ Len(Tail(said)) = Len(said) - 1
            /\ \A i \in 1 .. Len(Tail(said)) : Tail(said)[i] = said[i + 1]
        BY <3>1, HeadTailProperties
      <4>. QED  BY <3>1, <4>1
    <3>. QED  BY <3>1, <3>2, <3>3
  <2>. QED  BY <2>2, <2>3
<1>6. ASSUME NEW r \in Socket, Loses(r)
      PROVE  Quieter
  <2>1. up'[s] = up[s] \/ up'[s] = <<>>
    BY <1>0, <1>6 DEF Loses
  <2>2. CASE up'[s] = <<>>
    BY <2>2
  <2>. QED  BY <1>1, <2>1, <2>2
<1>7. CASE UNCHANGED up
  BY <1>1, <1>7
<1>. QED
  BY <1>2, <1>3, <1>4, <1>5, <1>6, <1>7 DEF SignalingStep, SignalingNext, Progressing,
     Breaking, Living, Construct, Retry, Connect, Hear, ConnectFails, Break, Notice, Close,
     Closes, signalingVars

\* So what is spent stays spent.
LEMMA SpentGrows ==
  ASSUME RoomInv, [SignalingStep]_signalingVars, NEW d \in Device
  PROVE  Spent(d) \subseteq Spent(d)'
<1>1. ASSUME NEW s \in Spent(d)
      PROVE  s \in Spent(d)'
  <2>1. s \in Socket /\ DeviceAt(s) = d /\ ~Unopened(s)
        /\ \A i \in DOMAIN up[s] : up[s][i].t # "join"
    BY <1>1 DEF Spent
  <2>2. ~Unopened(s)' /\ \A i \in DOMAIN up'[s] : up'[s][i].t # "join"
    BY <2>1, OpenedForGood, JoinsFade
  <2>. QED  BY <2>1, <2>2 DEF Spent, DeviceAt
<1>. QED  BY <1>1

\* A socket is lost only by breaking; its client may then open the next one.
LEMMA PaidStep ==
  ASSUME RoomInv, Paid, [SignalingStep]_signalingVars
  PROVE  Paid'
<1>. USE DEF RoomInv
<1>0. \A s \in Socket : s[1] \in Client /\ s[2] \in 1 .. MaxSockets /\ s = <<s[1], s[2]>>
  BY SocketIsPair
<1>. USE <1>0
<1>1. CASE UNCHANGED <<phase, sock, conn, broken>>
  BY <1>1 DEF Paid, Lost
<1>2. ASSUME NEW c \in Client, \E from \in {"idle", "waiting"} : Connect(c, from)
      PROVE  Paid'
  <2>1. /\ phase[c] \in {"idle", "waiting"} /\ UNCHANGED <<conn, broken>>
        /\ sock' = [sock EXCEPT ![c] = @ + 1]
        /\ phase' = [phase EXCEPT ![c] = "connecting"]
    BY <1>2 DEF Connect, serverVars
  <2>2. \A e \in Client : phase'[e] = "idle" => sock'[e] = 0
    BY <2>1 DEF Paid, SignalingTypeOK
  <2>3. ASSUME NEW s \in Socket, Lost(s)'
        PROVE  Lost(s)
    <3>1. CASE s[1] # c
      BY <2>1, <2>3, <3>1 DEF Lost, SignalingTypeOK
    <3>2. CASE s[1] = c
      <4>1. s[2] < sock[c] + 1 /\ sock[c] \in Nat
        BY <2>1, <2>3, <3>2, SignalingAssumption DEF Lost, SignalingTypeOK
      <4>2. s[2] <= sock[c] /\ sock[c] # 0
        BY <4>1, SignalingAssumption
      <4>. QED  BY <2>1, <3>2, <4>1, <4>2, SignalingAssumption DEF Lost, Paid
    <3>. QED  BY <3>1, <3>2
  <2>. QED  BY <2>1, <2>2, <2>3 DEF Paid
<1>3. ASSUME NEW c \in Client, Opened(c)
      PROVE  Paid'
  <2>1. /\ phase[c] = "connecting" /\ UNCHANGED <<sock, broken>>
        /\ phase' = [phase EXCEPT ![c] = "open"]
        /\ conn' = [conn EXCEPT ![Current(c)] = "open"]
    BY <1>3 DEF Opened
  <2>2. ASSUME NEW s \in Socket, Lost(s)'
        PROVE  Lost(s)
    <3>1. CASE s = Current(c)
      BY <2>1, <2>2, <3>1 DEF Lost, Current, SignalingTypeOK
    <3>2. CASE s # Current(c)
      BY <2>1, <2>2, <3>2 DEF Lost, Current, SignalingTypeOK
    <3>. QED  BY <3>1, <3>2
  <2>3. \A e \in Client : phase'[e] = "idle" => phase[e] = "idle"
    BY <2>1 DEF SignalingTypeOK
  <2>. QED  BY <2>1, <2>2, <2>3 DEF Paid
<1>4. ASSUME NEW c \in Client, Hear(c)
      PROVE  Paid'
  <2>1. /\ UNCHANGED <<sock, conn, broken>>
        /\ phase' = [phase EXCEPT ![c] = "conflict"] \/ UNCHANGED phase
    BY <1>4 DEF Hear, Receive, serverVars
  <2>. QED  BY <2>1 DEF Paid, Lost, SignalingTypeOK
<1>5. ASSUME NEW c \in Client, ConnectFails(c) \/ Break(c) \/ Notice(c)
      PROVE  Paid'
  <2>1. /\ UNCHANGED <<sock, conn>> /\ phase[c] # "idle"
        /\ phase' = [phase EXCEPT ![c] = "waiting"]
        /\ broken \subseteq broken'
    BY <1>5 DEF ConnectFails, Break, Notice, LoseEnd, serverVars
  <2>2. Current(c) \in broken'
    <3>1. CASE ConnectFails(c) \/ Break(c)
      BY <3>1 DEF ConnectFails, Break
    <3>2. CASE Notice(c)
      <4>1. Current(c) \in Socket /\ Lost(Current(c))
        BY <2>1, <3>2, CurrentSocket DEF Notice, Lost
      <4>. QED  BY <2>1, <4>1 DEF Paid
    <3>. QED  BY <1>5, <3>1, <3>2
  <2>3. ASSUME NEW s \in Socket, Lost(s)'
        PROVE  s \in broken'
    <3>1. CASE s = Current(c)
      BY <2>2, <3>1
    <3>2. CASE s # Current(c)
      <4>1. Lost(s)
        BY <2>1, <2>3, <3>2 DEF Lost, Current, SignalingTypeOK
      <4>. QED  BY <2>1, <4>1 DEF Paid
    <3>. QED  BY <3>1, <3>2
  <2>. QED  BY <2>1, <2>3 DEF Paid, SignalingTypeOK
<1>6. ASSUME NEW c \in Client, Close(c)
      PROVE  Paid'
  <2>1. /\ UNCHANGED <<sock, conn, broken>> /\ phase' = [phase EXCEPT ![c] = "closed"]
    BY <1>6 DEF Close, LoseEnd, serverVars
  <2>. QED  BY <2>1 DEF Paid, Lost, SignalingTypeOK
<1>7. ASSUME NEW r \in Socket, Serve(r)
      PROVE  Paid'
  <2>1. /\ UNCHANGED <<phase, sock, broken>>
        /\ \A s \in Socket : conn'[s] = "closed" => conn[s] = "closed"
    BY <1>7 DEF Serve, Join, Relay, clientVars
  <2>. QED  BY <2>1 DEF Paid, Lost
<1>8. ASSUME NEW r \in Socket, Closes(r)
      PROVE  Paid'
  <2>1. /\ UNCHANGED <<phase, sock, broken>> /\ ~Live(r)
        /\ conn' = [conn EXCEPT ![r] = "closed"]
    BY <1>8 DEF Closes, ServerClose, clientVars
  <2>2. ASSUME NEW s \in Socket, Lost(s)'
        PROVE  Lost(s)
    BY <2>1, <2>2 DEF Lost, Live, SignalingTypeOK
  <2>. QED  BY <2>1, <2>2 DEF Paid
<1>9. ASSUME NEW r \in Socket, Loses(r)
      PROVE  Paid'
  <2>1. /\ UNCHANGED <<phase, sock>> /\ broken' = broken \cup {r}
        /\ conn' = [conn EXCEPT ![r] = "closed"]
    BY <1>9 DEF Loses, ServerClose, clientVars
  <2>2. ASSUME NEW s \in Socket, s # r, Lost(s)'
        PROVE  Lost(s)
    BY <2>1, <2>2 DEF Lost, SignalingTypeOK
  <2>. QED  BY <2>1, <2>2 DEF Paid
<1>. QED
  BY <1>1, <1>2, <1>3, <1>4, <1>5, <1>6, <1>7, <1>8, <1>9
     DEF SignalingStep, SignalingNext, Progressing, Breaking, Living, Construct, Retry,
         Speak, clientVars, serverVars, signalingVars

\* Each eviction after the first is paid for by another socket that joins.
LEMMA ChargedStep ==
  ASSUME RoomInv, Charged, [SignalingStep]_signalingVars
  PROVE  Charged'
<1>1. ASSUME NEW d \in Device
      PROVE  Cardinality(Spent(d)) <= Cardinality(Spent(d)') /\ Cardinality(Spent(d)) \in Nat
             /\ Cardinality(Spent(d)') \in Nat
  <2>1. Spent(d) \in SUBSET Socket /\ Spent(d)' \in SUBSET Socket
    BY DEF Spent
  <2>2. Spent(d) \subseteq Spent(d)'
    BY SpentGrows
  <2>. QED  BY <2>1, <2>2, SocketsFinite, FS_Subset
<1>2. CASE UNCHANGED evictions
  <2>. SUFFICES ASSUME NEW d \in Device
       PROVE  evictions'[d] = 0 \/ evictions'[d] < Cardinality(Spent(d)')
    BY DEF Charged
  <2>1. evictions[d] \in Nat
    BY DEF RoomInv, SignalingTypeOK
  <2>2. Cardinality(Spent(d)) <= Cardinality(Spent(d)') /\ Cardinality(Spent(d)) \in Nat
        /\ Cardinality(Spent(d)') \in Nat
    BY <1>1
  <2>3. evictions[d] = 0 \/ evictions[d] < Cardinality(Spent(d))
    BY DEF Charged
  <2>4. evictions'[d] = evictions[d]
    BY <1>2
  <2>. QED  BY <2>1, <2>2, <2>3, <2>4
<1>3. ASSUME NEW s \in Socket, Serve(s), Head(up[s]).t = "join"
      PROVE  Charged'
  <2> DEFINE e == DeviceAt(s)
             evicted == {room[e]} \ {NoSocket}
  <2>1. /\ up[s] # <<>> /\ up' = [up EXCEPT ![s] = Tail(@)]
        /\ conn[s] \in {"open", "closing"} /\ UNCHANGED <<phase, sock>>
        /\ evictions' = [evictions EXCEPT ![e] = @ + Cardinality(evicted)]
    BY <1>3 DEF Serve, Join, clientVars
  <2>2. e \in Device
    BY SocketIsPair
  <2>3. up[s] \in Seq(UpMessage) /\ 1 \in DOMAIN up[s] /\ up[s][1].t = "join"
    <3>1. up[s] \in Seq(UpMessage)
      BY DEF RoomInv, SignalingTypeOK
    <3>. QED  BY <1>3, <2>1, <3>1
  <2>4. s \notin Spent(e)
    BY <2>3 DEF Spent
  <2>5. s \in Spent(e)'
    <3>1. ~Unopened(s)'
      BY <2>1 DEF Unopened, RoomInv, Untouched
    <3>2. JoinsOnce' /\ s \in me'
      BY <1>3, RoomInvStep DEF SignalingStep, SignalingNext, Progressing, RoomInv, Serve, Join
    <3>. QED  BY <3>1, <3>2 DEF Spent, JoinsOnce, DeviceAt
  <2>6. Cardinality(Spent(e)) < Cardinality(Spent(e)')
    <3>1. Spent(e) \subseteq Spent(e)' /\ Spent(e)' \in SUBSET Socket
      <4>1. Spent(e) \subseteq Spent(e)'
        BY <2>2, SpentGrows
      <4>. QED  BY <4>1 DEF Spent
    <3>2. Spent(e) # Spent(e)'
      BY <2>4, <2>5
    <3>. QED  BY <3>1, <3>2, SocketsFinite, FS_Subset
  <2>7. Cardinality(evicted) = IF room[e] = NoSocket THEN 0 ELSE 1
    <3>1. room[e] = NoSocket => evicted = {}
      OBVIOUS
    <3>2. room[e] # NoSocket => evicted = {room[e]}
      OBVIOUS
    <3>. QED  BY <3>1, <3>2, FS_EmptySet, FS_Singleton
  <2>8. room[e] # NoSocket => Cardinality(Spent(e)) >= 1
    <3>. SUFFICES ASSUME room[e] # NoSocket  PROVE Cardinality(Spent(e)) >= 1
      OBVIOUS
    <3>1. room[e] \in Socket /\ DeviceAt(room[e]) = e /\ room[e] \in me
          /\ conn[room[e]] = "open"
      BY <2>2 DEF RoomInv, RoomOwn, RoomExact
    <3>2. room[e] \in Spent(e)
      BY <3>1 DEF Spent, RoomInv, JoinsOnce, Untouched
    <3>3. {room[e]} \subseteq Spent(e) /\ Spent(e) \in SUBSET Socket
      BY <3>2 DEF Spent
    <3>4. Cardinality({room[e]}) <= Cardinality(Spent(e))
      BY <3>3, SocketsFinite, FS_Subset
    <3>5. Cardinality({room[e]}) = 1
      BY FS_Singleton
    <3>. QED  BY <3>4, <3>5, <1>1, <2>2
  <2>9. ASSUME NEW d \in Device
        PROVE  evictions'[d] = 0 \/ evictions'[d] < Cardinality(Spent(d)')
    <3>1. evictions[d] \in Nat /\ (evictions[d] = 0 \/ evictions[d] < Cardinality(Spent(d)))
      BY DEF Charged, RoomInv, SignalingTypeOK
    <3>2. /\ Cardinality(Spent(d)) <= Cardinality(Spent(d)') /\ Cardinality(Spent(d)) \in Nat
          /\ Cardinality(Spent(d)') \in Nat
      BY <1>1
    <3>3. CASE d # e
      <4>1. evictions'[d] = evictions[d]
        BY <2>1, <3>3 DEF RoomInv, SignalingTypeOK
      <4>. QED  BY <3>1, <3>2, <4>1
    <3>4. CASE d = e
      <4>1. evictions'[d] = evictions[d] + IF room[e] = NoSocket THEN 0 ELSE 1
        BY <2>1, <2>2, <2>7, <3>4 DEF RoomInv, SignalingTypeOK
      <4>2. Cardinality(Spent(d)) < Cardinality(Spent(d)')
        BY <2>6, <3>4
      <4>3. room[e] # NoSocket => Cardinality(Spent(d)) >= 1
        BY <2>8, <3>4
      <4>. QED  BY <3>1, <3>2, <4>1, <4>2, <4>3
    <3>. QED  BY <3>3, <3>4
  <2>. QED  BY <2>9 DEF Charged
<1>. QED
  BY <1>2, <1>3 DEF SignalingStep, SignalingNext, Progressing, Breaking, Living, Construct,
     Retry, Connect, Opened, Hear, Receive, ConnectFails, Break, Notice, Close, LoseEnd,
     Serve, Relay, Closes, Loses, ServerClose, Speak, signalingVars

\* Every socket that is spent is the one its client has, or it broke.
LEMMA DuelsEnd ==
  ASSUME RoomInv, Paid, Charged
  PROVE  NoDuel
<1>. SUFFICES ASSUME NEW d \in Device, evictions[d] > 0
     PROVE  evictions[d] < Cardinality({c \in Client : DeviceOf[c] = d /\ phase[c] # "idle"})
                             + Cardinality({s \in broken : DeviceAt(s) = d})
  BY DEF NoDuel
<1> DEFINE mine == {c \in Client : DeviceOf[c] = d /\ phase[c] # "idle"}
           gone == {s \in broken : DeviceAt(s) = d}
           held == {Current(c) : c \in mine}
<1>1. Spent(d) \subseteq held \cup gone
  <2>1. ASSUME NEW s \in Spent(d)
        PROVE  s \in held \cup gone
    <3>1. s \in Socket /\ DeviceAt(s) = d /\ ~Unopened(s)
      BY DEF Spent
    <3>2. s[1] \in Client /\ s[2] \in 1 .. MaxSockets /\ s = <<s[1], s[2]>>
      BY <3>1, SocketIsPair
    <3>3. s[2] <= sock[s[1]] /\ sock[s[1]] \in Nat
      BY <3>1, <3>2, SignalingAssumption DEF Unopened, RoomInv, SignalingTypeOK
    <3>4. CASE s[2] = sock[s[1]]
      <4>1. s = Current(s[1]) /\ DeviceOf[s[1]] = d
        BY <3>1, <3>2, <3>4 DEF Current, DeviceAt
      <4>2. phase[s[1]] # "idle"
        BY <3>2, <3>4, SignalingAssumption DEF Paid
      <4>. QED  BY <3>2, <4>1, <4>2
    <3>5. CASE s[2] # sock[s[1]]
      <4>1. Lost(s)
        BY <3>2, <3>3, <3>5, SignalingAssumption DEF Lost
      <4>. QED  BY <3>1, <4>1 DEF Paid
    <3>. QED  BY <3>4, <3>5
  <2>. QED  BY <2>1
<1>2. IsFiniteSet(mine) /\ Cardinality(mine) \in Nat
  BY SignalingAssumption, FS_Subset, FS_CardinalityType
<1>3. IsFiniteSet(held) /\ Cardinality(held) <= Cardinality(mine) /\ Cardinality(held) \in Nat
  <2> DEFINE f == [c \in mine |-> Current(c)]
  <2>1. f \in Surjection(mine, held)
    BY DEF Surjection
  <2>. HIDE DEF f, mine, held
  <2>2. IsFiniteSet(held) /\ Cardinality(held) <= Cardinality(mine)
    BY <1>2, <2>1, FS_Surjection
  <2>. QED  BY <2>2, FS_CardinalityType
<1>4. gone \in SUBSET Socket /\ IsFiniteSet(gone) /\ Cardinality(gone) \in Nat
  BY SocketsFinite DEF RoomInv, SignalingTypeOK
<1>5. Cardinality(Spent(d)) <= Cardinality(held \cup gone)
  BY <1>1, <1>3, <1>4, FS_Subset, FS_Union
<1>6. Cardinality(held \cup gone) <= Cardinality(held) + Cardinality(gone)
  <2>1. /\ Cardinality(held \cup gone)
             = Cardinality(held) + Cardinality(gone) - Cardinality(held \cap gone)
        /\ Cardinality(held \cap gone) \in Nat
    BY <1>3, <1>4, FS_Union, FS_Intersection, FS_CardinalityType
  <2>. QED  BY <1>3, <1>4, <2>1
<1>7. evictions[d] \in Nat /\ evictions[d] < Cardinality(Spent(d)) /\ Cardinality(Spent(d)) \in Nat
  <2>1. Spent(d) \in SUBSET Socket
    BY DEF Spent
  <2>2. Cardinality(Spent(d)) \in Nat
    BY <2>1, SocketsFinite
  <2>3. evictions[d] \in Nat
    BY DEF RoomInv, SignalingTypeOK
  <2>4. evictions[d] = 0 \/ evictions[d] < Cardinality(Spent(d))
    BY DEF Charged
  <2>. QED  BY <2>2, <2>3, <2>4
<1>8. Cardinality(held \cup gone) \in Nat
  BY <1>3, <1>4, FS_Union, FS_CardinalityType
<1>. HIDE DEF mine, held, gone
<1>9. evictions[d] < Cardinality(mine) + Cardinality(gone)
  BY <1>2, <1>3, <1>4, <1>5, <1>6, <1>7, <1>8
<1>. QED  BY <1>9 DEF mine, gone

\* Nobody has connected, and nobody was evicted.
LEMMA DuelInit == SignalingInit => Paid /\ Charged
<1>. SUFFICES ASSUME SignalingInit PROVE Paid /\ Charged
  OBVIOUS
<1>1. \A s \in Socket : s[1] \in Client /\ s[2] \in 1 .. MaxSockets
  BY SocketIsPair
<1>2. \A s \in Socket : ~Lost(s)
  BY <1>1, SignalingAssumption DEF SignalingInit, Lost
<1>. QED  BY <1>2 DEF SignalingInit, Paid, Charged

\* Evictions end: there are fewer of them under a device id than transports
\* constructed under it and sockets of theirs that broke.
THEOREM DuelsAreFinite == SignalingSpec => []NoDuel
<1>1. SignalingInit => Paid /\ Charged
  BY DuelInit
<1>2. RoomInv /\ (Paid /\ Charged) /\ [SignalingNext]_signalingVars => (Paid /\ Charged)'
  BY PaidStep, ChargedStep DEF SignalingStep
<1>3. RoomInv /\ (Paid /\ Charged) => NoDuel
  BY DuelsEnd
<1>. QED  BY <1>1, <1>2, <1>3, RoomInvAlways, PTL DEF SignalingSpec
=============================================================================
