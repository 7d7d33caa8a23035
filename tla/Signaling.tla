----------------------------- MODULE Signaling -----------------------------
(***************************************************************************)
(* The signaling server (packages/signaling-server/src/index.ts) and the   *)
(* signaling half of its clients (packages/transport-webrtc/src/index.ts): *)
(* presence in the room of one space, relayed blobs, eviction, reconnects. *)
(*                                                                         *)
(* A client is one WebRTCTransport; several may claim one device id, as a  *)
(* reloaded or duplicated browser tab does. Its sockets are numbered. A    *)
(* socket delivers in order in both directions; when it breaks, the two    *)
(* ends learn of it at different times, and what was in flight is lost.    *)
(***************************************************************************)
EXTENDS Naturals, FiniteSets, SequencesExt

CONSTANTS Device,      \* device ids
          Client,      \* transports
          DeviceOf,    \* the device id each transport was given
          Blob,        \* the opaque data clients relay
          MaxSockets,  \* bound: sockets a client opens
          MaxBreaks    \* bound: sockets that break, in a behaviour

ASSUME SignalingAssumption ==
  /\ DeviceOf \in [Client -> Device]
  /\ IsFiniteSet(Client)
  /\ MaxSockets \in Nat
  /\ MaxBreaks \in Nat

Socket == Client \X (1 .. MaxSockets)
NoSocket == <<>>

DeviceAt(s) == DeviceOf[s[1]]

VARIABLES
  \* clients
  phase,      \* of connectSignaling: idle, connecting, open, waiting to retry,
              \* conflict (evicted), closed
  sock,       \* number of the socket in this.ws
  \* the network
  up, down,   \* what each socket has in flight to and from the server
  \* the server
  conn,       \* its end of each socket: none, open, closing, closed
  me,         \* the sockets that have joined
  room,       \* the socket present for each device
  \* history
  told,       \* the devices a client has been told are present
  broken,     \* the sockets that broke
  evictions   \* evictions under each device id

clientVars == <<phase, sock>>
serverVars == <<conn, me, room>>
signalingVars == <<clientVars, up, down, serverVars, told, broken, evictions>>

UpMessage ==
  [t : {"join"}] \cup [t : {"signal"}, to : Device, data : Blob]
DownMessage ==
  [t : {"peers"}, devices : SUBSET Device]
    \cup [t : {"peer-joined", "peer-left"}, device : Device]
    \cup [t : {"signal"}, from : Device, data : Blob]
    \cup [t : {"close4000"}]

SignalingTypeOK ==
  /\ phase \in [Client -> {"idle", "connecting", "open", "waiting", "conflict", "closed"}]
  /\ sock \in [Client -> 0 .. MaxSockets]
  /\ up \in [Socket -> Seq(UpMessage)]
  /\ down \in [Socket -> Seq(DownMessage)]
  /\ conn \in [Socket -> {"none", "open", "closing", "closed"}]
  /\ me \subseteq Socket
  /\ room \in [Device -> Socket \cup {NoSocket}]
  /\ told \in [Client -> SUBSET Device]
  /\ broken \subseteq Socket
  /\ evictions \in [Device -> Nat]

SignalingInit ==
  /\ phase = [c \in Client |-> "idle"]
  /\ sock = [c \in Client |-> 0]
  /\ up = [s \in Socket |-> <<>>]
  /\ down = [s \in Socket |-> <<>>]
  /\ conn = [s \in Socket |-> "none"]
  /\ me = {}
  /\ room = [d \in Device |-> NoSocket]
  /\ told = [c \in Client |-> {}]
  /\ broken = {}
  /\ evictions = [d \in Device |-> 0]

Current(c) == <<c, sock[c]>>

\* The client's end of s is open: it can send there and hears what arrives.
Live(s) == phase[s[1]] = "open" /\ sock[s[1]] = s[2]

-----------------------------------------------------------------------------
\* Clients.

\* connectSignaling from the constructor, or from the retry timer, which does
\* nothing once the transport is closed.
Connect(c, from) ==
  /\ phase[c] = from
  /\ sock[c] < MaxSockets
  /\ phase' = [phase EXCEPT ![c] = "connecting"]
  /\ sock' = [sock EXCEPT ![c] = @ + 1]
  /\ UNCHANGED <<up, down, serverVars, told, broken, evictions>>

\* Faulty variant: the retry timer does not look at `closed`, or at why the
\* socket closed.
RetryAlways(c) == \E from \in {"waiting", "conflict", "closed"} : Connect(c, from)

Construct(c) == Connect(c, "idle")
Retry(c) == Connect(c, "waiting")

\* onopen: the client joins. The server has accepted the socket.
Opened(c) ==
  /\ phase[c] = "connecting"
  /\ phase' = [phase EXCEPT ![c] = "open"]
  /\ conn' = [conn EXCEPT ![Current(c)] = "open"]
  /\ up' = [up EXCEPT ![Current(c)] = Append(@, [t |-> "join"])]
  /\ told' = [told EXCEPT ![c] = {}]
  /\ UNCHANGED <<sock, down, me, room, broken, evictions>>

MayBreak == Cardinality(broken) < MaxBreaks

\* onclose of a socket that never opened: retry later.
ConnectFails(c) ==
  /\ phase[c] = "connecting"
  /\ MayBreak
  /\ phase' = [phase EXCEPT ![c] = "waiting"]
  /\ broken' = broken \cup {Current(c)}
  /\ UNCHANGED <<sock, up, down, serverVars, told, evictions>>

\* sigSend: dropped unless the socket is open, and lost when the server's end
\* is gone. Yields the new value of up.
SigSend(q, c, msgs) ==
  IF phase[c] = "open" /\ conn[Current(c)] # "closed"
    THEN [q EXCEPT ![Current(c)] = @ \o msgs]
    ELSE q

\* What the messages a client hears say of presence.
Heard(view, m) ==
  CASE m.t = "peers"       -> m.devices
    [] m.t = "peer-joined" -> view \cup {m.device}
    [] m.t = "peer-left"   -> view \ {m.device}
    [] OTHER               -> view

\* What a client takes presence to be once it has heard all of q: of each
\* device, what was last said, if anything was.
HeardAll(view, q) ==
  {d \in Device :
     \/ d \in view /\ \A i \in DOMAIN q : d \in Heard(Device, q[i])
     \/ \E i \in DOMAIN q : /\ d \in Heard({}, q[i])
                          /\ \A j \in i + 1 .. Len(q) : d \in Heard(Device, q[j])}

\* onmessage, or onclose with code 4000: evicted, and that is final. What the
\* client does on hearing the message is left to its caller, and so is up.
Receive(c) ==
  LET s == Current(c)
  IN  /\ Live(s)
      /\ down[s] # <<>>
      /\ down' = [down EXCEPT ![s] = Tail(@)]
      /\ told' = [told EXCEPT ![c] = Heard(@, Head(down[s]))]
      /\ phase' = IF Head(down[s]).t = "close4000"
                    THEN [phase EXCEPT ![c] = "conflict"] ELSE phase
      /\ UNCHANGED <<sock, serverVars, broken, evictions>>

\* The client's end of its socket is gone: what was on its way to the client
\* is lost, and of what was on its way to the server all but some beginning.
LoseEnd(c, to) ==
  LET s == Current(c)
  IN  /\ phase' = [phase EXCEPT ![c] = to]
      /\ down' = [q \in Socket |-> IF q = s THEN <<>> ELSE down[q]]
      /\ \E n \in 0 .. (IF s \in Socket THEN Len(up[s]) ELSE 0) :
           up' = [q \in Socket |-> IF q = s THEN SubSeq(up[s], 1, n) ELSE up[q]]
      /\ UNCHANGED <<sock, serverVars, told, evictions>>

\* The socket breaks and the client notices first: onclose, retry later.
Break(c) ==
  /\ phase[c] = "open" /\ conn[Current(c)] # "closed"
  /\ MayBreak
  /\ LoseEnd(c, "waiting")
  /\ broken' = broken \cup {Current(c)}

\* The client notices that its socket is no longer there.
Notice(c) ==
  /\ phase[c] = "open" /\ conn[Current(c)] = "closed"
  /\ LoseEnd(c, "waiting")
  /\ UNCHANGED broken

\* close(), which sends what is queued; or the process dies, and some is lost.
Close(c) ==
  /\ phase[c] \notin {"idle", "closed"}
  /\ LoseEnd(c, "closed")
  /\ UNCHANGED broken

-----------------------------------------------------------------------------
\* The server.

\* The room as a join or a leave of s makes it.
Entered(s) == [room EXCEPT ![DeviceAt(s)] = s]
Left(s) == [room EXCEPT ![DeviceAt(s)] = IF @ = s THEN NoSocket ELSE @]

\* The sockets in the room of the devices other than s's.
Others(s) == {room[d] : d \in Device \ {DeviceAt(s)}} \ {NoSocket}

\* send(): dropped unless the server's end is open, and lost when the
\* client's is gone. Yields the new value of down.
SendTo(q, targets, m) ==
  [s \in Socket |->
     IF s \in targets /\ conn[s] = "open" /\ Live(s) THEN Append(q[s], m) ELSE q[s]]

\* A join: the socket that held the device id is closed with code 4000, the
\* newcomer is told who is there, and those are told of the newcomer. A
\* client joins once per socket, so me was null.
Join(s) ==
  LET d == DeviceAt(s)
      present == {e \in Device \ {d} : room[e] # NoSocket}
      evicted == {room[d]} \ {NoSocket}
      warned == SendTo(down, evicted, [t |-> "close4000"])
      greeted == SendTo(warned, {s}, [t |-> "peers", devices |-> present])
  IN  /\ me' = me \cup {s}
      /\ room' = Entered(s)
      /\ conn' = [q \in Socket |-> IF q \in evicted THEN "closing" ELSE conn[q]]
      /\ down' = SendTo(greeted, Others(s), [t |-> "peer-joined", device |-> d])
      /\ evictions' = [evictions EXCEPT ![d] = @ + Cardinality(evicted)]

\* A signal: relayed to the socket present for its addressee, if any.
Relay(s, m) ==
  /\ s \in me
  /\ down' = SendTo(down, {room[m.to]},
                    [t |-> "signal", from |-> DeviceAt(s), data |-> m.data])
  /\ UNCHANGED <<conn, me, room, evictions>>

\* onmessage of the server. A socket that it is closing still speaks.
Serve(s) ==
  /\ conn[s] \in {"open", "closing"}
  /\ up[s] # <<>>
  /\ up' = [up EXCEPT ![s] = Tail(@)]
  /\ IF Head(up[s]).t = "join" THEN Join(s) ELSE Relay(s, Head(up[s]))
  /\ UNCHANGED <<clientVars, told, broken>>

\* Faulty variant: a socket's close takes out whoever holds its device id.
LeaveAnyway(s) ==
  /\ room' = [room EXCEPT ![DeviceAt(s)] = NoSocket]
  /\ down' = SendTo(down, Others(s), [t |-> "peer-left", device |-> DeviceAt(s)])

\* Faulty variant: the leave is announced even when another socket has taken
\* the device id since.
LeaveAnnounced(s) ==
  /\ room' = Left(s)
  /\ down' = SendTo(down, Others(s), [t |-> "peer-left", device |-> DeviceAt(s)])

\* leave(): nothing, when another socket has taken the device id since.
Leave(s) ==
  /\ room' = Left(s)
  /\ down' = IF room[DeviceAt(s)] = s
               THEN SendTo(down, Others(s), [t |-> "peer-left", device |-> DeviceAt(s)])
               ELSE down

\* onclose of the server.
ServerClose(s) ==
  /\ conn' = [conn EXCEPT ![s] = "closed"]
  /\ me' = me \ {s}
  /\ IF s \in me THEN Leave(s) ELSE UNCHANGED <<room, down>>
  /\ UNCHANGED <<clientVars, told, evictions>>

\* The server has read all a client sent before its end went, and closes.
Closes(s) ==
  /\ conn[s] \in {"open", "closing"}
  /\ ~Live(s) /\ up[s] = <<>>
  /\ ServerClose(s)
  /\ UNCHANGED <<up, broken>>

\* The socket breaks and the server notices first.
Loses(s) ==
  /\ conn[s] \in {"open", "closing"}
  /\ Live(s) /\ MayBreak
  /\ ServerClose(s)
  /\ up' = [up EXCEPT ![s] = <<>>]
  /\ broken' = broken \cup {s}

-----------------------------------------------------------------------------
\* Here clients only listen; PeerConnections says what they do and send.
Hear(c) == Receive(c) /\ UNCHANGED up

Progressing ==
  \/ \E c \in Client : Retry(c) \/ Opened(c) \/ Hear(c) \/ Notice(c)
  \/ \E s \in Socket : Serve(s) \/ Closes(s)

Breaking ==
  \/ \E c \in Client : ConnectFails(c) \/ Break(c)
  \/ \E s \in Socket : Loses(s)

Living == \E c \in Client : Construct(c) \/ Close(c)

SignalingNext == Progressing \/ Breaking \/ Living

\* What is under way goes on: sockets connect or fail, timers fire, messages
\* arrive, and a client learns that the server has closed its socket. The
\* server sends no pings, so it need not ever notice that a client is gone.
SignalingFairness ==
  /\ \A c \in Client :
       WF_signalingVars(Retry(c) \/ Opened(c) \/ Hear(c) \/ Notice(c))
  /\ \A s \in Socket : WF_signalingVars(Serve(s))

SignalingSpec == SignalingInit /\ [][SignalingNext]_signalingVars /\ SignalingFairness

-----------------------------------------------------------------------------
\* Properties.

\* "presence (who's in a space's room)": the room names, for each device id,
\* exactly the one open socket that has joined under it. The late close of an
\* evicted or a broken socket does not take out its successor.
RoomExact ==
  \A s \in Socket : s \in me /\ conn[s] = "open" <=> room[DeviceAt(s)] = s

\* A client that has joined knows who is present, once it has heard what is
\* on its way to it: no join, leave, eviction or reconnect of another client
\* is missed or told out of order.
PresenceExact ==
  \A c \in Client :
    LET s == Current(c)
    IN  Live(s) /\ s \in me /\ conn[s] = "open" =>
          HeardAll(told[c], down[s])
            = {d \in Device \ {DeviceOf[c]} : room[d] # NoSocket}

\* "an infinite duel": every eviction is paid for by a transport that was
\* constructed under the id or by a socket that broke.
NoDuel ==
  \A d \in Device :
    evictions[d] > 0 =>
      evictions[d] < Cardinality({c \in Client : DeviceOf[c] = d /\ phase[c] # "idle"})
                       + Cardinality({s \in broken : DeviceAt(s) = d})

\* Whatever breaks, every client ends up present, or closed, or told that its
\* device id is taken: a break is noticed and the join made again.
Settled(c) ==
  \/ phase[c] \in {"idle", "conflict", "closed"}
  \/ Live(Current(c)) /\ room[DeviceOf[c]] = Current(c)
EventuallySettled == <>[](\A c \in Client : Settled(c))
=============================================================================
