--------------------------- MODULE PeerConnections ---------------------------
(***************************************************************************)
(* The peer life cycle of WebRTCTransport                                  *)
(* (packages/transport-webrtc/src/index.ts) over Signaling: connections    *)
(* made on presence, offers, answers and candidates, and their end.        *)
(*                                                                         *)
(* A connection <<c, d, n>> is the n-th that client c makes for device d.  *)
(* An offer, answer or candidate is known by the connection it describes,  *)
(* and each connection has one candidate. RTCPeerConnection itself is      *)
(* external: it runs the calls made on it in order, each call may take     *)
(* time, and a call that is pending when it is closed never settles.       *)
(***************************************************************************)
EXTENDS Signaling

CONSTANTS MaxConns,    \* bound: connections a client makes for one device
          MaxFailures  \* bound: calls that reject and paths that fail

ASSUME PeerAssumption ==
  /\ Device \subseteq Nat
  /\ IsFiniteSet(Device)
  /\ MaxConns \in Nat
  /\ MaxFailures \in Nat

Conn == Client \X Device \X (1 .. MaxConns)
NoConn == <<>>
Description == [kind : {"offer"}, of : Conn] \cup [kind : {"answer"}, of : Conn, to : Conn]
Candidate == [kind : {"ice"}, of : Conn]
Signals == Description \cup Candidate
NoSignal == [kind |-> "none"]

ASSUME BlobAssumption == Blob = Signals

VARIABLES
  peers,     \* this.peers: the connection listed for each device
  pcs,       \* the connections made
  calls,     \* what each client is awaiting, in order
  failures   \* history: failures so far

peerVars == <<peers, pcs, calls, failures>>
meshVars == <<signalingVars, peerVars>>

\* A connection: what has been agreed ("crossed": it took the answer to some
\* other offer), the connection its remote description describes
\* (remoteDescSet: there is one), pendingCandidates, the candidates added,
\* whether its own was sent, and whether the channel opened.
Peer == [state : {"new", "offered", "answering", "stable", "crossed", "closed"},
         remote : Conn \cup {NoConn}, pending : Seq(Conn), added : SUBSET Conn,
         trickled : BOOLEAN, channel : BOOLEAN]
NewPeer == [state |-> "new", remote |-> NoConn, pending |-> <<>>, added |-> {},
            trickled |-> FALSE, channel |-> FALSE]

\* A pending call: an offer being made, with the signal to be handled after
\* it; a remote description being set; an answer being made.
Call == [at : {"offer", "remote", "answer"}, pc : Conn, sig : Signals \cup {NoSignal}]

PeerTypeOK ==
  /\ SignalingTypeOK
  /\ peers \in [Client -> [Device -> Conn \cup {NoConn}]]
  /\ DOMAIN pcs \subseteq Conn
  /\ pcs \in [DOMAIN pcs -> Peer]
  /\ calls \in [Client -> Seq(Call)]
  /\ failures \in 0 .. MaxFailures

PeerInit ==
  /\ SignalingInit
  /\ peers = [c \in Client |-> [d \in Device |-> NoConn]]
  /\ pcs = [p \in {} |-> NewPeer]
  /\ calls = [c \in Client |-> <<>>]
  /\ failures = 0

Open(p) == p \in DOMAIN pcs /\ pcs[p].state # "closed"
Owned(c) == {p \in DOMAIN pcs : p[1] = c}
SignalTo(p, data) == [t |-> "signal", to |-> p[2], data |-> data]

-----------------------------------------------------------------------------
\* ensurePeer and dropPeer.

\* Faulty variant: both sides offer.
BothInitiate(c, d) == TRUE

\* isInitiatorFor: the lower device id offers.
Initiator(c, d) == DeviceOf[c] < d

NextConn(c, d) == <<c, d, 1 + Cardinality({p \in Owned(c) : p[2] = d})>>

\* Faulty variant: ensurePeer does not look whether the device is listed.
MissingAlways(c, ds) == {NextConn(c, d) : d \in ds \ {DeviceOf[c]}}

\* The connections ensurePeer makes: for devices not listed yet.
Missing(c, ds) ==
  {NextConn(c, d) : d \in {e \in ds \ {DeviceOf[c]} : peers[c][e] = NoConn}}

\* The connections, with those of new just made.
Made(new) ==
  [p \in DOMAIN pcs \cup new |-> IF p \in new THEN NewPeer ELSE pcs[p]]

\* ensurePeer for each of ds: an initiator goes on to make an offer, after
\* which the caller goes on with sig.
Ensure(c, ds, sig) ==
  LET new == Missing(c, ds)
      offers == {[at |-> "offer", pc |-> p, sig |-> sig] : p \in {q \in new : Initiator(c, q[2])}}
  IN  /\ new \subseteq Conn
      /\ peers' = [peers EXCEPT ![c] =
           [d \in Device |-> IF NextConn(c, d) \in new THEN NextConn(c, d) ELSE @[d]]]
      /\ pcs' = Made(new)
      /\ calls' = [calls EXCEPT ![c] = @ \o SetToSeq(offers)]
      /\ UNCHANGED failures

\* Faulty variant: the connection is closed and stays listed.
DropKeepingListed(c, d) ==
  /\ UNCHANGED peers
  /\ pcs' = IF peers[c][d] = NoConn THEN pcs
            ELSE [pcs EXCEPT ![peers[c][d]].state = "closed"]

\* dropPeer: whatever is listed for d goes and is closed.
Drop(c, d) ==
  /\ peers' = [peers EXCEPT ![c][d] = NoConn]
  /\ pcs' = IF peers[c][d] = NoConn THEN pcs
            ELSE [pcs EXCEPT ![peers[c][d]].state = "closed"]

\* Everything a client has is gone: close(), or the end of the process.
DropAll(c) ==
  /\ peers' = [peers EXCEPT ![c] = [d \in Device |-> NoConn]]
  /\ pcs' = [p \in DOMAIN pcs |->
               IF p[1] = c THEN [pcs[p] EXCEPT !.state = "closed"] ELSE pcs[p]]
  /\ calls' = [calls EXCEPT ![c] = <<>>]

-----------------------------------------------------------------------------
\* Signaling messages heard.

\* Faulty variant: a candidate ahead of the remote description is added at
\* once, which fails.
TakeCandidateEagerly(peer, of) ==
  IF peer.remote = of THEN [peer EXCEPT !.added = @ \cup {of}] ELSE peer

\* A candidate waits for the remote description, and is refused if it belongs
\* to another one.
TakeCandidate(peer, of) ==
  IF peer.remote = NoConn THEN [peer EXCEPT !.pending = Append(@, of)]
  ELSE IF peer.remote = of THEN [peer EXCEPT !.added = @ \cup {of}]
  ELSE peer

\* handleSignal from the point where it has found the peer: a candidate is
\* dealt with, a description is handed to the connection.
Handled(p, sig, conns) ==
  IF sig.kind = "ice" THEN [conns EXCEPT ![p] = TakeCandidate(@, sig.of)] ELSE conns
Awaited(p, sig) ==
  IF sig.kind = "ice" THEN <<>> ELSE <<[at |-> "remote", pc |-> p, sig |-> sig]>>

\* Faulty variant: only the newcomer connects.
HearPeersOnly(c, m) ==
  /\ m.t \in {"peers", "peer-joined"}
  /\ IF m.t = "peers" THEN Ensure(c, m.devices, NoSignal) ELSE UNCHANGED peerVars

\* peers, peer-joined: connect to whoever is not listed.
HearPresent(c, m) ==
  /\ m.t \in {"peers", "peer-joined"}
  /\ Ensure(c, IF m.t = "peers" THEN m.devices ELSE {m.device}, NoSignal)

\* peer-left.
HearLeft(c, m) ==
  /\ m.t = "peer-left"
  /\ Drop(c, m.device)
  /\ UNCHANGED <<calls, failures>>

\* signal from a device not listed, for which this side makes an offer first.
HearSignalEarly(c, m) ==
  /\ m.t = "signal" /\ peers[c][m.from] = NoConn /\ Initiator(c, m.from)
  /\ Ensure(c, {m.from}, m.data)

\* signal from any other device; an answering side lists it now.
HearSignal(c, m) ==
  /\ m.t = "signal" /\ (peers[c][m.from] = NoConn => ~Initiator(c, m.from))
  /\ LET new == Missing(c, {m.from})
         p == IF new = {} THEN peers[c][m.from] ELSE NextConn(c, m.from)
     IN  /\ new \subseteq Conn
         /\ peers' = [peers EXCEPT ![c][m.from] = p]
         /\ pcs' = Handled(p, m.data, Made(new))
         /\ calls' = [calls EXCEPT ![c] = @ \o Awaited(p, m.data)]
         /\ UNCHANGED failures

HearClose(c, m) == m.t = "close4000" /\ UNCHANGED peerVars

Hears(c) ==
  /\ Receive(c)
  /\ LET m == Head(down[Current(c)])
     IN  \/ HearPresent(c, m) \/ HearLeft(c, m)
         \/ HearSignalEarly(c, m) \/ HearSignal(c, m) \/ HearClose(c, m)
  /\ UNCHANGED up

-----------------------------------------------------------------------------
\* Calls that settle. A connection runs the calls made on it in order.

Ready(c, i, at) ==
  /\ i \in DOMAIN calls[c]
  /\ calls[c][i].at = at
  /\ \A j \in 1 .. i - 1 : calls[c][j].pc # calls[c][i].pc

\* The call at i is over, and the calls `more` are made; msgs are signalled.
Settle(c, i, more, msgs) ==
  /\ calls' = [calls EXCEPT ![c] = RemoveAt(@, i) \o more]
  /\ up' = SigSend(up, c, msgs)
  /\ UNCHANGED <<clientVars, down, serverVars, told, broken, evictions>>

\* createOffer and setLocalDescription: the offer goes out, and a signal that
\* waited for the peer is handled.
Offer(c, i) ==
  /\ Ready(c, i, "offer")
  /\ LET p == calls[c][i].pc
         sig == calls[c][i].sig
     IN  /\ Open(p)
         /\ pcs' = LET conns == [pcs EXCEPT ![p].state = "offered"]
                   IN  IF sig = NoSignal THEN conns ELSE Handled(p, sig, conns)
         /\ Settle(c, i, IF sig = NoSignal THEN <<>> ELSE Awaited(p, sig),
                   <<SignalTo(p, [kind |-> "offer", of |-> p])>>)
  /\ UNCHANGED <<peers, failures>>

\* createOffer or setLocalDescription rejects, of a closed connection too:
\* whatever is listed for the device is dropped, and a signal that waited
\* finds no peer.
OfferFails(c, i) ==
  /\ Ready(c, i, "offer")
  /\ failures < MaxFailures
  /\ failures' = failures + 1
  /\ Drop(c, calls[c][i].pc[2])
  /\ Settle(c, i, <<>>, <<>>)

\* The connection was closed: the call never settles.
NeverSettles(c, i) ==
  /\ \E at \in {"offer", "remote", "answer"} : Ready(c, i, at)
  /\ ~Open(calls[c][i].pc)
  /\ Settle(c, i, <<>>, <<>>)
  /\ UNCHANGED <<peers, pcs, failures>>

\* An answer is refused by a connection that has no offer out, an offer by
\* one that has. An offer of another connection than before may be refused,
\* too: how far a connection can be moved to another is up to the browser.
Applicable(p, sig) ==
  IF sig.kind = "answer" THEN pcs[p].state = "offered" ELSE pcs[p].state # "offered"

\* What a connection becomes with a description.
Agreed(p, sig) ==
  IF sig.kind = "offer" THEN "answering" ELSE IF sig.to = p THEN "stable" ELSE "crossed"

\* setRemoteDescription, and the candidates that waited up to the first that
\* belongs to another description.
WithRemote(p, sig) ==
  [pcs[p] EXCEPT !.state = Agreed(p, sig), !.remote = sig.of, !.pending = <<>>,
                 !.added = IF pcs[p].pending # <<>> /\ Head(pcs[p].pending) = sig.of
                             THEN {sig.of} ELSE {}]

\* A candidate that is refused ends the handler before it makes an answer.
SetRemote(c, i) ==
  /\ Ready(c, i, "remote")
  /\ LET p == calls[c][i].pc
         sig == calls[c][i].sig
         refused == \E of \in ToSet(pcs[p].pending) : of # sig.of
     IN  /\ Open(p) /\ Applicable(p, sig)
         /\ pcs' = [pcs EXCEPT ![p] = WithRemote(p, sig)]
         /\ Settle(c, i,
                   IF sig.kind = "offer" /\ ~refused
                     THEN <<[at |-> "answer", pc |-> p, sig |-> sig]>> ELSE <<>>,
                   <<>>)
  /\ UNCHANGED <<peers, failures>>

Foreign(p, sig) == pcs[p].remote \notin {NoConn, sig.of}

\* setRemoteDescription rejects, and the handler ends.
RejectRemote(c, i) ==
  /\ Ready(c, i, "remote")
  /\ LET p == calls[c][i].pc
         sig == calls[c][i].sig
     IN  Open(p) /\ (~Applicable(p, sig) \/ Foreign(p, sig))
  /\ Settle(c, i, <<>>, <<>>)
  /\ UNCHANGED <<peers, pcs, failures>>

\* createAnswer and setLocalDescription: the answer goes out.
Answer(c, i) ==
  /\ Ready(c, i, "answer")
  /\ LET p == calls[c][i].pc
     IN  /\ Open(p)
         /\ pcs' = [pcs EXCEPT ![p].state = "stable"]
         /\ Settle(c, i, <<>>,
                   <<SignalTo(p, [kind |-> "answer", of |-> p, to |-> pcs[p].remote])>>)
  /\ UNCHANGED <<peers, failures>>

\* createAnswer or setLocalDescription rejects: the error is reported and the
\* peer stays listed.
AnswerFails(c, i) ==
  /\ Ready(c, i, "answer")
  /\ failures < MaxFailures
  /\ failures' = failures + 1
  /\ Settle(c, i, <<>>, <<>>)
  /\ UNCHANGED <<peers, pcs>>

-----------------------------------------------------------------------------
\* What connections do of themselves (external).

\* onicecandidate, once a local description is being set.
CanTrickle(p) ==
  /\ Open(p) /\ ~pcs[p].trickled
  /\ Initiator(p[1], p[2]) \/ pcs[p].state \in {"answering", "stable"}

\* Faulty variant: the null candidate that ends gathering is signalled, too.
TrickleNull(p) ==
  /\ CanTrickle(p)
  /\ pcs' = [pcs EXCEPT ![p].trickled = TRUE]
  /\ up' = SigSend(up, p[1], <<SignalTo(p, [kind |-> "ice", of |-> p]),
                               SignalTo(p, [kind |-> "ice", of |-> NoConn])>>)
  /\ UNCHANGED <<clientVars, down, serverVars, told, broken, evictions,
                 peers, calls, failures>>

Trickle(p) ==
  /\ CanTrickle(p)
  /\ pcs' = [pcs EXCEPT ![p].trickled = TRUE]
  /\ up' = SigSend(up, p[1], <<SignalTo(p, [kind |-> "ice", of |-> p])>>)
  /\ UNCHANGED <<clientVars, down, serverVars, told, broken, evictions,
                 peers, calls, failures>>

\* Two connections that describe each other, one of which can reach the
\* other's candidate.
Matched(p, q) == Open(p) /\ Open(q) /\ pcs[p].remote = q /\ pcs[q].remote = p
CanOpen(p) ==
  /\ Open(p) /\ ~pcs[p].channel
  /\ LET q == pcs[p].remote
     IN  /\ q # NoConn /\ Matched(p, q)
         /\ pcs[p].state = "stable" /\ pcs[q].state = "stable"
         /\ q \in pcs[p].added \/ p \in pcs[q].added

\* The data channel opens: onopen, which attachChannel has set.
ChannelOpens(p) ==
  /\ CanOpen(p)
  /\ pcs' = [pcs EXCEPT ![p].channel = TRUE]
  /\ UNCHANGED <<signalingVars, peers, calls, failures>>

\* The other end is closed or describes another connection, or the answer was
\* to another offer.
CanFail(p) ==
  /\ Open(p)
  /\ LET q == pcs[p].remote
     IN  q # NoConn /\ (~Open(q) \/ pcs[q].remote \notin {NoConn, p}
                         \/ "crossed" \in {pcs[p].state, pcs[q].state})

\* onconnectionstatechange or the channel's onclose: the peer is dropped. onclose
\* compares the channel, onconnectionstatechange compares nothing: a connection
\* that is no longer listed has been closed by dropPeer, and a connection closed
\* by close() is taken to fire no state change.
Fails(p) ==
  /\ CanFail(p)
  /\ Drop(p[1], p[2])
  /\ UNCHANGED <<signalingVars, calls, failures>>

\* The path between two connections breaks, and one end notices first.
PathBreaks(p) ==
  /\ Open(p) /\ pcs[p].channel
  /\ failures < MaxFailures
  /\ failures' = failures + 1
  /\ Drop(p[1], p[2])
  /\ UNCHANGED <<signalingVars, calls>>

-----------------------------------------------------------------------------
\* The signaling actions that leave connections alone, and those that end them.
Ends(c) == Close(c) /\ DropAll(c) /\ UNCHANGED failures

Settling ==
  \E c \in Client : \E i \in DOMAIN calls[c] :
    \/ Offer(c, i) \/ NeverSettles(c, i)
    \/ SetRemote(c, i) \/ RejectRemote(c, i) \/ Answer(c, i)

Networking ==
  \/ \E c \in Client : (Retry(c) \/ Opened(c) \/ Notice(c)) /\ UNCHANGED peerVars
  \/ \E s \in Socket : (Serve(s) \/ Closes(s)) /\ UNCHANGED peerVars
  \/ \E c \in Client : Hears(c)

Connecting == \E p \in DOMAIN pcs : Trickle(p) \/ ChannelOpens(p) \/ Fails(p)

PeerFailing ==
  \/ \E c \in Client : \E i \in DOMAIN calls[c] : OfferFails(c, i) \/ AnswerFails(c, i)
  \/ \E p \in DOMAIN pcs : PathBreaks(p)

Constructing(c) == Construct(c) /\ UNCHANGED peerVars

PeerNext ==
  \/ Settling \/ Networking \/ Connecting \/ PeerFailing
  \/ Breaking /\ UNCHANGED peerVars
  \/ \E c \in Client : Constructing(c) \/ Ends(c)

PeerSpec == PeerInit /\ [][PeerNext]_meshVars

\* What the browser and the network owe: pending calls settle, messages are
\* carried, channels between matched connections open, and a connection whose
\* other end is gone fails.
PeerFairness == WF_meshVars(Settling \/ Networking \/ Connecting)

-----------------------------------------------------------------------------
\* Properties.

\* Every connection is listed or closed: replacing, dropping, failing and
\* closing never leave one running that send() does not reach, and a closed
\* transport runs none.
NoStrayConnections ==
  \A c \in Client :
    /\ {p \in Owned(c) : Open(p)} = {peers[c][d] : d \in Device} \ {NoConn}
    /\ phase[c] \in {"idle", "closed"} => \A d \in Device : peers[c][d] = NoConn

\* "Only one side ever offers, so the classic both-offer-simultaneously race
\* cannot occur": an offer that is being applied meets no offer of its own
\* side, whatever fails, breaks or comes back.
OneSideOffers ==
  \A c \in Client : \A i \in DOMAIN calls[c] :
    LET call == calls[c][i]
    IN  call.at = "remote" /\ call.sig.kind = "offer" /\ call.pc \in DOMAIN pcs =>
          pcs[call.pc].state # "offered"

\* An answer is applied to the connection that made the offer it answers, not
\* to a later one under the same device id, as long as nothing has failed.
AnswersMatch ==
  failures = 0 => \A c \in Client : \A i \in DOMAIN calls[c] :
    LET call == calls[c][i]
    IN  call.at = "remote" /\ call.sig.kind = "answer" /\ Open(call.pc) =>
          call.sig.to = call.pc

\* Nothing is under way: no message, no call, no retry, nothing that a
\* connection will do of itself.
Quiet ==
  /\ \A c \in Client :
       /\ phase[c] \notin {"connecting", "waiting"}
       /\ calls[c] = <<>>
       /\ phase[c] = "open" => conn[Current(c)] # "closed"
  /\ \A s \in Socket :
       /\ up[s] = <<>> /\ down[s] = <<>>
       /\ conn[s] \in {"open", "closing"} => Live(s)
  /\ \A p \in DOMAIN pcs : ~CanTrickle(p) /\ ~CanOpen(p) /\ ~CanFail(p)

Present(c) == Live(Current(c)) /\ room[DeviceOf[c]] = Current(c)

Connected(c, d) ==
  LET p == peers[c][DeviceOf[d]]
      q == peers[d][DeviceOf[c]]
  IN  /\ p # NoConn /\ q # NoConn
      /\ Matched(p, q) /\ pcs[p].channel /\ pcs[q].channel

Meshed ==
  \A c, d \in Client : Present(c) /\ Present(d) /\ c # d => Connected(c, d)

\* Presence connects: when all is quiet, any two clients present in the room
\* have an open channel to each other. index.ts promises that "peer
\* connections are rebuilt on rejoin".
MeshComplete ==
  Quiet => Meshed

\* A candidate that reached a client is not lost: when all is quiet, matched
\* connections have each other's.
CandidatesKept ==
  Quiet /\ failures = 0 => \A c, d \in Client : Connected(c, d) =>
    peers[d][DeviceOf[c]] \in pcs[peers[c][DeviceOf[d]]].added

\* Once clients stop coming and going, any two that are present get an open
\* channel to each other, and keep it unless it fails.
EventuallyMeshed ==
  <>[](failures = 0 => Meshed)
=============================================================================
