------------------------- MODULE MCPeerConnections -------------------------
(***************************************************************************)
(* Constants and environments of PeerConnections for TLC.                  *)
(***************************************************************************)
EXTENDS PeerConnections

CONSTANTS a, b, b1, b2

Pair == (a :> 1) @@ (b :> 2)
AnswererReloads == (a :> 1) @@ (b1 :> 2) @@ (b2 :> 2)

\* Signaling, connections and the calls on them, with nothing failing.
Working == Settling \/ Networking \/ Connecting

\* Every trace of a device's earlier client is gone: the server has closed
\* its sockets, the others have heard of it and dropped what they listed for
\* it, and nothing is on its way to it.
Gone(x) ==
  \A y \in Client \ {x} : DeviceOf[y] = DeviceOf[x] =>
    /\ phase[y] \in {"idle", "closed"}
    /\ phase[y] = "closed" => \A s \in Socket :
         /\ s[1] = y => conn[s] \in {"none", "closed"}
         /\ up[s] = <<>> /\ down[s] = <<>>
         /\ peers[s[1]][DeviceOf[x]] = NoConn

\* Clients come and go; a device comes back once it has been seen leaving. A
\* call or a path may fail while nobody has left, and then nobody comes or goes
\* any more.
CarefulReload ==
  /\ PeerInit
  /\ [][\/ Working
        \/ (\A x \in Client : phase[x] # "closed") /\ PeerFailing
        \/ failures = 0 /\ \E x \in Client : (Gone(x) /\ Constructing(x)) \/ Ends(x)]_meshVars
  /\ PeerFairness

\* Signaling sockets break; nobody leaves.
Rejoin ==
  PeerInit
  /\ [][Working \/ (Breaking /\ UNCHANGED peerVars) \/ \E x \in Client : Constructing(x)]_meshVars
=============================================================================
