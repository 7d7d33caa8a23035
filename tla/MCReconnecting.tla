--------------------------- MODULE MCReconnecting ---------------------------
(***************************************************************************)
(* Two environments of replicators over links, one chosen at the start:    *)
(* links that drop and processes that crash, or faults on an open link.    *)
(***************************************************************************)
EXTENDS MCReplicator

VARIABLE faulty  \* the environment chosen

\* A session that ends is followed by another. Of the two replicas it is the
\* first that has ops by then.
Dropping ==
  /\ sessions < MaxSessions
  /\ \A o \in Issued : Author(o) = 1
  /\ \/ \E p, q \in Device : p < q /\ Disconnect(p, q)
     \/ \E r \in Crashers : Crash(r)

\* Edits made before anyone connects and over the last link, links that come
\* and go, processes that crash; nothing is lost on an open link. The wall
\* clocks stand still.
Reconnecting ==
  /\ PromptFirst(\/ sessions \in {0, MaxSessions} /\ CarefulEditing
                 \/ NoUpdate /\ (Handling \/ Connecting \/ Dropping))
  /\ \A r \in Device : mem'[r].millis = 0

\* One op, one session, and anything that can go wrong with a message or a
\* handler.
Faulty ==
  /\ HelloFirst(\/ CarefulEditing
                \/ NoUpdate /\ (Handling \/ Connecting \/ Faults))
  /\ sessions' <= 1
  /\ \A r \in Device : draft'[r] # {} => r = 1 /\ Issued = {}

EitherInit == AllStarted /\ faulty \in BOOLEAN

ReconnectingSpec ==
  /\ EitherInit
  /\ [][(IF faulty THEN Faulty ELSE Reconnecting) /\ UNCHANGED faulty]_<<allVars, faulty>>
=============================================================================
