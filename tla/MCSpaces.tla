------------------------------ MODULE MCSpaces ------------------------------
(***************************************************************************)
(* Constants of Spaces for TLC: a device that may generate two keys, a     *)
(* peer with writes of its own, and two rows.                              *)
(***************************************************************************)
EXTENDS Spaces

Peer == 3
Stranger == 4
Cell(row, column, value) == [row |-> row, column |-> column, value |-> value]
SomeWrites == {Cell(1, "c", FALSE), Cell(1, Tombstone, TRUE)}

PeerStamp(c) == [millis |-> 0, counter |-> c, device |-> Peer]
PeerBatches == {{OpOf(PeerStamp(1), Cell(1, "c", TRUE)), OpOf(PeerStamp(2), Cell(2, "c", TRUE))}}

SeenByPeer == [EmptyFrontier EXCEPT ![Peer] = PeerStamp(2), ![1] = StampOf([millis |-> 0, counter |-> 5], 1)]
SomeRecordings == {[peer |-> Peer, have |-> SeenByPeer],
                   [peer |-> Stranger, have |-> EmptyFrontier]}
=============================================================================
