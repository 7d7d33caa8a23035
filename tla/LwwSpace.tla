------------------------------ MODULE LwwSpace ------------------------------
(***************************************************************************)
(* What a space promises its application, with no clocks, logs or storage: *)
(* devices issue ops, ops are delivered in any order, and every device     *)
(* sees the last-writer-wins merge of exactly what was delivered to it.    *)
(* Devices that were delivered the same ops therefore see the same data.   *)
(***************************************************************************)
EXTENDS Ops

VARIABLES delivered,  \* ops delivered to each device, its own included
          view        \* the winning op of each cell, per device

Init ==
  /\ delivered = [r \in Device |-> {}]
  /\ view = [r \in Device |-> {}]

\* A device's new ops are its own, each under a stamp of its own, and above
\* all it has been delivered: a write replaces what its writer could see.
Issuable(r, ops) ==
  /\ \A o \in ops : Author(o) = r /\ \A p \in delivered[r] : Lt(p.stamp, o.stamp)
  /\ \A o, p \in ops : o.stamp = p.stamp => o = p

Deliverable(ops) == \A o \in ops : \E q \in Device : o \in delivered[q]

\* One device gains a batch of ops, its own or others', and sees the merge.
Gain(r) ==
  LET ops == delivered'[r] \ delivered[r]
  IN  /\ Issuable(r, ops) \/ Deliverable(ops)
      /\ delivered' = [delivered EXCEPT ![r] = @ \cup ops]
      /\ view' = [view EXCEPT ![r] = Winners(delivered'[r])]

Next == \E r \in Device : Gain(r)

Spec == Init /\ [][Next]_<<delivered, view>>
=============================================================================
