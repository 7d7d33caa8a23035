-------------------------------- MODULE Hlc --------------------------------
(***************************************************************************)
(* The hybrid logical clock of packages/core/src/hlc.ts: the stamps that   *)
(* name and order every operation, and the two rules that move a clock.    *)
(*                                                                         *)
(* A stamp's string form has fixed-width fields, so comparing strings is   *)
(* comparing (millis, counter, device); stamps are records here, and a     *)
(* device id is a positive number standing for its rank among the ids.     *)
(***************************************************************************)
EXTENDS Integers

CONSTANTS Device,      \* the device ids, ordered as their hex strings are
          MaxCounter,  \* MAX_COUNTER: the last counter value of a millisecond
          MaxMillis,   \* MAX_MILLIS: the last millisecond a stamp can hold
          MaxDrift     \* MAX_DRIFT_MS: how far ahead a remote stamp may be

ASSUME HlcAssumption ==
  /\ Device \subseteq Nat \ {0}
  /\ MaxCounter \in Nat
  /\ MaxMillis \in Nat
  /\ MaxDrift \in Nat

Clock == [millis : Nat, counter : 0 .. MaxCounter]
Stamp == [millis : Nat, counter : 0 .. MaxCounter, device : Device]

\* The frontier entry of a device nothing has been seen from; it is below
\* every stamp, as the empty string is below every encoded one.
Zero == [millis |-> 0, counter |-> 0, device |-> 0]
StampOrZero == Stamp \cup {Zero}

FreshClock == [millis |-> 0, counter |-> 0]
StampOf(clock, d) ==
  [millis |-> clock.millis, counter |-> clock.counter, device |-> d]

-----------------------------------------------------------------------------
\* The orders: of clock readings, and of whole stamps (compareHlc).

Earlier(a, b) ==
  \/ a.millis < b.millis
  \/ a.millis = b.millis /\ a.counter < b.counter

SameTime(a, b) == a.millis = b.millis /\ a.counter = b.counter
NotAfter(a, b) == Earlier(a, b) \/ SameTime(a, b)

Lt(a, b)  == Earlier(a, b) \/ (SameTime(a, b) /\ a.device < b.device)
Leq(a, b) == Lt(a, b) \/ (SameTime(a, b) /\ a.device = b.device)

-----------------------------------------------------------------------------
\* The clock rules.

\* Faulty variant: one value too late.
CarryLate(millis, counter) ==
  IF counter > MaxCounter + 1 THEN [millis |-> millis + 1, counter |-> 0]
                              ELSE [millis |-> millis, counter |-> counter]

\* A counter past MAX_COUNTER rolls over into the next millisecond.
Carry(millis, counter) ==
  IF counter > MaxCounter THEN [millis |-> millis + 1, counter |-> 0]
                          ELSE [millis |-> millis, counter |-> counter]

\* Faulty variant: the clock follows the wall clock even when it steps back.
NowFollowsWallClock(clock, pt) ==
  IF pt # clock.millis THEN [millis |-> pt, counter |-> 0]
                       ELSE Carry(clock.millis, clock.counter + 1)

\* now(): a local event. pt is what the physical clock reads at the call.
Now(clock, pt) ==
  IF pt > clock.millis THEN [millis |-> pt, counter |-> 0]
                       ELSE Carry(clock.millis, clock.counter + 1)

Larger(a, b) == IF a < b THEN b ELSE a

\* Faulty variant: the remote counter is forgotten when the millis are tied.
ReceiveKeepsCounter(clock, remote, pt) ==
  LET m == Larger(Larger(clock.millis, remote.millis), pt)
  IN  Carry(m, IF m = clock.millis THEN clock.counter + 1
               ELSE IF m = remote.millis THEN remote.counter + 1
               ELSE 0)

\* receive(): observing a remote stamp, once the drift check has passed.
Receive(clock, remote, pt) ==
  LET m == Larger(Larger(clock.millis, remote.millis), pt)
      c == IF m = clock.millis /\ m = remote.millis
             THEN Larger(clock.counter, remote.counter) + 1
           ELSE IF m = clock.millis  THEN clock.counter + 1
           ELSE IF m = remote.millis THEN remote.counter + 1
           ELSE 0
  IN  Carry(m, c)

\* receive() throws ClockDriftError, and leaves the clock alone, otherwise.
DriftOk(remote, pt) == remote.millis <= pt + MaxDrift

\* checkBounds() throws when this fails; the clock has already moved by then.
InBounds(clock) == clock.millis <= MaxMillis
============================================================================
