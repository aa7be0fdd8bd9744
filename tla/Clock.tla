------------------------------- MODULE Clock --------------------------------
(***************************************************************************)
(* The hybrid logical clock of one device (hlc.Clock as pkg/client uses    *)
(* it): local events, timestamps received from anywhere, a wall clock that *)
(* may read anything, and Open, which builds a new Clock.                  *)
(***************************************************************************)
EXTENDS HLC

CONSTANTS
  Node,        \* the device
  Nodes,       \* whose timestamps it may observe, its own included
  Reading      \* what wall clocks, here and elsewhere, may read

ASSUME NodeAssumption    == Node \in Nat /\ Nodes \subseteq Nat
ASSUME ReadingAssumption == Reading \subseteq Nat

VARIABLES
  last,    \* Clock.last
  seen,    \* history: the greatest timestamp produced or observed since Open
  ever     \* history: the greatest one that the device has ever seen

clockVars == <<last, seen, ever>>

Remote == [physical : Reading, logical : 0 .. LogicalMod - 1, node : Nodes]

\* Bound: the uint32 counters stay clear of their last value, which takes
\* 2^32 events within one reading of the wall clock to reach.
Room(t) == t.logical < LogicalMod - 1

Greatest(t, u) == IF After(t, u) THEN t ELSE u

ClockInit == last = ZeroStamp /\ seen = ZeroStamp /\ ever = ZeroStamp

\* Clock.Now; the timestamp it returns is the new last.
Tick ==
  /\ Room(last)
  /\ \E phys \in Reading : last' = Now(last, phys, Node)
  /\ seen' = Greatest(last', seen)
  /\ ever' = Greatest(last', ever)

\* Clock.Observe; its result counts as produced too.
Receive ==
  \E remote \in Remote :
    /\ Room(last) /\ Room(remote)
    /\ \E phys \in Reading : last' = Observe(last, phys, remote, Node)
    /\ seen' = Greatest(last', Greatest(remote, seen))
    /\ ever' = Greatest(last', Greatest(remote, ever))

\* Close and Open: NewClock remembers nothing.
Reopen ==
  /\ last' = ZeroStamp /\ seen' = ZeroStamp
  /\ UNCHANGED ever

ClockNext == Tick \/ Receive \/ Reopen

ClockSpec == ClockInit /\ [][ClockNext]_clockVars

-----------------------------------------------------------------------------
ClockTypeOK == last \in Timestamp /\ seen \in Timestamp /\ ever \in Timestamp

\* The clock is never behind anything it has produced or observed since Open,
\* however the wall clock jumps (the invariant that Now and Observe maintain
\* together).
NeverBehind == ~After(seen, last)

\* What Now and Observe return is strictly greater than every timestamp before
\* it (the comment on Now), up to the next Open.
SortsAfterAllSeen == [][last' # ZeroStamp => After(last', seen)]_clockVars

\* A reopened clock is level again with everything the device has ever seen as
\* soon as anything is newer than that (Observe after Open).
CatchesUp == [][ever' # ever => last' = ever']_clockVars

=============================================================================
