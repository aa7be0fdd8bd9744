----------------------------- MODULE ClockProofs -----------------------------
(***************************************************************************)
(* Proofs about the hybrid logical clock: After is a strict total order,   *)
(* Now and Observe go beyond their arguments as long as the counters do    *)
(* not wrap, and so a clock never issues, between two Opens, a timestamp   *)
(* at or below one it has produced or observed.                            *)
(***************************************************************************)
EXTENDS Clock, TLAPS

-----------------------------------------------------------------------------
(***************************************************************************)
(* The order on timestamps (Timestamp.Compare).                            *)
(***************************************************************************)

\* Timestamp.Compare never puts a timestamp after itself.
LEMMA AfterIrreflexive ==
  ASSUME NEW t \in Timestamp
  PROVE  ~After(t, t)
BY DEF After, Timestamp

\* Timestamp.Compare orders any three timestamps consistently.
LEMMA AfterTransitive ==
  ASSUME NEW t \in Timestamp, NEW u \in Timestamp, NEW v \in Timestamp,
         After(t, u), After(u, v)
  PROVE  After(t, v)
BY DEF After, Timestamp

\* Timestamp.Compare returns 0 for equal timestamps only: "a strict total
\* order".
LEMMA AfterTotal ==
  ASSUME NEW t \in Timestamp, NEW u \in Timestamp
  PROVE  t = u \/ After(t, u) \/ After(u, t)
<1>1. t = [physical |-> t.physical, logical |-> t.logical, node |-> t.node]
  BY DEF Timestamp
<1>2. u = [physical |-> u.physical, logical |-> u.logical, node |-> u.node]
  BY DEF Timestamp
<1>3. t.physical = u.physical /\ t.logical = u.logical /\ t.node = u.node => t = u
  BY <1>1, <1>2
<1>. QED  BY <1>3 DEF After, Timestamp

\* Anything after t is after everything t is not behind.
LEMMA AfterNotBehind ==
  ASSUME NEW t \in Timestamp, NEW u \in Timestamp, NEW v \in Timestamp,
         After(t, u), ~After(v, u)
  PROVE  After(t, v)
<1>1. v = u \/ After(u, v)
  BY AfterTotal
<1>. QED  BY <1>1, AfterTransitive

-----------------------------------------------------------------------------
(***************************************************************************)
(* The two update rules, away from the end of the uint32 counters.         *)
(***************************************************************************)

\* Without a wrap, logical + 1 is logical + 1.
LEMMA SuccWithoutWrap ==
  ASSUME NEW l \in Nat, l < LogicalMod - 1
  PROVE  Succ32(l) = l + 1
BY LogicalModAssumption DEF Succ32

\* The larger of two numbers is one of them and not below either.
LEMMA LargerBounds ==
  ASSUME NEW a \in Nat, NEW b \in Nat
  PROVE  /\ Larger(a, b) \in {a, b}
         /\ Larger(a, b) >= a
         /\ Larger(a, b) >= b
BY DEF Larger

\* Clock.Now returns a timestamp greater than the clock's last one, whatever
\* the wall clock reads.
LEMMA NowAfter ==
  ASSUME NEW t \in Timestamp, NEW phys \in Nat, NEW n \in Nat, Room(t)
  PROVE  Now(t, phys, n) \in Timestamp /\ After(Now(t, phys, n), t)
<1>1. t.physical \in Nat /\ t.logical \in Nat /\ t.node \in Nat
  BY DEF Timestamp
<1>2. Succ32(t.logical) = t.logical + 1
  BY <1>1, SuccWithoutWrap DEF Room
<1>. QED  BY <1>1, <1>2 DEF Now, Larger, After, Timestamp

\* Clock.Observe returns a timestamp greater than both the clock's last one
\* and the observed one.
LEMMA ObserveAfter ==
  ASSUME NEW t \in Timestamp, NEW phys \in Nat, NEW r \in Timestamp,
         NEW n \in Nat, Room(t), Room(r)
  PROVE  /\ Observe(t, phys, r, n) \in Timestamp
         /\ After(Observe(t, phys, r, n), t)
         /\ After(Observe(t, phys, r, n), r)
<1>1. /\ t.physical \in Nat /\ t.logical \in Nat /\ t.node \in Nat
      /\ r.physical \in Nat /\ r.logical \in Nat /\ r.node \in Nat
  BY DEF Timestamp
<1> DEFINE p  == Larger(phys, Larger(t.physical, r.physical))
           lg == Larger(t.logical, r.logical)
           o  == Observe(t, phys, r, n)
<1>2. p \in Nat /\ p >= t.physical /\ p >= r.physical
  BY <1>1 DEF Larger
<1>3. lg \in Nat /\ lg >= t.logical /\ lg >= r.logical /\ lg < LogicalMod - 1
  BY <1>1, LogicalModAssumption DEF Larger, Room
<1>4. /\ Succ32(t.logical) = t.logical + 1
      /\ Succ32(r.logical) = r.logical + 1
      /\ Succ32(lg) = lg + 1
  BY <1>1, <1>3, SuccWithoutWrap DEF Room
<1>5. o.physical = p /\ o.node = n /\ o = [physical |-> p, logical |-> o.logical, node |-> n]
  BY DEF Observe
<1>6. CASE p = t.physical /\ p = r.physical
  <2>1. o.logical = lg + 1
    BY <1>6, <1>4 DEF Observe
  <2>. QED  BY <2>1, <1>1, <1>2, <1>3, <1>5, <1>6 DEF After, Timestamp
<1>7. CASE p = t.physical /\ p # r.physical
  <2>1. o.logical = t.logical + 1
    BY <1>7, <1>4 DEF Observe
  <2>. QED  BY <2>1, <1>1, <1>2, <1>5, <1>7 DEF After, Timestamp
<1>8. CASE p # t.physical /\ p = r.physical
  <2>1. o.logical = r.logical + 1
    BY <1>8, <1>4 DEF Observe
  <2>. QED  BY <2>1, <1>1, <1>2, <1>5, <1>8 DEF After, Timestamp
<1>9. CASE p # t.physical /\ p # r.physical
  <2>1. o.logical = 0
    BY <1>9 DEF Observe
  <2>. QED  BY <2>1, <1>1, <1>2, <1>5, <1>9 DEF After, Timestamp
<1>. QED  BY <1>6, <1>7, <1>8, <1>9

-----------------------------------------------------------------------------
(***************************************************************************)
(* The clock.                                                              *)
(***************************************************************************)

ClockInv == ClockTypeOK /\ NeverBehind

LEMMA ClockInitial == ClockInit => ClockInv
<1>1. ZeroStamp \in Timestamp
  BY DEF ZeroStamp, Timestamp
<1>. QED  BY <1>1, AfterIrreflexive DEF ClockInit, ClockInv, ClockTypeOK, NeverBehind

\* Every event of the clock leaves it strictly after all of the past since
\* Open, and level with everything ever if that is news.
LEMMA ClockStep ==
  ASSUME ClockInv, ClockNext
  PROVE  /\ ClockInv'
         /\ last' # ZeroStamp => After(last', seen)
         /\ ever' # ever => last' = ever'
<1>1. /\ last \in Timestamp /\ seen \in Timestamp /\ ever \in Timestamp
      /\ ~After(seen, last)
  BY DEF ClockInv, ClockTypeOK, NeverBehind
<1>2. CASE Tick
  <2>1. PICK phys \in Reading : last' = Now(last, phys, Node)
    BY <1>2 DEF Tick
  <2>2. last' \in Timestamp /\ After(last', last)
    BY <2>1, <1>1, <1>2, NowAfter, NodeAssumption, ReadingAssumption DEF Tick
  <2>3. After(last', seen)
    BY <2>2, <1>1, AfterNotBehind
  <2>4. seen' = last' /\ ever' \in {last', ever}
    BY <2>3, <1>2 DEF Tick, Greatest
  <2>. QED  BY <1>1, <2>2, <2>3, <2>4, AfterIrreflexive
            DEF ClockInv, ClockTypeOK, NeverBehind
<1>3. CASE Receive
  <2>1. PICK remote \in Remote, phys \in Reading :
          /\ Room(last) /\ Room(remote)
          /\ last' = Observe(last, phys, remote, Node)
          /\ seen' = Greatest(last', Greatest(remote, seen))
          /\ ever' = Greatest(last', Greatest(remote, ever))
    BY <1>3 DEF Receive
  <2>2. remote \in Timestamp
    <3>1. 0 .. LogicalMod - 1 \subseteq Nat
      BY LogicalModAssumption
    <3>. QED  BY <3>1, NodeAssumption, ReadingAssumption DEF Remote, Timestamp
  <2>3. last' \in Timestamp /\ After(last', last) /\ After(last', remote)
    BY <2>1, <2>2, <1>1, ObserveAfter, NodeAssumption, ReadingAssumption
  <2>4. After(last', seen)
    BY <2>3, <1>1, AfterNotBehind
  <2>5. seen' = last' /\ ever' \in {last', ever}
    BY <2>1, <2>3, <2>4 DEF Greatest
  <2>. QED  BY <1>1, <2>3, <2>4, <2>5, AfterIrreflexive
            DEF ClockInv, ClockTypeOK, NeverBehind
<1>4. CASE Reopen
  <2>1. last' = ZeroStamp /\ seen' = ZeroStamp /\ ever' = ever
    BY <1>4 DEF Reopen
  <2>2. ZeroStamp \in Timestamp
    BY DEF ZeroStamp, Timestamp
  <2>. QED  BY <1>1, <2>1, <2>2, AfterIrreflexive DEF ClockInv, ClockTypeOK, NeverBehind
<1>. QED  BY <1>2, <1>3, <1>4 DEF ClockNext

LEMMA ClockStutter == ClockInv /\ UNCHANGED clockVars => ClockInv'
BY DEF clockVars, ClockInv, ClockTypeOK, NeverBehind

\* hlc.Clock is never behind a timestamp it has produced or observed since
\* Open, for any readings of the wall clock and any remote timestamps, as long
\* as the counters do not wrap.
THEOREM ClockNeverBehind == ClockSpec => [](ClockTypeOK /\ NeverBehind)
<1>1. ClockInv /\ [ClockNext]_clockVars => ClockInv'
  BY ClockStep, ClockStutter
<1>. QED  BY <1>1, ClockInitial, PTL DEF ClockSpec, ClockInv

\* What Clock.Now and Clock.Observe return is strictly greater than everything
\* before, up to the next Open (the comment on Now).
THEOREM ClockSortsAfterAllSeen == ClockSpec => SortsAfterAllSeen
<1>1. ClockInv /\ [ClockNext]_clockVars =>
        ClockInv' /\ [last' # ZeroStamp => After(last', seen)]_clockVars
  BY ClockStep, ClockStutter
<1>. QED  BY <1>1, ClockInitial, PTL DEF ClockSpec, SortsAfterAllSeen

\* A reopened clock is level with everything the device has ever seen as soon
\* as it produces or observes anything newer than that.
THEOREM ClockCatchesUp == ClockSpec => CatchesUp
<1>1. ClockInv /\ [ClockNext]_clockVars =>
        ClockInv' /\ [ever' # ever => last' = ever']_clockVars
  BY ClockStep, ClockStutter
<1>. QED  BY <1>1, ClockInitial, PTL DEF ClockSpec, CatchesUp

=============================================================================
