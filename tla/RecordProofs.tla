---------------------------- MODULE RecordProofs -----------------------------
(***************************************************************************)
(* The records.  What they promise determines them: replicas that hold the *)
(* same ops have the same records.  Resolve keeps that promise one op at a *)
(* time and in any order.  What a device's record knows is right as long as*)
(* a local write and a pull do not work on one record at the same time and *)
(* none is broken off between AppendOp and PutRecord; which value it shows *)
(* is right if the device's own timestamps, besides, only grow.            *)
(***************************************************************************)
EXTENDS OrderProofs

\* Two timestamps are never each after the other (Timestamp.Compare).
LEMMA AfterAsymmetric ==
  ASSUME NEW t \in Timestamp, NEW u \in Timestamp, After(t, u)
  PROVE  ~After(u, t)
BY DEF After, Timestamp

\* A vector that knows another is nowhere below it (Vector.Compare).
LEMMA KnowsBounds ==
  ASSUME NEW v \in VectorType, NEW w \in VectorType, Knows(v, w), NEW n \in Device
  PROVE  w[n] <= v[n]
<1>1. ~Greater(w, v)
  BY DEF Knows, Compare
<1>. QED  BY <1>1 DEF Greater, VectorType

\* A set of ops resolves to one record only.
LEMMA ResolvedUnique ==
  ASSUME NEW ops \in SUBSET Op, NEW x \in Record, NEW y \in Record,
         Resolved(x, ops), Resolved(y, ops)
  PROVE  x = y
<1>1. CASE ops = {}
  BY <1>1 DEF Resolved
<1>2. CASE ops # {}
  <2>1. PICK top \in ops :
          /\ \A op \in ops : op = top \/ After(top.hlc, op.hlc)
          /\ [x EXCEPT !.vv = ZeroVector] = [FromOp(top) EXCEPT !.vv = ZeroVector]
          /\ \A op \in ops : Knows(x.vv, op.vv)
          /\ \A n \in Device : \E op \in ops : x.vv[n] = op.vv[n]
    BY <1>2 DEF Resolved
  <2>2. PICK best \in ops :
          /\ \A op \in ops : op = best \/ After(best.hlc, op.hlc)
          /\ [y EXCEPT !.vv = ZeroVector] = [FromOp(best) EXCEPT !.vv = ZeroVector]
          /\ \A op \in ops : Knows(y.vv, op.vv)
          /\ \A n \in Device : \E op \in ops : y.vv[n] = op.vv[n]
    BY <1>2 DEF Resolved
  <2>3. top = best
    BY <2>1, <2>2, AfterAsymmetric DEF Op
  <2>4. [x EXCEPT !.vv = ZeroVector] = [y EXCEPT !.vv = ZeroVector]
    BY <2>1, <2>2, <2>3
  <2>5. /\ x.found = y.found /\ x.win = y.win /\ x.deleted = y.deleted
        /\ x.hlc = y.hlc
    <3> DEFINE bare(z) == [z EXCEPT !.vv = ZeroVector]
    <3>1. \A z \in Record : /\ bare(z).found = z.found /\ bare(z).win = z.win
                            /\ bare(z).deleted = z.deleted /\ bare(z).hlc = z.hlc
      BY DEF Record
    <3>2. bare(x) = bare(y)
      BY <2>4
    <3> HIDE DEF bare
    <3>. QED  BY <3>1, <3>2
  <2>6. x.vv \in VectorType /\ y.vv \in VectorType /\ \A op \in ops : op.vv \in VectorType
    BY DEF Record, Op
  <2>7. ASSUME NEW n \in Device
        PROVE  x.vv[n] = y.vv[n]
    <3>1. PICK a \in ops : x.vv[n] = a.vv[n]
      BY <2>1
    <3>2. PICK b \in ops : y.vv[n] = b.vv[n]
      BY <2>2
    <3>3. a.vv[n] <= y.vv[n] /\ b.vv[n] <= x.vv[n]
      BY <2>1, <2>2, <2>6, KnowsBounds
    <3>4. x.vv[n] \in Nat /\ y.vv[n] \in Nat
      BY <2>6 DEF VectorType
    <3>. QED  BY <3>1, <3>2, <3>3, <3>4
  <2>8. x.vv = y.vv
    BY <2>6, <2>7 DEF VectorType
  <2>. QED  BY <2>5, <2>8 DEF Record
<1>. QED  BY <1>1, <1>2

\* "Any device that sees the same set of writes computes the identical outcome"
\* (ARCHITECTURE): where DeviceRecords holds, two devices with the same log and
\* nothing half applied show the same records, whatever order the ops came in.
THEOREM SameOpsSameRecords ==
  ASSUME TypeOK, DeviceRecords, NEW d \in Device, NEW e \in Device,
         SettledDevice(d), SettledDevice(e), log[d] = log[e]
  PROVE  rec[d] = rec[e]
<1>1. /\ rec[d] \in [RecordId -> Record] /\ rec[e] \in [RecordId -> Record]
      /\ log[d] \in SUBSET Op
  BY DEF TypeOK
<1>2. ASSUME NEW r \in RecordId
      PROVE  rec[d][r] = rec[e][r]
  <2>1. Resolved(rec[d][r], OpsOn(log[d], r)) /\ Resolved(rec[e][r], OpsOn(log[d], r))
    BY DEF DeviceRecords
  <2>2. OpsOn(log[d], r) \in SUBSET Op
    BY <1>1 DEF OpsOn
  <2>. QED  BY <1>1, <2>1, <2>2, ResolvedUnique
<1>. QED  BY <1>1, <1>2

\* The same of the server (ServerRecords) and a device that hold the same ops.
THEOREM ServerAgrees ==
  ASSUME TypeOK, DeviceRecords, ServerRecords, NEW d \in Device,
         SettledDevice(d), SettledServer, log[d] = ServerOps
  PROVE  rec[d] = serverRec
<1>1. /\ rec[d] \in [RecordId -> Record] /\ serverRec \in [RecordId -> Record]
      /\ log[d] \in SUBSET Op
  BY DEF TypeOK
<1>2. ASSUME NEW r \in RecordId
      PROVE  rec[d][r] = serverRec[r]
  <2>1. Resolved(rec[d][r], OpsOn(log[d], r)) /\ Resolved(serverRec[r], OpsOn(log[d], r))
    BY DEF DeviceRecords, ServerRecords
  <2>2. OpsOn(log[d], r) \in SUBSET Op
    BY <1>1 DEF OpsOn
  <2>. QED  BY <1>1, <2>1, <2>2, ResolvedUnique
<1>. QED  BY <1>1, <1>2

-----------------------------------------------------------------------------
(***************************************************************************)
(* Resolve computes what the records promise, one op at a time and in any  *)
(* order, for ops whose timestamps follow their knowledge.                 *)
(***************************************************************************)

\* What StampsFollowKnowledge says of the ops on one record, and that a device
\* signs its timestamps (NewClock, Clock.Now).
WellStamped(ops) ==
  /\ \A a, b \in ops : a.vv[b.device] >= b.vv[b.device] => a = b \/ After(a.hlc, b.hlc)
  /\ \A a \in ops : a.hlc.node = a.device

LEMMA AfterTransitive ==
  ASSUME NEW t \in Timestamp, NEW u \in Timestamp, NEW v \in Timestamp,
         After(t, u), After(u, v)
  PROVE  After(t, v)
BY DEF After, Timestamp

LEMMA AfterTotal ==
  ASSUME NEW t \in Timestamp, NEW u \in Timestamp, ~After(t, u)
  PROVE  t = u \/ After(u, t)
BY DEF After, Timestamp

\* Being nowhere below is knowing (Vector.Compare).
LEMMA BoundsKnow ==
  ASSUME NEW v \in VectorType, NEW w \in VectorType, \A n \in Device : w[n] <= v[n]
  PROVE  Knows(v, w)
<1>1. ~Greater(w, v)
  BY DEF Greater, VectorType
<1>. QED  BY <1>1 DEF Knows, Compare

\* The four outcomes of Compare, as bounds.
LEMMA CompareCases ==
  ASSUME NEW v \in VectorType, NEW w \in VectorType
  PROVE  /\ Compare(v, w) \in {"Equal", "Descendant", "Ancestor", "Concurrent"}
         /\ Compare(v, w) = "Ancestor" => \A n \in Device : v[n] <= w[n]
<1>1. Compare(v, w) \in {"Equal", "Descendant", "Ancestor", "Concurrent"}
  BY DEF Compare
<1>2. ASSUME Compare(v, w) = "Ancestor"
      PROVE  \A n \in Device : v[n] <= w[n]
  <2>1. ~Greater(v, w)
    BY <1>2 DEF Compare
  <2>2. ASSUME NEW n \in Device PROVE v[n] <= w[n]
    <3>1. v[n] \in Nat /\ w[n] \in Nat
      BY DEF VectorType
    <3>. QED  BY <2>1, <3>1 DEF Greater
  <2>. QED  BY <2>2
<1>. QED  BY <1>1, <1>2

\* The join of two vectors (Vector.Merge).
LEMMA MergeJoins ==
  ASSUME NEW v \in VectorType, NEW w \in VectorType
  PROVE  /\ Merge(v, w) \in VectorType
         /\ \A n \in Device : /\ v[n] <= Merge(v, w)[n] /\ w[n] <= Merge(v, w)[n]
                              /\ Merge(v, w)[n] = v[n] \/ Merge(v, w)[n] = w[n]
BY DEF Merge, VectorType

\* A record resolves a set of ops when it has the winner of the set, the greatest
\* of it, and the join of the vectors.
LEMMA ResolvedBy ==
  ASSUME NEW ops \in SUBSET Op, NEW top \in ops, NEW x \in Record,
         \A op \in ops : op = top \/ After(top.hlc, op.hlc),
         x.found = TRUE, x.win = top.id, x.deleted = (top.type = "delete"), x.hlc = top.hlc,
         \A op \in ops : \A n \in Device : op.vv[n] <= x.vv[n],
         \A n \in Device : \E op \in ops : x.vv[n] = op.vv[n]
  PROVE  Resolved(x, ops)
<1>1. [x EXCEPT !.vv = ZeroVector] = [FromOp(top) EXCEPT !.vv = ZeroVector]
  <2> DEFINE a == [x EXCEPT !.vv = ZeroVector]
             b == [FromOp(top) EXCEPT !.vv = ZeroVector]
  <2>1. ZeroVector \in VectorType /\ FromOp(top) \in Record /\ top \in Op
    BY DEF ZeroVector, VectorType, FromOp, Record, Op
  <2>2. /\ a \in Record /\ a.found = x.found /\ a.win = x.win /\ a.deleted = x.deleted
        /\ a.hlc = x.hlc /\ a.vv = ZeroVector
    BY <2>1 DEF Record
  <2>3. /\ b \in Record /\ b.found = TRUE /\ b.win = top.id
        /\ b.deleted = (top.type = "delete") /\ b.hlc = top.hlc /\ b.vv = ZeroVector
    BY <2>1 DEF FromOp, Record
  <2> HIDE DEF a, b
  <2>4. a = b
    BY <2>2, <2>3 DEF Record
  <2>. QED  BY <2>4 DEF a, b
<1>2. x.vv \in VectorType /\ \A op \in ops : op.vv \in VectorType
  BY DEF Record, Op
<1>3. \A op \in ops : Knows(x.vv, op.vv)
  BY <1>2, BoundsKnow
<1>. QED  BY <1>1, <1>3 DEF Resolved

\* The greatest-HLC rule and the fast-forward rule do not disagree: one more op
\* resolved into the record of a set of ops gives the record of the larger set,
\* superseded and concurrent ops included (conflict.Resolve).
THEOREM ResolveKeepsResolved ==
  ASSUME NEW ops \in SUBSET Op, NEW new \in Op, new \notin ops,
         WellStamped(ops \cup {new}), NEW x \in Record, Resolved(x, ops)
  PROVE  Resolved(Resolve(x, new).record, ops \cup {new})
<1> DEFINE all == ops \cup {new}
           y   == Resolve(x, new).record
<1>1. /\ all \in SUBSET Op
      /\ \A op \in all : op.vv \in VectorType /\ op.hlc \in Timestamp
      /\ x.vv \in VectorType /\ x.found \in BOOLEAN
      /\ \A op \in Op : FromOp(op) \in Record
  BY DEF Op, Record, FromOp
<1>2. \A op \in Op : /\ FromOp(op).found = TRUE /\ FromOp(op).win = op.id
                     /\ FromOp(op).deleted = (op.type = "delete")
                     /\ FromOp(op).hlc = op.hlc /\ FromOp(op).vv = op.vv
  BY DEF FromOp
<1>3. ASSUME ops = {}
      PROVE  Resolved(y, all)
  <2>1. x = NoRecord
    BY <1>3 DEF Resolved
  <2>2. y = FromOp(new)
    BY <2>1 DEF Resolve, Decision, NoRecord
  <2>3. \A op \in all : op = new
    BY <1>3
  <2> HIDE DEF y
  <2>4. \A n \in Device : new.vv[n] <= new.vv[n]
    BY <1>1 DEF VectorType
  <2>5. /\ y \in Record /\ y.found = TRUE /\ y.win = new.id /\ y.hlc = new.hlc
        /\ y.deleted = (new.type = "delete") /\ y.vv = new.vv
    BY <1>1, <1>2, <2>2
  <2>6. /\ \A op \in all : op = new \/ After(new.hlc, op.hlc)
        /\ \A op \in all : \A n \in Device : op.vv[n] <= y.vv[n]
        /\ \A n \in Device : \E op \in all : y.vv[n] = op.vv[n]
    BY <2>3, <2>4, <2>5
  <2> HIDE DEF all
  <2>7. new \in all
    BY DEF all
  <2>. QED  BY <1>1, <2>5, <2>6, <2>7, ResolvedBy
<1>4. ASSUME NEW top \in ops,
             \A op \in ops : op = top \/ After(top.hlc, op.hlc),
             [x EXCEPT !.vv = ZeroVector] = [FromOp(top) EXCEPT !.vv = ZeroVector],
             \A op \in ops : Knows(x.vv, op.vv),
             \A n \in Device : \E op \in ops : x.vv[n] = op.vv[n]
      PROVE  Resolved(y, all)
  <2>1. /\ x.found = TRUE /\ x.win = top.id /\ x.deleted = (top.type = "delete")
        /\ x.hlc = top.hlc
    <3> DEFINE bare(z) == [z EXCEPT !.vv = ZeroVector]
    <3>1. \A z \in Record : /\ bare(z).found = z.found /\ bare(z).win = z.win
                            /\ bare(z).deleted = z.deleted /\ bare(z).hlc = z.hlc
      BY DEF Record
    <3>2. bare(x) = bare(FromOp(top))
      BY <1>4
    <3> HIDE DEF bare
    <3>. QED  BY <1>1, <1>2, <3>1, <3>2
  <2>2. \A op \in ops : \A n \in Device : op.vv[n] <= x.vv[n]
    BY <1>1, <1>4, KnowsBounds
  <2>3. \A op \in ops : new # op
    OBVIOUS
  <2>4. CASE Compare(x.vv, new.vv) \in {"Equal", "Descendant"}
    <3>1. y = x
      BY <2>1, <2>4 DEF Resolve, Decision
    <3>2. \A n \in Device : new.vv[n] <= x.vv[n]
      BY <1>1, <2>4, KnowsBounds DEF Knows
    <3>3. After(top.hlc, new.hlc)
      <4>1. new.device \in Device
        BY DEF Op
      <4>2. PICK b \in ops : x.vv[new.device] = b.vv[new.device]
        BY <1>4, <4>1
      <4>3. b.vv[new.device] >= new.vv[new.device]
        BY <1>1, <3>2, <4>1, <4>2 DEF VectorType
      <4>4. After(b.hlc, new.hlc)
        BY <2>3, <4>3 DEF WellStamped
      <4>. QED  BY <1>1, <1>4, <4>4, AfterTransitive
    <3> HIDE DEF y
    <3>4. \A op \in all : op = top \/ After(top.hlc, op.hlc)
      BY <1>4, <3>3
    <3>5. /\ \A op \in all : \A n \in Device : op.vv[n] <= x.vv[n]
          /\ \A n \in Device : \E op \in all : x.vv[n] = op.vv[n]
      BY <1>4, <2>2, <3>2
    <3>. QED  BY <1>1, <2>1, <3>1, <3>4, <3>5, ResolvedBy
  <2>5. CASE Compare(x.vv, new.vv) = "Ancestor"
    <3>1. y = FromOp(new)
      BY <2>1, <2>5 DEF Resolve, Decision
    <3>2. \A n \in Device : x.vv[n] <= new.vv[n]
      BY <1>1, <2>5, CompareCases
    <3>3. ASSUME NEW op \in all, NEW n \in Device
          PROVE  op.vv[n] <= new.vv[n]
      <4>1. op.vv[n] \in Nat /\ x.vv[n] \in Nat /\ new.vv[n] \in Nat
        BY <1>1 DEF VectorType
      <4>2. op = new \/ op.vv[n] <= x.vv[n]
        BY <2>2
      <4>. QED  BY <3>2, <4>1, <4>2
    <3>4. ASSUME NEW op \in ops
          PROVE  After(new.hlc, op.hlc)
      <4>1. op.device \in Device /\ op.vv[op.device] \in Nat /\ new.vv[op.device] \in Nat
        BY <1>1 DEF Op, VectorType
      <4>2. new.vv[op.device] >= op.vv[op.device]
        BY <3>3, <4>1
      <4>. QED  BY <2>3, <4>2 DEF WellStamped
    <3> HIDE DEF y
    <3>5. /\ y \in Record /\ y.found = TRUE /\ y.win = new.id /\ y.hlc = new.hlc
          /\ y.deleted = (new.type = "delete") /\ y.vv = new.vv
      BY <1>1, <1>2, <3>1
    <3>6. /\ \A op \in all : op = new \/ After(new.hlc, op.hlc)
          /\ \A op \in all : \A n \in Device : op.vv[n] <= y.vv[n]
          /\ \A n \in Device : \E op \in all : y.vv[n] = op.vv[n]
      BY <3>3, <3>4, <3>5
    <3>7. new \in all
      OBVIOUS
    <3> HIDE DEF all
    <3>. QED  BY <1>1, <3>5, <3>6, <3>7, ResolvedBy
  <2>6. CASE Compare(x.vv, new.vv) = "Concurrent"
    <3> DEFINE merged == Merge(x.vv, new.vv)
    <3>1. /\ merged \in VectorType
          /\ \A n \in Device : /\ x.vv[n] <= merged[n] /\ new.vv[n] <= merged[n]
                               /\ merged[n] = x.vv[n] \/ merged[n] = new.vv[n]
      BY <1>1, MergeJoins
    <3>2. /\ y = IF After(new.hlc, x.hlc) THEN [FromOp(new) EXCEPT !.vv = merged]
                                          ELSE [x EXCEPT !.vv = merged]
      BY <2>1, <2>6 DEF Resolve, Decision
    <3> HIDE DEF merged, y
    <3>3. /\ \A op \in all : \A n \in Device : op.vv[n] <= merged[n]
          /\ \A n \in Device : \E op \in all : merged[n] = op.vv[n]
      BY <1>1, <1>4, <2>2, <3>1 DEF VectorType
    <3>4. CASE After(new.hlc, x.hlc)
      <4>1. \A op \in all : op = new \/ After(new.hlc, op.hlc)
        BY <1>1, <1>4, <2>1, <3>4, AfterTransitive
      <4>2. /\ y \in Record /\ y.found = TRUE /\ y.win = new.id /\ y.vv = merged
            /\ y.deleted = (new.type = "delete") /\ y.hlc = new.hlc
        BY <1>1, <1>2, <3>1, <3>2, <3>4 DEF Record
      <4>. QED  BY <1>1, <3>3, <4>1, <4>2, ResolvedBy
    <3>5. CASE ~After(new.hlc, x.hlc)
      <4>1. After(top.hlc, new.hlc)
        <5>1. SUFFICES ASSUME top.hlc = new.hlc PROVE FALSE
          BY <1>1, <2>1, <3>5, AfterTotal
        <5>2. top.device = new.device /\ new.device \in Device
          BY <5>1 DEF WellStamped, Op
        <5>3. \/ top.vv[new.device] >= new.vv[new.device]
              \/ new.vv[new.device] >= top.vv[new.device]
          BY <1>1, <5>2 DEF VectorType
        <5>4. After(top.hlc, new.hlc) \/ After(new.hlc, top.hlc)
          BY <2>3, <5>2, <5>3 DEF WellStamped
        <5>. QED  BY <1>1, <5>1, <5>4, AfterAsymmetric
      <4>2. \A op \in all : op = top \/ After(top.hlc, op.hlc)
        BY <1>4, <4>1
      <4>3. /\ y \in Record /\ y.found = TRUE /\ y.win = top.id /\ y.vv = merged
            /\ y.deleted = (top.type = "delete") /\ y.hlc = top.hlc
        BY <2>1, <3>1, <3>2, <3>5 DEF Record
      <4>. QED  BY <1>1, <3>3, <4>2, <4>3, ResolvedBy
    <3>. QED  BY <3>4, <3>5
  <2>. QED  BY <1>1, <2>4, <2>5, <2>6, CompareCases
<1>. QED  BY <1>3, <1>4 DEF Resolved


-----------------------------------------------------------------------------
(***************************************************************************)
(* What a record knows of a set of ops, whatever the timestamps are.       *)
(***************************************************************************)

LEMMA KnowsTransitive ==
  ASSUME NEW u \in VectorType, NEW v \in VectorType, NEW w \in VectorType,
         Knows(u, v), Knows(v, w)
  PROVE  Knows(u, w)
<1>1. ASSUME NEW n \in Device PROVE w[n] <= u[n]
  <2>1. w[n] <= v[n] /\ v[n] <= u[n]
    BY KnowsBounds
  <2>2. u[n] \in Nat /\ v[n] \in Nat /\ w[n] \in Nat
    BY DEF VectorType
  <2>. QED  BY <2>1, <2>2
<1>. QED  BY <1>1, BoundsKnow

LEMMA KnowsItself ==
  ASSUME NEW v \in VectorType
  PROVE  Knows(v, v)
<1>1. \A n \in Device : v[n] <= v[n]
  BY DEF VectorType
<1>. QED  BY <1>1, BoundsKnow

\* The half of Resolved that does not look at the timestamps: the vector of the
\* record is the join of the vectors of the ops.
Joined(x, ops) ==
  \/ ops = {} /\ x = NoRecord
  \/ /\ x.found
     /\ \A op \in ops : Knows(x.vv, op.vv)
     /\ \A n \in Device : \E op \in ops : x.vv[n] = op.vv[n]

\* Resolve keeps it, for every op and every record (conflict.Resolve, Merge).
THEOREM ResolveJoins ==
  ASSUME NEW ops \in SUBSET Op, NEW new \in Op, NEW x \in Record, Joined(x, ops)
  PROVE  Joined(Resolve(x, new).record, ops \cup {new})
<1> DEFINE y      == Resolve(x, new).record
           all    == ops \cup {new}
           merged == Merge(x.vv, new.vv)
<1> SUFFICES Joined(y, all)
  OBVIOUS
<1>1. /\ \A op \in all : op.vv \in VectorType
      /\ x.vv \in VectorType /\ x.found \in BOOLEAN
  BY DEF Op, Record
<1>2. /\ FromOp(new).found = TRUE /\ FromOp(new).vv = new.vv
      /\ [FromOp(new) EXCEPT !.vv = merged].found = TRUE
      /\ [FromOp(new) EXCEPT !.vv = merged].vv = merged
      /\ [x EXCEPT !.vv = merged].found = x.found /\ [x EXCEPT !.vv = merged].vv = merged
  BY DEF FromOp, Record
<1>3. Knows(new.vv, new.vv)
  BY <1>1, KnowsItself
<1>4. CASE ~x.found
  <2>1. ops = {} /\ y = FromOp(new)
    BY <1>4 DEF Joined, Resolve, Decision
  <2> HIDE DEF y
  <2>. QED  BY <1>2, <1>3, <2>1 DEF Joined
<1>5. CASE x.found
  <2>1. /\ \A op \in ops : Knows(x.vv, op.vv)
        /\ \A n \in Device : \E op \in ops : x.vv[n] = op.vv[n]
    BY <1>5 DEF Joined, NoRecord
  <2>2. CASE Compare(x.vv, new.vv) \in {"Equal", "Descendant"}
    <3>1. y = x /\ Knows(x.vv, new.vv)
      BY <1>5, <2>2 DEF Resolve, Decision, Knows
    <3> HIDE DEF y
    <3>. QED  BY <1>5, <2>1, <3>1 DEF Joined
  <2>3. CASE Compare(x.vv, new.vv) = "Ancestor"
    <3>1. y = FromOp(new)
      BY <1>5, <2>3 DEF Resolve, Decision
    <3>2. Knows(new.vv, x.vv)
      BY <1>1, <2>3, CompareCases, BoundsKnow
    <3>3. \A op \in all : Knows(new.vv, op.vv)
      BY <1>1, <1>3, <2>1, <3>2, KnowsTransitive
    <3> HIDE DEF y
    <3>. QED  BY <1>2, <3>1, <3>3 DEF Joined
  <2>4. CASE Compare(x.vv, new.vv) = "Concurrent"
    <3>1. y.found = TRUE /\ y.vv = merged
      BY <1>2, <1>5, <2>4 DEF Resolve, Decision
    <3>2. /\ merged \in VectorType
          /\ \A n \in Device : /\ x.vv[n] <= merged[n] /\ new.vv[n] <= merged[n]
                               /\ merged[n] = x.vv[n] \/ merged[n] = new.vv[n]
      BY <1>1, MergeJoins
    <3> HIDE DEF y, merged
    <3>3. Knows(merged, x.vv) /\ Knows(merged, new.vv)
      BY <1>1, <3>2, BoundsKnow
    <3>4. \A op \in all : Knows(merged, op.vv)
      BY <1>1, <2>1, <3>2, <3>3, KnowsTransitive
    <3>5. \A n \in Device : \E op \in all : merged[n] = op.vv[n]
      BY <2>1, <3>2
    <3>. QED  BY <3>1, <3>4, <3>5 DEF Joined
  <2>. QED  BY <2>2, <2>3, <2>4, CompareValues
<1>. QED  BY <1>1, <1>4, <1>5

-----------------------------------------------------------------------------
(***************************************************************************)
(* What the application and the faults leave alone.                        *)
(***************************************************************************)

\* No local write has read the record that a pull is about to save.
Exclusive ==
  \A d \in Device : write[d].pc # "idle" /\ sync[d].pc = "save" =>
    write[d].record # serverLog[sync[d].at].record

\* No error and no stop falls between AppendOp and PutRecord of a device's op.
Whole == \A d \in Device :
           /\ (WriteFails(d) => write[d].pc # "save")
           /\ (PullFails(d) => sync[d].pc \notin {"load", "save"})
           /\ (Stop(d) => SettledDevice(d))

\* The ops that a device has stored and not yet applied, at most one of a local
\* write and one of a pull, and the others.
Pending(d) ==
  {op \in log[d] : \/ write[d].pc = "save" /\ op.id = <<d, written[d]>>
                   \/ sync[d].pc \in {"load", "save"} /\ op = serverLog[sync[d].at]}
Applied(d, r) == OpsOn(log[d] \ Pending(d), r)

\* A step that changes nothing about what has been applied.
AppliedStays(d) == \A r \in RecordId : Applied(d, r)' = Applied(d, r)

\* What has been read of a record and will be resolved into it is the record, and
\* a pull applies no op of the device itself.
Fresh(d) ==
  /\ write[d].pc # "idle" => write[d].snap = rec[d][write[d].record]
  /\ sync[d].pc = "save" => sync[d].snap = rec[d][serverLog[sync[d].at].record]
  /\ sync[d].pc \in {"load", "save"} => serverLog[sync[d].at].device # d

\* What the other steps do to a device: its local write and its Sync go on, with
\* nothing stored or applied.
QuietChange(e) ==
  /\ \/ write'[e] = write[e]
     \/ WriteBegin(e)
     \/ write[e].pc # "save" /\ write'[e] = NoWrite
  /\ \/ sync'[e] = sync[e]
     \/ PullLoad(e)
     \/ /\ sync[e].pc \notin {"load", "save"} /\ sync'[e].pc \notin {"load", "save"}
        /\ \/ sync[e].pc # "idle" \/ sync'[e].pc = "idle"
           \/ FreeToSync(e) /\ write'[e] = write[e]
Quiet(e) == /\ log'[e] = log[e] /\ rec'[e] = rec[e] /\ written'[e] = written[e]
            /\ QuietChange(e)

\* A fault is a step that changes something.
LEMMA FaultsChange ==
  ASSUME TypeInv, NEW kind, Fault(kind)
  PROVE  vars' # vars
<1>1. faults' = faults + 1 /\ faults \in Nat
  BY FaultsAssumption DEF Fault, TypeInv, TypeOK
<1>2. faults' # faults
  BY <1>1
<1>. QED  BY <1>2 DEF vars

\* The steps that store or apply an op on a device, and all others.
LEMMA DeviceSteps ==
  ASSUME TypeInv, [Next]_vars, [Whole]_vars, NEW e \in Device
  PROVE  WriteAppend(e) \/ WriteSave(e) \/ PullAppend(e) \/ PullSave(e) \/ Quiet(e)
<1>1. /\ sync \in [Device -> Sync] /\ write \in [Device -> {NoWrite} \cup WriteInProgress]
      /\ log \in [Device -> SUBSET Op] /\ rec \in [Device -> [RecordId -> Record]]
      /\ written \in [Device -> Nat]
  BY DEF TypeInv, TypeOK
<1>2. ASSUME UNCHANGED <<log, rec, written, sync, write>>
      PROVE  Quiet(e)
  BY <1>2 DEF Quiet, QuietChange
<1>3. ASSUME NEW d \in Device, NEW k \in Attempt, HandlerStep(d, k) \/ HandlerFails(d, k)
      PROVE  Quiet(e)
  <2>1. UNCHANGED <<log, rec, written, sync, write>>
    BY <1>3 DEF HandlerStep, HandlerAppend, HandlerLoad, HandlerSave, HandlerAudit,
         HandlerEnds, HandlerFails, storeVars
  <2>. QED  BY <1>2, <2>1
<1>4. ASSUME NEW d \in Device, WriteBegin(d)
      PROVE  Quiet(e)
  <2>1. UNCHANGED <<log, rec, written, sync>>
    BY <1>4 DEF WriteBegin, storeVars
  <2>2. d # e => write'[e] = write[e]
    BY <1>1, <1>4 DEF WriteBegin
  <2>. QED  BY <1>4, <2>1, <2>2 DEF Quiet, QuietChange
<1>5. ASSUME NEW d \in Device, PullLoad(d)
      PROVE  Quiet(e)
  <2>1. UNCHANGED <<log, rec, written, write>>
    BY <1>5 DEF PullLoad, storeVars
  <2>2. d # e => sync'[e] = sync[e]
    BY <1>1, <1>5 DEF PullLoad
  <2>. QED  BY <1>5, <2>1, <2>2 DEF Quiet, QuietChange
<1>6. ASSUME NEW d \in Device, UNCHANGED <<log, rec, written, write>>,
             NEW x, sync' = [sync EXCEPT ![d] = x], x.pc \notin {"load", "save"},
             sync[d].pc \notin {"load", "save"},
             sync[d].pc # "idle" \/ x.pc = "idle" \/ FreeToSync(d)
      PROVE  Quiet(e)
  <2>1. sync'[d] = x /\ (d # e => sync'[e] = sync[e])
    BY <1>1, <1>6
  <2>. QED  BY <1>6, <2>1 DEF Quiet, QuietChange
<1>7. \A s \in Sync : Advance(s).pc \notin {"load", "save"}
  BY DEF Advance, Sync
<1>8. /\ \A c : Page(c).pc \notin {"load", "save"}
      /\ NoSync.pc = "idle"
      /\ [NoSync EXCEPT !.pc = "pull"].pc \notin {"load", "save"}
      /\ [NoSync EXCEPT !.pc = "pushing"].pc \notin {"load", "save"}
  BY DEF Page, NoSync
<1>9. ASSUME NEW d \in Device,
             \/ SyncBegin(d) \/ PushReply(d) \/ PushReplyLost(d) \/ PullPage(d)
             \/ PullAudit(d) \/ PullCheckpoint(d)
      PROVE  Quiet(e)
  <2>1. UNCHANGED <<log, rec, written, write>>
    BY <1>9 DEF SyncBegin, PushReply, PushReplyLost, PullPage, PullAudit,
         PullCheckpoint, storeVars
  <2>2. sync[d].pc \notin {"load", "save"} /\ (sync[d].pc # "idle" \/ FreeToSync(d))
    BY <1>9 DEF SyncBegin, FreeToSync, PushReply, PushReplyLost, PullPage,
         PullAudit, PullCheckpoint
  <2>3. PICK x \in {NoSync, [NoSync EXCEPT !.pc = "pull"], [NoSync EXCEPT !.pc = "pushing"],
                    Page(checkpoint[d]), Advance(sync[d])} :
          sync' = [sync EXCEPT ![d] = x]
    BY <1>9 DEF SyncBegin, PushReply, PushReplyLost, PullPage, PullAudit, PullCheckpoint
  <2>4. x.pc \notin {"load", "save"}
    BY <1>1, <1>7, <1>8, <2>3
  <2>. QED  BY <1>6, <2>1, <2>2, <2>3, <2>4
<1>10. ASSUME NEW d \in Device, PushFailed(d) \/ PushTimeout(d)
       PROVE  Quiet(e)
  <2>1. UNCHANGED <<log, rec, written, write>>
    BY <1>10 DEF PushFailed, PushTimeout, storeVars
  <2>2. sync[d].pc = "pushing"
    BY <1>10 DEF PushFailed, PushTimeout
  <2>3. ASSUME NEW left, GiveUp(d, left)
        PROVE  Quiet(e)
    BY <1>6, <1>8, <2>1, <2>2, <2>3 DEF GiveUp
  <2>4. ASSUME NEW left, Resend(d, left)
        PROVE  Quiet(e)
    <3>1. sync'[d].pc = "pushing" /\ (d # e => sync'[e] = sync[e])
      BY <1>1, <2>2, <2>4 DEF Resend, Sync
    <3>. QED  BY <2>1, <2>2, <3>1 DEF Quiet, QuietChange
  <2>. QED  BY <1>10, <2>3, <2>4 DEF PushFailed, PushTimeout
<1>11. ASSUME NEW d \in Device, PullFails(d)
       PROVE  Quiet(e)
  <2>1. sync[d].pc \notin {"load", "save"}
    BY <1>11, FaultsChange DEF PullFails, Whole
  <2>2. UNCHANGED <<log, rec, written, write>> /\ sync' = [sync EXCEPT ![d] = NoSync]
    BY <1>11 DEF PullFails, storeVars
  <2>. QED  BY <1>6, <1>8, <2>1, <2>2
<1>12. ASSUME NEW d \in Device, WriteFails(d)
       PROVE  Quiet(e)
  <2>1. write[d].pc # "save"
    BY <1>12, FaultsChange DEF WriteFails, Whole
  <2>2. UNCHANGED <<log, rec, written, sync>> /\ write' = [write EXCEPT ![d] = NoWrite]
    BY <1>12 DEF WriteFails, storeVars
  <2>3. d # e => write'[e] = write[e]
    BY <1>1, <2>2
  <2>4. d = e => write'[e] = NoWrite
    BY <1>1, <2>2
  <2>. QED  BY <2>1, <2>2, <2>3, <2>4 DEF Quiet, QuietChange
<1>13. ASSUME NEW d \in Device, Stop(d)
       PROVE  Quiet(e)
  <2>1. SettledDevice(d)
    BY <1>13, FaultsChange DEF Stop, Whole
  <2>2. /\ UNCHANGED <<log, rec, written>>
        /\ write' = [write EXCEPT ![d] = NoWrite] /\ sync' = [sync EXCEPT ![d] = NoSync]
    BY <1>13 DEF Stop, storeVars
  <2>3. d # e => write'[e] = write[e] /\ sync'[e] = sync[e]
    BY <1>1, <2>2
  <2>4. d = e => write'[e] = NoWrite /\ sync'[e] = NoSync
    BY <1>1, <2>2
  <2>5. d # e => QuietChange(e)
    BY <2>3 DEF QuietChange
  <2>6. ASSUME d = e
        PROVE  QuietChange(e)
    <3>1. write[e].pc # "save" /\ sync[e].pc \notin {"load", "save"}
      BY <2>1, <2>6 DEF SettledDevice
    <3>2. write'[e] = NoWrite /\ sync'[e].pc = "idle"
      BY <1>8, <2>4, <2>6
    <3>. QED  BY <3>1, <3>2 DEF QuietChange
  <2>. QED  BY <2>2, <2>5, <2>6 DEF Quiet
<1>14. ASSUME NEW d \in Device, WriteAppend(d) \/ WriteSave(d) \/ PullAppend(d) \/ PullSave(d),
              d # e
       PROVE  Quiet(e)
  <2>1. /\ log'[e] = log[e] /\ rec'[e] = rec[e] /\ written'[e] = written[e]
        /\ sync'[e] = sync[e] /\ write'[e] = write[e]
    BY <1>1, <1>14 DEF WriteAppend, WriteSave, PullAppend, PullSave
  <2>. QED  BY <2>1 DEF Quiet, QuietChange
<1>15. CASE UNCHANGED vars
  BY <1>2, <1>15 DEF vars, storeVars
<1>. QED  BY <1>3, <1>4, <1>5, <1>9, <1>10, <1>11, <1>12, <1>13, <1>14, <1>15
          DEF Next, WriteStep, SyncStep, FaultStep

-----------------------------------------------------------------------------
(***************************************************************************)
(* The steps that store or apply an op on a device.                        *)
(***************************************************************************)

\* Nothing is stored or applied.
LEMMA QuietKeeps ==
  ASSUME TypeInv, LogsGrow, NEW e \in Device, Fresh(e), Quiet(e)
  PROVE  Fresh(e)' /\ AppliedStays(e)
<1>1. sync \in [Device -> Sync] /\ sync[e] \in Sync /\ NoWrite.pc = "idle"
  BY DEF TypeInv, TypeOK, NoWrite
<1>2. /\ log'[e] = log[e] /\ rec'[e] = rec[e] /\ written'[e] = written[e] /\ QuietChange(e)
  BY DEF Quiet
<1>3. sync[e].pc \in {"load", "save"} => serverLog'[sync[e].at] = serverLog[sync[e].at]
  BY PageOp DEF LogsGrow, InPage
<1>4. /\ write'[e].pc = "save" <=> write[e].pc = "save"
      /\ write'[e].pc # "idle" => write'[e].snap = rec[e][write'[e].record]
  <2>1. CASE write'[e] = write[e]
    BY <2>1 DEF Fresh
  <2>2. CASE WriteBegin(e)
    <3>1. PICK r \in RecordId, kind \in Kinds :
            write' = [write EXCEPT ![e] = [pc |-> "append", record |-> r,
                                           kind |-> kind, snap |-> rec[e][r]]]
      BY <2>2 DEF WriteBegin
    <3>2. write'[e] = [pc |-> "append", record |-> r, kind |-> kind, snap |-> rec[e][r]]
      BY <3>1 DEF TypeInv, TypeOK
    <3>. QED  BY <2>2, <3>2 DEF WriteBegin, FreeToWrite
  <2>3. CASE write[e].pc # "save" /\ write'[e] = NoWrite
    BY <1>1, <2>3
  <2>. QED  BY <1>2, <2>1, <2>2, <2>3 DEF QuietChange
<1>5. /\ sync'[e].pc \in {"load", "save"} <=> sync[e].pc \in {"load", "save"}
      /\ sync'[e].pc \in {"load", "save"} => sync'[e].at = sync[e].at
      /\ sync'[e].pc = "save" => sync'[e].snap = rec[e][serverLog[sync[e].at].record]
  <2>1. CASE sync'[e] = sync[e]
    BY <2>1 DEF Fresh
  <2>2. CASE PullLoad(e)
    BY <1>1, <2>2 DEF PullLoad, Sync
  <2>3. CASE sync[e].pc \notin {"load", "save"} /\ sync'[e].pc \notin {"load", "save"}
    BY <2>3
  <2>. QED  BY <1>2, <2>1, <2>2, <2>3 DEF QuietChange
<1>6. Pending(e)' = Pending(e)
  BY <1>2, <1>3, <1>4, <1>5 DEF Pending
<1>7. AppliedStays(e)
  BY <1>2, <1>6 DEF AppliedStays, Applied, OpsOn
<1>8. Fresh(e)'
  BY <1>2, <1>3, <1>4, <1>5 DEF Fresh
<1>. QED  BY <1>7, <1>8

\* clock.Now and AppendOp of a local write: the new op is not applied yet.
LEMMA AppendKeeps ==
  ASSUME TypeInv, OpsIdentified, NEW d \in Device, Fresh(d), WriteAppend(d)
  PROVE  Fresh(d)' /\ AppliedStays(d)
<1>1. /\ log \in [Device -> SUBSET Op] /\ written \in [Device -> Nat] /\ written[d] \in Nat
      /\ write \in [Device -> {NoWrite} \cup WriteInProgress]
  BY DEF TypeInv, TypeOK
<1>2. PICK stamp : log' = [log EXCEPT ![d] = @ \cup {NewOp(d, stamp)}]
  BY DEF WriteAppend
<1> DEFINE new == NewOp(d, stamp)
<1>3. new.id = <<d, written[d] + 1>>
  BY DEF NewOp
<1>4. log'[d] = log[d] \cup {new}
  BY <1>1, <1>2
<1> HIDE DEF new
<1>5. write[d].pc = "append" /\ write[d] \in WriteInProgress
  BY <1>1 DEF WriteAppend, NoWrite
<1>6. /\ write'[d].pc = "save" /\ write'[d].record = write[d].record
      /\ write'[d].snap = write[d].snap
  BY <1>1, <1>5 DEF WriteAppend, WriteInProgress
<1>7. /\ written'[d] = written[d] + 1 /\ sync' = sync /\ rec' = rec /\ serverLog' = serverLog
  BY <1>1 DEF WriteAppend, serverVars
<1>8. \A op \in log[d] : op.id # <<d, written[d] + 1>>
  <2>1. ASSUME NEW op \in log[d], op.id = <<d, written[d] + 1>> PROVE FALSE
    <3>1. op.device = d /\ op.id[2] \in 1 .. written[d]
      BY <2>1 DEF OpsIdentified
    <3>. QED  BY <1>1, <2>1, <3>1
  <2>. QED  BY <2>1
<1>9. log'[d] \ Pending(d)' = log[d] \ Pending(d)
  BY <1>3, <1>4, <1>5, <1>6, <1>7, <1>8 DEF Pending
<1>10. AppliedStays(d)
  BY <1>9 DEF AppliedStays, Applied, OpsOn
<1>. QED  BY <1>5, <1>6, <1>7, <1>10 DEF Fresh

\* AppendOp of a pull: the op it stores, if it stores one, is not applied yet.
LEMMA PullKeeps ==
  ASSUME TypeInv, OpsIdentified, NEW d \in Device, Fresh(d), PullAppend(d)
  PROVE  Fresh(d)' /\ AppliedStays(d)
<1> DEFINE op == serverLog[sync[d].at]
<1>1. /\ log \in [Device -> SUBSET Op] /\ sync \in [Device -> Sync] /\ sync[d] \in Sync
      /\ op \in Op /\ sync[d].at \in DOMAIN serverLog
  BY PageOp DEF TypeInv, TypeOK, PullAppend, InPage
<1>2. /\ sync[d].pc = "append" /\ write'[d] = write[d] /\ rec' = rec
      /\ serverLog' = serverLog /\ written' = written
  BY DEF PullAppend, serverVars
<1>3. \/ log' = log /\ sync'[d].pc \notin {"load", "save"}
      \/ /\ log'[d] = log[d] \cup {op} /\ op.id \notin Ids(log[d])
         /\ sync'[d].pc = "load" /\ sync'[d].at = sync[d].at
  <2>1. CASE op.id \in Ids(log[d])
    <3>1. sync'[d] = Advance(sync[d]) /\ log' = log
      BY <1>1, <2>1 DEF PullAppend
    <3>2. sync'[d].pc \notin {"load", "save"}
      BY <1>1, <3>1 DEF Advance, Sync
    <3>. QED  BY <3>1, <3>2
  <2>2. CASE op.id \notin Ids(log[d])
    <3>1. sync' = [sync EXCEPT ![d].pc = "load"] /\ log' = [log EXCEPT ![d] = @ \cup {op}]
      BY <2>2 DEF PullAppend
    <3>2. sync'[d].pc = "load" /\ sync'[d].at = sync[d].at
      BY <1>1, <3>1 DEF Sync
    <3>. QED  BY <1>1, <2>2, <3>1, <3>2
  <2>. QED  BY <2>1, <2>2
<1>4. op.device # d \/ op.id \in Ids(log[d])
  BY <1>1 DEF OpsIdentified, Ids
<1> HIDE DEF op
<1>5. op.id \notin Ids(log[d]) => op \notin log[d]
  BY DEF Ids
<1>6. log'[d] \ Pending(d)' = log[d] \ Pending(d)
  <2>1. CASE log' = log /\ sync'[d].pc \notin {"load", "save"}
    BY <1>2, <2>1 DEF Pending
  <2>2. CASE /\ log'[d] = log[d] \cup {op} /\ op.id \notin Ids(log[d])
             /\ sync'[d].pc = "load" /\ sync'[d].at = sync[d].at
    BY <1>2, <1>5, <2>2 DEF Pending, op
  <2>. QED  BY <1>3, <2>1, <2>2
<1>7. AppliedStays(d)
  BY <1>6 DEF AppliedStays, Applied, OpsOn
<1>8. Fresh(d)'
  BY <1>2, <1>3, <1>4 DEF Fresh, op
<1>. QED  BY <1>7, <1>8

\* Resolve and PutRecord, of one of the ops there are to apply.
Applies(d, op) ==
  /\ op \in Pending(d) /\ Pending(d)' = Pending(d) \ {op} /\ log'[d] = log[d]
  /\ rec'[d] = [rec[d] EXCEPT ![op.record] = Resolve(rec[d][op.record], op).record]

\* A local write resolves its op into the record as it stands.
LEMMA WriteApplies ==
  ASSUME TypeInv, OpsIdentified, RecordsCovered, NEW d \in Device, Fresh(d), WriteSave(d)
  PROVE  \E op : /\ Applies(d, op)
                 /\ op.id = <<d, written[d]>> /\ op.record = write[d].record
                 /\ write[d].snap = rec[d][op.record]
<1>1. PICK op \in log[d] :
        /\ op.id = <<d, written[d]>>
        /\ rec' = [rec EXCEPT ![d][op.record] = Resolve(write[d].snap, op).record]
  BY DEF WriteSave
<1>2. write[d].pc = "save" /\ write[d].snap = rec[d][write[d].record]
  BY DEF WriteSave, Fresh
<1>3. op.record = write[d].record
  <2>1. PICK o \in log[d] : o.id = <<d, written[d]>> /\ o.record = write[d].record
    BY <1>2 DEF RecordsCovered
  <2>. QED  BY <1>1, <2>1 DEF OpsIdentified
<1>4. /\ write'[d].pc = "idle" /\ sync' = sync /\ log' = log /\ serverLog' = serverLog
      /\ written' = written
  BY DEF WriteSave, TypeInv, TypeOK, NoWrite, serverVars
<1>5. sync[d].pc \in {"load", "save"} => serverLog[sync[d].at] # op
  <2>1. op.device = d
    BY <1>1 DEF OpsIdentified
  <2>. QED  BY <2>1 DEF Fresh
<1>6. \A o \in log[d] : o.id = <<d, written[d]>> <=> o = op
  BY <1>1 DEF OpsIdentified
<1>7. op \in Pending(d) /\ Pending(d)' = Pending(d) \ {op}
  BY <1>1, <1>2, <1>4, <1>5, <1>6 DEF Pending
<1>8. rec'[d] = [rec[d] EXCEPT ![op.record] = Resolve(rec[d][op.record], op).record]
  <2> DEFINE y == Resolve(rec[d][op.record], op).record
  <2>1. rec' = [rec EXCEPT ![d][op.record] = y]
    BY <1>1, <1>2, <1>3
  <2> HIDE DEF y
  <2>2. rec'[d] = [rec[d] EXCEPT ![op.record] = y]
    BY <2>1 DEF TypeInv, TypeOK
  <2>. QED  BY <2>2 DEF y
<1>. QED  BY <1>1, <1>2, <1>3, <1>4, <1>7, <1>8 DEF Applies

\* And so does a pull.
LEMMA PullApplies ==
  ASSUME TypeInv, OpsIdentified, PageCovered, NEW d \in Device, Fresh(d), PullSave(d)
  PROVE  /\ Applies(d, serverLog[sync[d].at])
         /\ sync[d].snap = rec[d][serverLog[sync[d].at].record]
         /\ sync'[d].pc \notin {"load", "save"}
<1> DEFINE op == serverLog[sync[d].at]
<1>1. /\ sync[d].pc = "save" /\ sync[d].snap = rec[d][op.record] /\ sync[d] \in Sync
      /\ op.device # d
  BY DEF PullSave, Fresh, TypeInv, TypeOK
<1>2. op \in log[d]
  BY <1>1 DEF PageCovered, InPage
<1>3. rec'[d] = [rec[d] EXCEPT ![op.record] = Resolve(rec[d][op.record], op).record]
  <2> DEFINE y == Resolve(rec[d][op.record], op).record
  <2>1. rec' = [rec EXCEPT ![d][op.record] = y]
    BY <1>1 DEF PullSave
  <2> HIDE DEF y, op
  <2>2. rec'[d] = [rec[d] EXCEPT ![op.record] = y]
    BY <2>1 DEF TypeInv, TypeOK
  <2>. QED  BY <2>2 DEF y
<1>4. /\ write' = write /\ log' = log /\ written' = written
      /\ sync'[d].pc \notin {"load", "save"}
  <2>1. sync'[d] \in {[sync[d] EXCEPT !.pc = "audit"], Advance(sync[d])}
    BY DEF PullSave, TypeInv, TypeOK
  <2>2. sync'[d].pc \notin {"load", "save"}
    BY <1>1, <2>1 DEF Sync, Advance
  <2>. QED  BY <2>2 DEF PullSave
<1>5. op.id # <<d, written[d]>>
  <2>1. op.id[1] = op.device
    BY <1>2 DEF OpsIdentified
  <2>. QED  BY <1>1, <2>1
<1>6. op \in Pending(d) /\ Pending(d)' = Pending(d) \ {op}
  BY <1>1, <1>2, <1>4, <1>5 DEF Pending
<1> HIDE DEF op
<1>7. Applies(d, op)
  BY <1>3, <1>4, <1>6 DEF Applies
<1>. QED  BY <1>1, <1>4, <1>7 DEF op

\* What is applied when an op is.
LEMMA AppliedGrows ==
  ASSUME TypeInv, NEW d \in Device, NEW op, Applies(d, op), NEW r \in RecordId
  PROVE  /\ Applied(d, r)' \in SUBSET Op /\ op \in Op
         /\ Applied(d, r)' = Applied(d, r) \cup OpsOn({op}, r)
         /\ op \notin Applied(d, r) /\ op \in log[d]
<1>1. /\ log[d] \in SUBSET Op /\ op \in log[d] /\ op \in Pending(d)
      /\ log'[d] \ Pending(d)' = (log[d] \ Pending(d)) \cup {op}
  BY DEF Applies, TypeInv, TypeOK, Pending
<1>. QED  BY <1>1 DEF Applied, OpsOn, Applies

\* What a step does to a device's records, and to what has been applied to them.
LEMMA DeviceChanges ==
  ASSUME TypeInv, OpsIdentified, PageCovered, RecordsCovered, Exclusive,
         NEW e \in Device, Fresh(e), [Next]_vars, [Whole]_vars
  PROVE  /\ Fresh(e)'
         /\ \/ rec'[e] = rec[e] /\ AppliedStays(e)
            \/ (WriteSave(e) \/ PullSave(e)) /\ \E op : Applies(e, op)
<1>1. LogsGrow /\ rec[e] \in [RecordId -> Record]
  BY StepGrows DEF TypeInv, TypeOK
<1>2. CASE Quiet(e)
  BY <1>1, <1>2, QuietKeeps DEF Quiet
<1>3. CASE WriteAppend(e)
  <2>1. rec' = rec
    BY <1>3 DEF WriteAppend
  <2>. QED  BY <1>3, <2>1, AppendKeeps
<1>4. CASE PullAppend(e)
  <2>1. rec' = rec
    BY <1>4 DEF PullAppend
  <2>. QED  BY <1>4, <2>1, PullKeeps
<1>5. CASE WriteSave(e)
  <2>1. PICK op : Applies(e, op) /\ op.record = write[e].record
    BY <1>5, WriteApplies
  <2>2. /\ write'[e].pc = "idle" /\ write[e].pc = "save"
        /\ sync' = sync /\ serverLog' = serverLog
    BY <1>5 DEF WriteSave, TypeInv, TypeOK, NoWrite, serverVars
  <2>3. sync[e].pc = "save" =>
          rec'[e][serverLog[sync[e].at].record] = rec[e][serverLog[sync[e].at].record]
    <3>1. SUFFICES ASSUME sync[e].pc = "save"
                   PROVE  rec'[e][serverLog[sync[e].at].record] =
                            rec[e][serverLog[sync[e].at].record]
      OBVIOUS
    <3>2. /\ serverLog[sync[e].at].record # op.record
          /\ serverLog[sync[e].at].record \in RecordId
      BY <2>1, <2>2, <3>1, PageOp DEF Exclusive, InPage, Op
    <3>. QED  BY <1>1, <2>1, <3>2 DEF Applies
  <2>4. Fresh(e)'
    BY <2>2, <2>3 DEF Fresh
  <2>. QED  BY <1>5, <2>1, <2>4
<1>6. CASE PullSave(e)
  <2>1. Applies(e, serverLog[sync[e].at]) /\ sync'[e].pc \notin {"load", "save"}
    BY <1>6, PullApplies
  <2>2. write' = write /\ sync[e].pc = "save"
    BY <1>6 DEF PullSave
  <2>3. write[e].pc # "idle" => rec'[e][write[e].record] = rec[e][write[e].record]
    <3>1. SUFFICES ASSUME write[e].pc # "idle"
                   PROVE  rec'[e][write[e].record] = rec[e][write[e].record]
      OBVIOUS
    <3>2. write[e].record # serverLog[sync[e].at].record
      BY <2>2, <3>1 DEF Exclusive
    <3>3. write[e].record \in RecordId
      BY <3>1 DEF TypeInv, TypeOK, WriteInProgress, NoWrite
    <3>. QED  BY <1>1, <2>1, <3>2, <3>3 DEF Applies
  <2>4. Fresh(e)'
    BY <2>1, <2>2, <2>3 DEF Fresh
  <2>. QED  BY <1>6, <2>1, <2>4
<1>. QED  BY <1>2, <1>3, <1>4, <1>5, <1>6, DeviceSteps

\* The ops there are: only a local write adds to them.
LEMMA OpsGrow ==
  ASSUME TypeInv, OpsIdentified, [Next]_vars
  PROVE  AllOps' = AllOps \/ \E d \in Device : WriteAppend(d)
<1>1. /\ \A x : x \in AllOps <=> \E e \in Device : x \in log[e]
      /\ \A x : x \in AllOps' <=> \E e \in Device : x \in log'[e]
  BY DEF AllOps
<1>2. ASSUME NEW d \in Device, PullAppend(d)
      PROVE  AllOps' = AllOps
  <2> DEFINE op == serverLog[sync[d].at]
  <2>1. op \in Op /\ sync[d].at \in DOMAIN serverLog
    BY <1>2, PageOp DEF PullAppend, InPage
  <2>2. op \in AllOps
    BY <2>1 DEF OpsIdentified, Op, AllOps
  <2>3. log' = log \/ log' = [log EXCEPT ![d] = @ \cup {op}]
    BY <1>2 DEF PullAppend
  <2> HIDE DEF op
  <2>4. \A e \in Device : log'[e] = log[e] \/ log'[e] = log[e] \cup {op}
    BY <2>3 DEF TypeInv, TypeOK
  <2>5. ASSUME NEW x PROVE x \in AllOps' <=> x \in AllOps
    <3>1. CASE x = op
      <4>1. \E e \in Device : op \in log[e]
        BY <1>1, <2>2
      <4>2. \E e \in Device : op \in log'[e]
        BY <2>4, <4>1
      <4>. QED  BY <1>1, <2>2, <3>1, <4>2
    <3>2. CASE x # op
      BY <1>1, <2>4, <3>2
    <3>. QED  BY <3>1, <3>2
  <2>. QED  BY <2>5
<1>3. CASE log' = log
  BY <1>3 DEF AllOps
<1>. QED  BY <1>2, <1>3, LogSources

-----------------------------------------------------------------------------
(***************************************************************************)
(* What the records of a device know.                                      *)
(***************************************************************************)

\* An op that counts another counts whatever that one counts.
VectorsClosed ==
  \A a, b \in AllOps :
    a.record = b.record /\ a.vv[b.device] >= b.vv[b.device] => Knows(a.vv, b.vv)

\* An op counts itself, and its device has signed its timestamp.
Signed(op) == op.vv[op.device] > 0 /\ op.hlc.node = op.device

RecordsJoined == \A d \in Device, r \in RecordId : Joined(rec[d][r], Applied(d, r))

KnowInv == /\ CausalInv
           /\ \A d \in Device : Fresh(d)
           /\ RecordsJoined
           /\ \A op \in AllOps : Signed(op)
           /\ CounterNamesWrite /\ VectorsClosed

LEMMA KnowInit == Init => KnowInv
<1> SUFFICES ASSUME Init PROVE KnowInv
  OBVIOUS
<1>1. AllOps = {} /\ \A d \in Device : log[d] = {}
  BY DEF Init, AllOps
<1>2. \A d \in Device : sync[d].pc = "idle" /\ write[d].pc = "idle"
  BY DEF Init, NoSync, NoWrite
<1>3. \A d \in Device : Fresh(d)
  BY <1>2 DEF Fresh
<1>4. ASSUME NEW d \in Device, NEW r \in RecordId PROVE Joined(rec[d][r], Applied(d, r))
  <2>1. rec[d][r] = NoRecord /\ Applied(d, r) = {}
    BY <1>1 DEF Init, Applied, OpsOn
  <2>. QED  BY <2>1 DEF Joined
<1>. QED  BY <1>1, <1>3, <1>4, CausalInit
          DEF KnowInv, RecordsJoined, CounterNamesWrite, VectorsClosed

\* Resolve keeps what a record knows.
LEMMA JoinedStep ==
  ASSUME KnowInv, Exclusive, [Next]_vars, [Whole]_vars, NEW d \in Device
  PROVE  Fresh(d)' /\ \A r \in RecordId : Joined(rec'[d][r], Applied(d, r)')
<1>1. /\ TypeInv /\ OpsIdentified /\ PageCovered /\ RecordsCovered /\ Fresh(d)
      /\ \A r \in RecordId : Joined(rec[d][r], Applied(d, r))
      /\ rec[d] \in [RecordId -> Record]
      /\ \A r \in RecordId : Applied(d, r) \in SUBSET Op
  BY DEF KnowInv, CausalInv, RefInv, LogInv, TypeInv, TypeOK, RecordsJoined, Applied, OpsOn
<1>2. ASSUME NEW op, Applies(d, op), NEW r \in RecordId
      PROVE  Joined(rec'[d][r], Applied(d, r)')
  <2>1. /\ op \in Op
        /\ Applied(d, r)' = Applied(d, r) \cup OpsOn({op}, r)
    BY <1>1, <1>2, AppliedGrows
  <2>2. rec'[d] = [rec[d] EXCEPT ![op.record] = Resolve(rec[d][op.record], op).record]
    BY <1>2 DEF Applies
  <2>3. CASE r = op.record
    <3>1. /\ Applied(d, r)' = Applied(d, r) \cup {op}
          /\ rec'[d][r] = Resolve(rec[d][r], op).record
      BY <1>1, <2>1, <2>2, <2>3 DEF OpsOn
    <3>2. rec[d][r] \in Record
      BY <1>1
    <3>3. Joined(Resolve(rec[d][r], op).record, Applied(d, r) \cup {op})
      BY <1>1, <2>1, <3>2, ResolveJoins
    <3>. QED  BY <3>1, <3>3
  <2>4. CASE r # op.record
    <3>1. Applied(d, r)' = Applied(d, r) /\ rec'[d][r] = rec[d][r]
      BY <1>1, <2>1, <2>2, <2>4 DEF OpsOn
    <3>. QED  BY <1>1, <3>1
  <2>. QED  BY <2>3, <2>4
<1>3. ASSUME rec'[d] = rec[d], AppliedStays(d), NEW r \in RecordId
      PROVE  Joined(rec'[d][r], Applied(d, r)')
  BY <1>1, <1>3 DEF AppliedStays
<1>4. /\ Fresh(d)'
      /\ (rec'[d] = rec[d] /\ AppliedStays(d)) \/ \E op : Applies(d, op)
  BY <1>1, DeviceChanges
<1>. QED  BY <1>2, <1>3, <1>4

\* A local write counts a new op, and only what its device has applied.
LEMMA NewWrite ==
  ASSUME KnowInv, NEW d \in Device, WriteAppend(d)
  PROVE  \E new :
           /\ log'[d] = log[d] \cup {new} /\ AllOps' = AllOps \cup {new}
           /\ new.device = d /\ Signed(new) /\ new.vv \in VectorType
           /\ \A a \in AllOps : a.record = new.record => ~(a.vv[d] >= new.vv[d])
           /\ \A b \in AllOps : b.record = new.record /\ new.vv[b.device] >= b.vv[b.device] =>
                \E w \in log[d] : /\ w.record = b.record /\ w.vv[b.device] >= b.vv[b.device]
                                  /\ Knows(new.vv, w.vv)
<1>1. /\ TypeInv /\ OpsIdentified /\ OwnCovered /\ Fresh(d)
      /\ \A op \in AllOps : Signed(op)
      /\ \A r \in RecordId : Joined(rec[d][r], Applied(d, r))
  BY DEF KnowInv, CausalInv, RefInv, LogInv, RecordsJoined
<1>2. /\ clock[d] \in Timestamp /\ log \in [Device -> SUBSET Op] /\ log[d] \in SUBSET Op
      /\ write \in [Device -> {NoWrite} \cup WriteInProgress]
      /\ \A r \in RecordId : rec[d][r] \in Record
  BY <1>1 DEF TypeInv, TypeOK
<1>3. PICK phys \in Time[d] :
        log' = [log EXCEPT ![d] = @ \cup {NewOp(d, Now(clock[d], phys, d))}]
  BY DEF WriteAppend
<1> DEFINE stamp == Now(clock[d], phys, d)
           new   == NewOp(d, stamp)
           r     == write[d].record
           v     == rec[d][r].vv
<1>4. stamp.node = d
  BY DEF Now
<1>5. /\ write[d] \in WriteInProgress /\ write[d].pc = "append"
      /\ write[d].snap = rec[d][r] /\ r \in RecordId
  <2>1. write[d] \in WriteInProgress /\ write[d].pc = "append"
    BY <1>2 DEF WriteAppend, NoWrite
  <2>. QED  BY <1>1, <2>1 DEF Fresh, WriteInProgress
<1>6. v \in VectorType /\ Joined(rec[d][r], Applied(d, r))
  BY <1>1, <1>2, <1>5 DEF Record
<1>7. /\ new.device = d /\ new.record = r /\ new.hlc = stamp
      /\ new.vv = Increment(v, d)
  BY <1>5 DEF NewOp, WriteVector
<1>8. /\ \A n \in Device : /\ v[n] \in Nat
                           /\ new.vv[n] = IF n = d THEN v[d] + 1 ELSE v[n]
      /\ new.vv \in VectorType
  BY <1>6, <1>7, VectorTypes DEF Increment, VectorType
<1> HIDE DEF stamp, new, r
<1>9. log'[d] = log[d] \cup {new} /\ AllOps' = AllOps \cup {new}
  <2>1. /\ log'[d] = log[d] \cup {new}
        /\ \A e \in Device : e # d => log'[e] = log[e]
    BY <1>2, <1>3 DEF new, stamp
  <2>2. /\ \A x : x \in AllOps <=> \E e \in Device : x \in log[e]
        /\ \A x : x \in AllOps' <=> \E e \in Device : x \in log'[e]
    BY DEF AllOps
  <2>. QED  BY <2>1, <2>2
<1>10. \A op \in AllOps : /\ op \in log[op.device] /\ op.device \in Device /\ op \in Op
                          /\ op.vv \in VectorType /\ op.vv[op.device] \in Nat
  BY <1>1, <1>2 DEF AllOps, OpsIdentified, Op, VectorType
<1>11. \A op \in log[d] : op.device = d /\ op.record = r => op \in Applied(d, r)
  BY <1>1, <1>5 DEF Applied, OpsOn, Pending, Fresh
<1>12. \A op \in Applied(d, r) : op \in log[d] /\ op.record = r /\ op.vv \in VectorType
  BY <1>2 DEF Applied, OpsOn, Op
<1>13. /\ \A op \in Applied(d, r) : Knows(v, op.vv)
       /\ \A n \in Device : v[n] = 0 \/ \E op \in Applied(d, r) : v[n] = op.vv[n]
  <2>1. CASE Applied(d, r) = {} /\ rec[d][r] = NoRecord
    <3>1. v = ZeroVector
      BY <2>1 DEF NoRecord
    <3> HIDE DEF v
    <3>. QED  BY <2>1, <3>1 DEF ZeroVector
  <2>2. CASE ~(Applied(d, r) = {} /\ rec[d][r] = NoRecord)
    BY <1>6, <2>2 DEF Joined
  <2>. QED  BY <2>1, <2>2
<1> HIDE DEF v
<1>14. Knows(new.vv, v)
  <2>1. ASSUME NEW n \in Device PROVE v[n] <= new.vv[n]
    <3>1. v[n] \in Nat /\ new.vv[n] = IF n = d THEN v[d] + 1 ELSE v[n]
      BY <1>8
    <3>2. CASE n = d
      BY <3>1, <3>2
    <3>3. CASE n # d
      BY <3>1, <3>3
    <3>. QED  BY <3>2, <3>3
  <2>. QED  BY <1>6, <1>8, <2>1, BoundsKnow
<1>15. \A op \in Applied(d, r) : Knows(new.vv, op.vv)
  BY <1>6, <1>8, <1>12, <1>13, <1>14, KnowsTransitive
<1>16. ASSUME NEW a \in AllOps, a.record = r, a.vv[d] >= new.vv[d]
       PROVE  FALSE
  <2> DEFINE c == v[d] + 1
  <2>1. c \in 1 .. a.vv[d] /\ a.vv[d] \in Nat
    BY <1>8, <1>10, <1>16 DEF VectorType
  <2>2. PICK w \in log[a.device] : w.device = d /\ w.record = a.record /\ w.vv[d] = c
    BY <1>1, <1>10, <2>1 DEF OwnCovered
  <2>3. w \in Applied(d, r)
    BY <1>1, <1>10, <1>11, <1>16, <2>2 DEF OpsIdentified
  <2>4. w.vv[d] <= v[d]
    BY <1>6, <1>12, <1>13, <2>3, KnowsBounds
  <2>. QED  BY <1>8, <2>2, <2>4
<1>17. ASSUME NEW b \in AllOps, b.record = r, new.vv[b.device] >= b.vv[b.device]
       PROVE  \E w \in log[d] : /\ w.record = b.record /\ w.vv[b.device] >= b.vv[b.device]
                                /\ Knows(new.vv, w.vv)
  <2>1. CASE b.device = d
    <3>1. b \in Applied(d, r) /\ b.vv[b.device] >= b.vv[b.device]
      BY <1>10, <1>11, <1>17, <2>1
    <3>. QED  BY <1>12, <1>15, <3>1
  <2>2. CASE b.device # d
    <3>1. v[b.device] >= b.vv[b.device] /\ b.vv[b.device] > 0
      BY <1>1, <1>8, <1>10, <1>17, <2>2 DEF Signed
    <3>2. PICK w \in Applied(d, r) : w.vv[b.device] = v[b.device]
      BY <1>8, <1>10, <1>13, <3>1
    <3>. QED  BY <1>12, <1>15, <1>17, <3>1, <3>2
  <2>. QED  BY <2>1, <2>2
<1>18. Signed(new)
  BY <1>4, <1>7, <1>8 DEF Signed
<1>. QED  BY <1>7, <1>8, <1>9, <1>16, <1>17, <1>18

LEMMA KnowStep ==
  ASSUME KnowInv, Exclusive, [Next]_vars, [Whole]_vars
  PROVE  KnowInv'
<1>1. /\ CausalInv /\ TypeInv /\ OpsIdentified /\ VectorsClosed /\ CounterNamesWrite
      /\ \A op \in AllOps : Signed(op)
      /\ \A op \in AllOps : op.vv \in VectorType
  BY DEF KnowInv, CausalInv, RefInv, LogInv, TypeInv, TypeOK, AllOps, Op
<1>2. CausalInv'
  BY <1>1, CausalStep
<1>3. \A d \in Device : Fresh(d)' /\ \A r \in RecordId : Joined(rec'[d][r], Applied(d, r)')
  BY JoinedStep
<1>4. CASE AllOps' = AllOps
  <2>1. CounterNamesWrite' /\ VectorsClosed' /\ \A op \in AllOps' : Signed(op)
    BY <1>1, <1>4 DEF CounterNamesWrite, VectorsClosed
  <2>. QED  BY <1>2, <1>3, <2>1 DEF KnowInv, RecordsJoined
<1>5. ASSUME NEW d \in Device, WriteAppend(d)
      PROVE  KnowInv'
  <2>1. PICK new :
          /\ AllOps' = AllOps \cup {new}
          /\ new.device = d /\ Signed(new) /\ new.vv \in VectorType
          /\ \A a \in AllOps : a.record = new.record => ~(a.vv[d] >= new.vv[d])
          /\ \A b \in AllOps : b.record = new.record /\ new.vv[b.device] >= b.vv[b.device] =>
               \E w \in log[d] : /\ w.record = b.record /\ w.vv[b.device] >= b.vv[b.device]
                                 /\ Knows(new.vv, w.vv)
    BY <1>5, NewWrite
  <2>2. \A op \in AllOps' : Signed(op)
    BY <1>1, <2>1
  <2>3. ASSUME NEW a \in AllOps', NEW b \in AllOps', a.device = b.device,
               a.record = b.record, a.vv[a.device] = b.vv[b.device], a # b
        PROVE  FALSE
    <3>1. CASE a \in AllOps /\ b \in AllOps
      BY <1>1, <2>3, <3>1 DEF CounterNamesWrite
    <3>2. CASE a = new /\ b \in AllOps
      <4>1. b.vv[d] >= new.vv[d]
        BY <2>1, <2>3, <3>2 DEF VectorType
      <4>. QED  BY <2>1, <2>3, <3>2, <4>1
    <3>3. CASE a \in AllOps /\ b = new
      <4>1. a.vv[d] >= new.vv[d]
        BY <2>1, <2>3, <3>3 DEF VectorType
      <4>. QED  BY <2>1, <2>3, <3>3, <4>1
    <3>. QED  BY <2>1, <2>3, <3>1, <3>2, <3>3
  <2>4. ASSUME NEW a \in AllOps', NEW b \in AllOps', a.record = b.record,
               a.vv[b.device] >= b.vv[b.device]
        PROVE  Knows(a.vv, b.vv)
    <3>1. CASE a \in AllOps /\ b \in AllOps
      BY <1>1, <2>4, <3>1 DEF VectorsClosed
    <3>2. CASE a = new /\ b \in AllOps
      <4>1. PICK w \in log[d] : /\ w.record = b.record /\ w.vv[b.device] >= b.vv[b.device]
                                /\ Knows(new.vv, w.vv)
        BY <2>1, <2>4, <3>2
      <4>2. w \in AllOps
        BY DEF AllOps
      <4>3. Knows(w.vv, b.vv)
        BY <1>1, <3>2, <4>1, <4>2 DEF VectorsClosed
      <4>. QED  BY <1>1, <2>1, <3>2, <4>1, <4>2, <4>3, KnowsTransitive
    <3>3. CASE a \in AllOps /\ b = new
      BY <2>1, <2>4, <3>3
    <3>4. CASE a = new /\ b = new
      BY <2>1, <3>4, KnowsItself
    <3>. QED  BY <2>1, <3>1, <3>2, <3>3, <3>4
  <2>5. CounterNamesWrite' /\ VectorsClosed'
    BY <2>3, <2>4 DEF CounterNamesWrite, VectorsClosed
  <2>. QED  BY <1>2, <1>3, <2>2, <2>5 DEF KnowInv, RecordsJoined
<1>. QED  BY <1>1, <1>4, <1>5, OpsGrow

\* An own counter names one write of its device to the record, whatever the
\* clocks read, whoever is stopped between two calls and whatever the network
\* does (applyLocalWrite, Increment on the record as last saved).
THEOREM CounterNamesWriteAlways ==
  Spec /\ []Exclusive /\ [][Whole]_vars => []CounterNamesWrite
<1>1. KnowInv /\ Exclusive /\ [Next]_vars /\ [Whole]_vars => KnowInv'
  BY KnowStep
<1>2. KnowInv => CounterNamesWrite
  BY DEF KnowInv
<1>. QED  BY <1>1, <1>2, KnowInit, PTL DEF Spec

\* An op that a pull skips as "already applied" is in the record, under the same
\* conditions (pull, and AppendOp's duplicate report).
THEOREM SkipsOnlyAppliedAlways ==
  Spec /\ []Exclusive /\ [][Whole]_vars => []SkipsOnlyApplied
<1>1. KnowInv /\ Exclusive /\ [Next]_vars /\ [Whole]_vars => KnowInv'
  BY KnowStep
<1>2. KnowInv => SkipsOnlyApplied
  <2> SUFFICES ASSUME KnowInv, NEW d \in Device, sync[d].pc = "append",
                      serverLog[sync[d].at].device # d, serverLog[sync[d].at] \in log[d]
               PROVE  Knows(rec[d][serverLog[sync[d].at].record].vv, serverLog[sync[d].at].vv)
    BY DEF SkipsOnlyApplied
  <2> DEFINE op == serverLog[sync[d].at]
  <2>1. /\ OpsIdentified /\ op \in Op /\ op.device # d /\ op \in log[d]
        /\ \A r \in RecordId : Joined(rec[d][r], Applied(d, r))
    BY DEF KnowInv, CausalInv, RefInv, LogInv, RecordsJoined, TypeInv, TypeOK
  <2>2. op \notin Pending(d)
    BY <2>1 DEF Pending, OpsIdentified
  <2>3. op \in Applied(d, op.record) /\ op.record \in RecordId
    BY <2>1, <2>2 DEF Applied, OpsOn, Op
  <2>. QED  BY <2>1, <2>3 DEF Joined
<1>. QED  BY <1>1, <1>2, KnowInit, PTL DEF Spec

-----------------------------------------------------------------------------
(***************************************************************************)
(* The timestamps of the ops that a device writes.                         *)
(***************************************************************************)

\* No uint32 counter has reached its end.
HasRoom(t) == t.logical < LogicalMod - 1
CountersHaveRoom == /\ \A d \in Device : HasRoom(clock[d])
                    /\ \A op \in AllOps : HasRoom(op.hlc)

\* What the clock does, proved of a Clock whose state does not matter here.
Stamp == INSTANCE ClockProofs WITH
           Node <- 0, Nodes <- {0}, Reading <- {0},
           last <- ZeroStamp, seen <- ZeroStamp, ever <- ZeroStamp

\* Clock.Now and Clock.Observe leave the clock after what it was and saw.
LEMMA ClockMovesOn ==
  ASSUME NEW t \in Timestamp, NEW phys \in Nat, NEW n \in Nat, HasRoom(t)
  PROVE  /\ After(Now(t, phys, n), t)
         /\ \A r \in Timestamp : HasRoom(r) =>
              After(Observe(t, phys, r, n), t) /\ After(Observe(t, phys, r, n), r)
<1>1. /\ \A x, y : Stamp!After(x, y) = After(x, y)
      /\ \A x : Stamp!Room(x) = HasRoom(x)
      /\ Stamp!Timestamp = Timestamp
  BY DEF HasRoom, Stamp!Room, Stamp!Timestamp, Timestamp, Stamp!After, After
<1>2. After(Now(t, phys, n), t)
  <2>1. Stamp!Now(t, phys, n) = Now(t, phys, n)
    BY DEF Now, Stamp!Now, Larger, Stamp!Larger, Succ32, Stamp!Succ32
  <2>2. Stamp!After(Stamp!Now(t, phys, n), t)
    BY <1>1, Stamp!NowAfter, LogicalModAssumption
  <2>. QED  BY <1>1, <2>1, <2>2
<1>3. ASSUME NEW r \in Timestamp, HasRoom(r)
      PROVE  After(Observe(t, phys, r, n), t) /\ After(Observe(t, phys, r, n), r)
  <2>1. Stamp!Observe(t, phys, r, n) = Observe(t, phys, r, n)
    BY DEF Observe, Stamp!Observe, Larger, Stamp!Larger, Succ32, Stamp!Succ32
  <2>2. Stamp!Room(r)
    BY <1>3 DEF HasRoom, Stamp!Room
  <2>. QED  BY <1>1, <2>1, <2>2, Stamp!ObserveAfter, LogicalModAssumption
<1>. QED  BY <1>2, <1>3

\* An op that a device writes has a greater timestamp than all ops it holds.
Later == \A d \in Device : WriteAppend(d) =>
           \A op \in log'[d] \ log[d] : \A b \in log[d] : After(op.hlc, b.hlc)

\* What a step does to the clock of a process, and to the log beside it.
LEMMA ClockSteps ==
  ASSUME TypeInv, [Next]_vars, FaultKinds \cap {"restart", "crash"} = {}, NEW e \in Device
  PROVE  \/ clock'[e] = clock[e] /\ log'[e] = log[e]
         \/ \E phys \in Time[e] :
              /\ clock'[e] = Now(clock[e], phys, e)
              /\ log'[e] \subseteq log[e] \cup {NewOp(e, clock'[e])}
         \/ /\ sync[e].pc = "append"
            /\ \E phys \in Time[e] :
                 clock'[e] = Observe(clock[e], phys, serverLog[sync[e].at].hlc, e)
            /\ log'[e] \subseteq log[e] \cup {serverLog[sync[e].at]}
<1> DEFINE Goal == \/ clock'[e] = clock[e] /\ log'[e] = log[e]
                   \/ \E phys \in Time[e] :
                        /\ clock'[e] = Now(clock[e], phys, e)
                        /\ log'[e] \subseteq log[e] \cup {NewOp(e, clock'[e])}
                   \/ /\ sync[e].pc = "append"
                      /\ \E phys \in Time[e] :
                           clock'[e] = Observe(clock[e], phys, serverLog[sync[e].at].hlc, e)
                      /\ log'[e] \subseteq log[e] \cup {serverLog[sync[e].at]}
<1> SUFFICES Goal
  OBVIOUS
<1>1. clock \in [Device -> Timestamp] /\ log \in [Device -> SUBSET Op]
  BY DEF TypeInv, TypeOK
<1>2. CASE UNCHANGED <<clock, log>>
  BY <1>2
<1>3. ASSUME NEW d \in Device, WriteAppend(d)
      PROVE  Goal
  <2>1. PICK phys \in Time[d] :
          /\ clock' = [clock EXCEPT ![d] = Now(clock[d], phys, d)]
          /\ log' = [log EXCEPT ![d] = @ \cup {NewOp(d, Now(clock[d], phys, d))}]
    BY <1>3 DEF WriteAppend
  <2>2. CASE d = e
    <3>1. /\ clock'[e] = Now(clock[e], phys, e)
          /\ log'[e] = log[e] \cup {NewOp(e, Now(clock[e], phys, e))}
      BY <1>1, <2>1, <2>2
    <3>. QED  BY <2>2, <3>1
  <2>3. CASE d # e
    BY <1>1, <2>1, <2>3
  <2>. QED  BY <2>2, <2>3
<1>4. ASSUME NEW d \in Device, PullAppend(d)
      PROVE  Goal
  <2>1. PICK phys \in Time[d] :
          clock' = [clock EXCEPT ![d] = Observe(@, phys, serverLog[sync[d].at].hlc, d)]
    BY <1>4 DEF PullAppend
  <2>2. log' = log \/ log' = [log EXCEPT ![d] = @ \cup {serverLog[sync[d].at]}]
    BY <1>4 DEF PullAppend
  <2>3. CASE d = e
    <3>1. clock'[e] = Observe(clock[e], phys, serverLog[sync[e].at].hlc, e)
      BY <1>1, <2>1, <2>3
    <3>2. log'[e] \subseteq log[e] \cup {serverLog[sync[e].at]}
      BY <1>1, <2>2, <2>3
    <3>3. sync[e].pc = "append"
      BY <1>4, <2>3 DEF PullAppend
    <3>. QED  BY <2>3, <3>1, <3>2, <3>3
  <2>4. CASE d # e
    BY <1>1, <2>1, <2>2, <2>4
  <2>. QED  BY <2>3, <2>4
<1>5. ASSUME NEW d \in Device, WriteFails(d)
      PROVE  Goal
  <2>1. log' = log
    BY <1>5 DEF WriteFails, storeVars
  <2>2. CASE UNCHANGED clock
    BY <1>2, <2>1, <2>2
  <2>3. ASSUME NEW phys \in Time[d], clock' = [clock EXCEPT ![d] = Now(@, phys, d)]
        PROVE  Goal
    <3>1. d = e => clock'[e] = Now(clock[e], phys, e)
      BY <1>1, <2>3
    <3>2. d # e => clock'[e] = clock[e]
      BY <1>1, <2>3
    <3>. QED  BY <2>1, <3>1, <3>2
  <2>. QED  BY <1>5, <2>2, <2>3 DEF WriteFails
<1>6. ASSUME NEW d \in Device, PullFails(d)
      PROVE  Goal
  <2>1. log' = log
    BY <1>6 DEF PullFails, storeVars
  <2>2. CASE UNCHANGED clock
    BY <1>2, <2>1, <2>2
  <2>3. ASSUME sync[d].pc = "append", NEW phys \in Time[d],
               clock' = [clock EXCEPT ![d] = Observe(@, phys, serverLog[sync[d].at].hlc, d)]
        PROVE  Goal
    <3>1. d = e => clock'[e] = Observe(clock[e], phys, serverLog[sync[e].at].hlc, e)
      BY <1>1, <2>3
    <3>2. d # e => clock'[e] = clock[e]
      BY <1>1, <2>3
    <3>. QED  BY <2>1, <2>3, <3>1, <3>2
  <2>. QED  BY <1>6, <2>2, <2>3 DEF PullFails
<1>7. ASSUME NEW d \in Device PROVE ~Stop(d)
  BY DEF Stop, Fault, MayFault
<1>8. ASSUME NEW d \in Device, NEW k \in Attempt, HandlerStep(d, k) \/ HandlerFails(d, k)
      PROVE  UNCHANGED <<clock, log>>
  BY <1>8 DEF HandlerStep, HandlerAppend, HandlerLoad, HandlerSave, HandlerAudit,
       HandlerEnds, HandlerFails, storeVars
<1>9. ASSUME NEW d \in Device,
             \/ WriteBegin(d) \/ WriteSave(d) \/ SyncBegin(d) \/ PushReply(d)
             \/ PushFailed(d) \/ PullPage(d) \/ PullLoad(d) \/ PullSave(d)
             \/ PullAudit(d) \/ PullCheckpoint(d) \/ PushReplyLost(d) \/ PushTimeout(d)
      PROVE  UNCHANGED <<clock, log>>
  BY <1>9 DEF WriteBegin, WriteSave, SyncBegin, PushReply, PushFailed, PullPage, PullLoad,
       PullSave, PullAudit, PullCheckpoint, PushReplyLost, PushTimeout, storeVars
<1>10. CASE UNCHANGED vars
  BY <1>2, <1>10 DEF vars, storeVars
<1> HIDE DEF Goal
<1>. QED  BY <1>2, <1>3, <1>4, <1>5, <1>6, <1>7, <1>8, <1>9, <1>10
          DEF Next, WriteStep, SyncStep, FaultStep

\* The clock is behind nothing that its device holds.
LaterInv == LogInv /\ \A d \in Device : \A op \in log[d] : ~After(op.hlc, clock[d])

LEMMA LaterStep ==
  ASSUME FaultKinds \cap {"restart", "crash"} = {}, LaterInv, CountersHaveRoom, [Next]_vars
  PROVE  LaterInv' /\ Later
<1>1. /\ LogInv /\ TypeInv /\ OpsIdentified
      /\ clock \in [Device -> Timestamp] /\ log \in [Device -> SUBSET Op]
      /\ \A d \in Device : d \in Nat
      /\ \A d \in Device : \A phys \in Time[d] : phys \in Nat
  BY TimeAssumption, DeviceAssumption DEF LaterInv, LogInv, TypeInv, TypeOK
<1>2. ASSUME NEW d \in Device, NEW stamp \in Timestamp, After(stamp, clock[d]),
             NEW op \in log[d]
      PROVE  After(stamp, op.hlc)
  <2>1. ~After(op.hlc, clock[d]) /\ op.hlc \in Timestamp /\ clock[d] \in Timestamp
    BY <1>1 DEF LaterInv, Op
  <2>2. clock[d] = op.hlc \/ After(clock[d], op.hlc)
    BY <2>1, AfterTotal
  <2>. QED  BY <1>2, <2>1, <2>2, AfterTransitive
<1>3. ASSUME NEW d \in Device, NEW op \in log'[d]
      PROVE  ~After(op.hlc, clock'[d])
  <2>1. CASE clock'[d] = clock[d] /\ log'[d] = log[d]
    BY <1>3, <2>1 DEF LaterInv
  <2>2. ASSUME NEW stamp \in Timestamp, After(stamp, clock[d]), clock'[d] = stamp,
               NEW o, log'[d] \subseteq log[d] \cup {o}, o.hlc \in Timestamp, ~After(o.hlc, stamp)
        PROVE  ~After(op.hlc, clock'[d])
    <3>1. CASE op \in log[d]
      <4>1. After(stamp, op.hlc) /\ op.hlc \in Timestamp
        BY <1>1, <1>2, <2>2, <3>1 DEF Op
      <4>. QED  BY <2>2, <4>1, AfterAsymmetric
    <3>2. CASE op = o
      BY <2>2, <3>2
    <3>. QED  BY <1>3, <2>2, <3>1, <3>2
  <2>3. ASSUME NEW phys \in Time[d], clock'[d] = Now(clock[d], phys, d),
               log'[d] \subseteq log[d] \cup {NewOp(d, clock'[d])}
        PROVE  ~After(op.hlc, clock'[d])
    <3> DEFINE stamp == Now(clock[d], phys, d)
    <3>1. stamp \in Timestamp /\ After(stamp, clock[d])
      BY <1>1, ClockTypes, ClockMovesOn DEF CountersHaveRoom
    <3>2. NewOp(d, clock'[d]).hlc = stamp
      BY <2>3 DEF NewOp
    <3> HIDE DEF stamp
    <3>3. ~After(stamp, stamp)
      BY <3>1, AfterAsymmetric
    <3>. QED  BY <2>2, <2>3, <3>1, <3>2, <3>3 DEF stamp
  <2>4. ASSUME sync[d].pc = "append", NEW phys \in Time[d],
               clock'[d] = Observe(clock[d], phys, serverLog[sync[d].at].hlc, d),
               log'[d] \subseteq log[d] \cup {serverLog[sync[d].at]}
        PROVE  ~After(op.hlc, clock'[d])
    <3> DEFINE o     == serverLog[sync[d].at]
               stamp == Observe(clock[d], phys, o.hlc, d)
    <3>1. o \in Op /\ o \in AllOps /\ o.hlc \in Timestamp
      <4>1. o \in Op /\ sync[d].at \in DOMAIN serverLog
        BY <1>1, <2>4, PageOp DEF InPage
      <4>. QED  BY <1>1, <4>1 DEF OpsIdentified, Op, AllOps
    <3>2. stamp \in Timestamp /\ After(stamp, clock[d]) /\ After(stamp, o.hlc)
      BY <1>1, <3>1, ClockTypes, ClockMovesOn DEF CountersHaveRoom
    <3> HIDE DEF stamp, o
    <3>3. ~After(o.hlc, stamp)
      BY <3>1, <3>2, AfterAsymmetric
    <3>. QED  BY <2>2, <2>4, <3>1, <3>2, <3>3 DEF stamp, o
  <2>. QED  BY <1>1, <2>1, <2>3, <2>4, ClockSteps
<1>4. LogInv'
  BY <1>1, LogStep
<1>5. ASSUME NEW d \in Device, WriteAppend(d), NEW op \in log'[d] \ log[d], NEW b \in log[d]
      PROVE  After(op.hlc, b.hlc)
  <2>1. PICK phys \in Time[d] :
          log' = [log EXCEPT ![d] = @ \cup {NewOp(d, Now(clock[d], phys, d))}]
    BY <1>5 DEF WriteAppend
  <2>2. op = NewOp(d, Now(clock[d], phys, d))
    BY <1>1, <1>5, <2>1
  <2>3. op.hlc = Now(clock[d], phys, d)
    BY <2>2 DEF NewOp
  <2>4. op.hlc \in Timestamp /\ After(op.hlc, clock[d])
    BY <1>1, <2>3, ClockTypes, ClockMovesOn DEF CountersHaveRoom
  <2>. QED  BY <1>2, <2>4
<1>. QED  BY <1>3, <1>4, <1>5 DEF LaterInv, Later

\* While no client is stopped and no uint32 counter is at its end, a device's
\* writes are later than all it holds: what it wrote and what it pulled, whatever
\* its wall clock reads and whatever else fails (Clock.Now, Clock.Observe on every
\* pulled op, skipped ones included).
THEOREM LaterWithoutStops ==
  ASSUME FaultKinds \cap {"restart", "crash"} = {}
  PROVE  Spec /\ []CountersHaveRoom => [][Later]_vars
<1>1. Init => LaterInv
  BY LogInit DEF LaterInv, Init
<1>2. LaterInv /\ CountersHaveRoom /\ [Next]_vars => LaterInv' /\ Later
  BY LaterStep
<1>. QED  BY <1>1, <1>2, PTL DEF Spec

-----------------------------------------------------------------------------
(***************************************************************************)
(* The value that a device's records show.                                 *)
(***************************************************************************)

RecordsResolved == \A d \in Device, r \in RecordId : Resolved(rec[d][r], Applied(d, r))

ResolvedInv == KnowInv /\ StampsFollowKnowledge /\ RecordsResolved

LEMMA ResolvedInit == Init => ResolvedInv
<1> SUFFICES ASSUME Init PROVE ResolvedInv
  OBVIOUS
<1>1. AllOps = {} /\ \A d \in Device : log[d] = {}
  BY DEF Init, AllOps
<1>2. ASSUME NEW d \in Device, NEW r \in RecordId PROVE Resolved(rec[d][r], Applied(d, r))
  <2>1. rec[d][r] = NoRecord /\ Applied(d, r) = {}
    BY <1>1 DEF Init, Applied, OpsOn
  <2>. QED  BY <2>1 DEF Resolved
<1>. QED  BY <1>1, <1>2, KnowInit DEF ResolvedInv, RecordsResolved, StampsFollowKnowledge

\* What a write counts, it counts through an op that its device holds.
LEMMA StampsStep ==
  ASSUME KnowInv, StampsFollowKnowledge, [Next]_vars, [Later]_vars
  PROVE  StampsFollowKnowledge'
<1>1. /\ TypeInv /\ OpsIdentified
      /\ \A op \in AllOps : op.hlc \in Timestamp
  BY DEF KnowInv, CausalInv, RefInv, LogInv, TypeInv, TypeOK, AllOps, Op
<1>2. CASE AllOps' = AllOps
  BY <1>2 DEF StampsFollowKnowledge
<1>3. ASSUME NEW d \in Device, WriteAppend(d), Later
      PROVE  StampsFollowKnowledge'
  <2>1. PICK new :
          /\ log'[d] = log[d] \cup {new} /\ AllOps' = AllOps \cup {new}
          /\ new.device = d /\ new.vv \in VectorType
          /\ \A a \in AllOps : a.record = new.record => ~(a.vv[d] >= new.vv[d])
          /\ \A b \in AllOps : b.record = new.record /\ new.vv[b.device] >= b.vv[b.device] =>
               \E w \in log[d] : w.record = b.record /\ w.vv[b.device] >= b.vv[b.device]
    BY <1>3, NewWrite
  <2>2. new.hlc \in Timestamp
    <3>1. new \in log'[d] /\ \A x : x \in AllOps' <=> \E e \in Device : x \in log'[e]
      BY <2>1 DEF AllOps
    <3>2. TypeInv'
      BY <1>1, TypeStep
    <3>. QED  BY <3>1, <3>2 DEF TypeInv, TypeOK, Op
  <2>3. new \notin log[d]
    <3>1. new.vv[d] >= new.vv[d]
      BY <2>1 DEF VectorType
    <3>. QED  BY <2>1, <3>1 DEF AllOps
  <2>4. \A b \in log[d] : After(new.hlc, b.hlc)
    BY <1>3, <2>1, <2>3 DEF Later
  <2>5. ASSUME NEW a \in AllOps', NEW b \in AllOps', a.record = b.record,
               a.vv[b.device] >= b.vv[b.device], a # b
        PROVE  After(a.hlc, b.hlc)
    <3>1. CASE a \in AllOps /\ b \in AllOps
      BY <2>5, <3>1 DEF StampsFollowKnowledge
    <3>2. CASE a = new /\ b \in AllOps
      <4>1. PICK w \in log[d] : w.record = b.record /\ w.vv[b.device] >= b.vv[b.device]
        BY <2>1, <2>5, <3>2
      <4>2. w \in AllOps
        BY DEF AllOps
      <4>3. w = b \/ After(w.hlc, b.hlc)
        BY <3>2, <4>1, <4>2 DEF StampsFollowKnowledge
      <4>. QED  BY <1>1, <2>2, <2>4, <3>2, <4>2, <4>3, AfterTransitive
    <3>3. CASE a \in AllOps /\ b = new
      BY <2>1, <2>5, <3>3
    <3>. QED  BY <2>1, <2>5, <3>1, <3>2, <3>3
  <2>. QED  BY <2>5 DEF StampsFollowKnowledge
<1>4. CASE UNCHANGED vars
  BY <1>2, <1>4 DEF vars, storeVars, AllOps
<1>. QED  BY <1>1, <1>2, <1>3, <1>4, OpsGrow

\* What devices hold of one record can be resolved in any order.
LEMMA HeldWellStamped ==
  ASSUME StampsFollowKnowledge, \A op \in AllOps : Signed(op), NEW ops \in SUBSET AllOps,
         NEW r, \A op \in ops : op.record = r
  PROVE  WellStamped(ops)
BY DEF WellStamped, StampsFollowKnowledge, Signed

LEMMA ResolvedStep ==
  ASSUME ResolvedInv, Exclusive, [Next]_vars, [Whole]_vars, [Later]_vars
  PROVE  ResolvedInv'
<1>1. /\ KnowInv /\ TypeInv /\ OpsIdentified /\ PageCovered /\ RecordsCovered
      /\ StampsFollowKnowledge /\ \A op \in AllOps : Signed(op)
      /\ \A d \in Device : Fresh(d)
  BY DEF ResolvedInv, KnowInv, CausalInv, RefInv, LogInv
<1>2. ASSUME NEW d \in Device, NEW op, Applies(d, op), NEW r \in RecordId
      PROVE  Resolved(rec'[d][r], Applied(d, r)')
  <2>1. /\ op \in Op /\ op \in log[d] /\ op \notin Applied(d, r)
        /\ Applied(d, r)' = Applied(d, r) \cup OpsOn({op}, r)
    BY <1>1, <1>2, AppliedGrows
  <2>2. /\ rec'[d] = [rec[d] EXCEPT ![op.record] = Resolve(rec[d][op.record], op).record]
        /\ rec[d] \in [RecordId -> Record] /\ rec[d][r] \in Record
    BY <1>1, <1>2 DEF Applies, TypeInv, TypeOK
  <2>3. Resolved(rec[d][r], Applied(d, r)) /\ Applied(d, r) \in SUBSET Op
    BY <1>1 DEF ResolvedInv, RecordsResolved, Applied, OpsOn, TypeInv, TypeOK
  <2>4. CASE r = op.record
    <3>1. /\ Applied(d, r)' = Applied(d, r) \cup {op}
          /\ rec'[d][r] = Resolve(rec[d][r], op).record
      BY <2>1, <2>2, <2>4 DEF OpsOn
    <3>2. /\ Applied(d, r) \cup {op} \in SUBSET AllOps
          /\ \A o \in Applied(d, r) \cup {op} : o.record = r
      BY <2>1, <2>4 DEF Applied, OpsOn, AllOps
    <3>3. WellStamped(Applied(d, r) \cup {op})
      BY <1>1, <3>2, HeldWellStamped
    <3>4. Resolved(Resolve(rec[d][r], op).record, Applied(d, r) \cup {op})
      BY <2>1, <2>2, <2>3, <3>3, ResolveKeepsResolved
    <3>. QED  BY <3>1, <3>4
  <2>5. CASE r # op.record
    <3>1. Applied(d, r)' = Applied(d, r) /\ rec'[d][r] = rec[d][r]
      BY <2>1, <2>2, <2>5 DEF OpsOn
    <3>. QED  BY <2>3, <3>1
  <2>. QED  BY <2>4, <2>5
<1>3. ASSUME NEW d \in Device, NEW r \in RecordId
      PROVE  Resolved(rec'[d][r], Applied(d, r)')
  <2>1. CASE rec'[d] = rec[d] /\ AppliedStays(d)
    BY <2>1 DEF AppliedStays, ResolvedInv, RecordsResolved
  <2>2. (rec'[d] = rec[d] /\ AppliedStays(d)) \/ \E op : Applies(d, op)
    BY <1>1, DeviceChanges
  <2>. QED  BY <1>2, <2>1, <2>2
<1>4. KnowInv' /\ StampsFollowKnowledge'
  BY <1>1, KnowStep, StampsStep
<1>. QED  BY <1>3, <1>4 DEF ResolvedInv, RecordsResolved

LEMMA SettledRecords == ResolvedInv => DeviceRecords
<1> SUFFICES ASSUME ResolvedInv, NEW d \in Device, SettledDevice(d), NEW r \in RecordId
             PROVE  Resolved(rec[d][r], OpsOn(log[d], r))
  BY DEF DeviceRecords
<1>1. Pending(d) = {}
  BY DEF Pending, SettledDevice
<1>2. Applied(d, r) = OpsOn(log[d], r)
  BY <1>1 DEF Applied, OpsOn
<1>. QED  BY <1>2 DEF ResolvedInv, RecordsResolved

\* An op that counts another was written knowing it and has the greater
\* timestamp, and a counter names one write, as long as every write of a device
\* is later than all it holds (Increment on the record as last saved).
THEOREM StampsFollowKnowledgeAlways ==
  Spec /\ []Exclusive /\ [][Whole]_vars /\ [][Later]_vars => []StampsFollowKnowledge
<1>1. ResolvedInv /\ Exclusive /\ [Next]_vars /\ [Whole]_vars /\ [Later]_vars => ResolvedInv'
  BY ResolvedStep
<1>2. ResolvedInv => StampsFollowKnowledge
  BY DEF ResolvedInv
<1>. QED  BY <1>1, <1>2, ResolvedInit, PTL DEF Spec

\* Under the same conditions every record of a device is the greatest op, by HLC,
\* of those that the device holds, whatever order they came in (Resolve).
THEOREM DeviceRecordsAlways ==
  Spec /\ []Exclusive /\ [][Whole]_vars /\ [][Later]_vars => []DeviceRecords
<1>1. ResolvedInv /\ Exclusive /\ [Next]_vars /\ [Whole]_vars /\ [Later]_vars => ResolvedInv'
  BY ResolvedStep
<1>. QED  BY <1>1, ResolvedInit, SettledRecords, PTL DEF Spec

-----------------------------------------------------------------------------
(***************************************************************************)
(* Who meets the conditions.                                               *)
(***************************************************************************)

\* A client whose application makes one call at a time, whose database returns no
\* errors and whose process does not die in the middle of a call.
CalmClients == ~SharedClient /\ FaultKinds \cap {"fail", "crash"} = {}

OneCall == \A d \in Device : write[d].pc = "idle" \/ sync[d].pc = "idle"

LEMMA CalmWhole ==
  ASSUME CalmClients, OneCall
  PROVE  Whole
<1>1. \A d \in Device : ~WriteFails(d)
  BY DEF CalmClients, WriteFails, Fault, MayFault
<1>2. \A d \in Device : PullFails(d) => sync[d].pc = "pull"
  BY DEF CalmClients, PullFails, Fault, MayFault
<1>3. \A d \in Device : Stop(d) => sync[d].pc = "idle" /\ write[d].pc = "idle"
  BY DEF CalmClients, Stop, Fault, MayFault
<1>. QED  BY <1>1, <1>2, <1>3 DEF Whole, SettledDevice

LEMMA OneCallStep ==
  ASSUME CalmClients, TypeInv, OneCall, [Next]_vars
  PROVE  OneCall'
<1>1. ASSUME NEW d \in Device PROVE write'[d].pc = "idle" \/ sync'[d].pc = "idle"
  <2>1. /\ write \in [Device -> {NoWrite} \cup WriteInProgress] /\ NoWrite.pc = "idle"
        /\ write[d].pc = "idle" \/ sync[d].pc = "idle"
    BY DEF TypeInv, TypeOK, NoWrite, OneCall
  <2>2. CASE WriteAppend(d) \/ WriteSave(d)
    BY <2>1, <2>2 DEF WriteAppend, WriteSave
  <2>3. CASE PullAppend(d) \/ PullSave(d)
    BY <2>1, <2>3 DEF PullAppend, PullSave
  <2>4. CASE Quiet(d)
    <3>1. CASE WriteBegin(d)
      BY <2>1, <3>1 DEF WriteBegin, FreeToWrite, CalmClients
    <3>2. CASE PullLoad(d)
      BY <2>1, <3>2 DEF PullLoad
    <3>. QED  BY <2>1, <2>4, <3>1, <3>2 DEF Quiet, QuietChange, FreeToSync, CalmClients
  <2>. QED  BY <2>2, <2>3, <2>4, CalmWhole, DeviceSteps
<1>. QED  BY <1>1 DEF OneCall

\* Such clients do not work on one record twice at the same time, and break
\* nothing off between AppendOp and PutRecord (the calls of the package client,
\* made one after the other).
THEOREM CalmClientsExclusive ==
  ASSUME CalmClients
  PROVE  Spec => []Exclusive /\ [][Whole]_vars
<1> DEFINE Inv == TypeInv /\ OneCall
<1>1. Init => Inv
  BY TypeInit DEF Init, OneCall, NoWrite
<1>2. Inv /\ [Next]_vars => Inv' /\ [Whole]_vars
  BY TypeStep, OneCallStep, CalmWhole
<1>3. Inv => Exclusive
  BY DEF OneCall, Exclusive
<1>. QED  BY <1>1, <1>2, <1>3, PTL DEF Spec

=============================================================================
