-------------------------- MODULE ConvergenceProofs --------------------------
(***************************************************************************)
(* Conflict rows and convergence.  A write that loses a conflict leaves a  *)
(* trace on every replica that breaks no op off halfway.  The server, as   *)
(* long as it does not work on one record in two handlers at a time,       *)
(* applies what it acknowledges; and where the timestamps follow the       *)
(* vectors, replicas that hold all ops show the same values, and on the way*)
(* a record only advances.                                                 *)
(***************************************************************************)
EXTENDS RecordProofs

-----------------------------------------------------------------------------
(***************************************************************************)
(* Conflict rows: no write is lost without trace.                          *)
(***************************************************************************)

\* Traced, of the set of losers instead of the rows.
TracedTo(x, ops, lost) ==
  \A op \in ops :
    \/ op.id = x.win
    \/ \E w \in ops : w.id = x.win /\ Knows(w.vv, op.vv)
    \/ \E l \in ops : Knows(l.vv, op.vv) /\ l.id \in lost

LEMMA TracedByLosers ==
  ASSUME NEW x, NEW ops, NEW rows, TracedTo(x, ops, {row.loser : row \in rows})
  PROVE  Traced(x, ops, rows)
BY DEF Traced, TracedTo

\* A conflict is reported exactly of concurrent vectors (conflict.Resolve).
LEMMA ConflictsConcurrent ==
  ASSUME NEW x \in Record, NEW op \in Op
  PROVE  /\ Resolve(x, op).conflicted => Compare(x.vv, op.vv) = "Concurrent"
         /\ Resolve(x, op).loser \in OpId \cup {NoOp}
<1>1. x.found \in BOOLEAN /\ x.win \in OpId /\ op.id \in OpId
  BY DEF Record, Op
<1>2. Compare(x.vv, op.vv) \in {"Equal", "Descendant", "Ancestor", "Concurrent"}
  BY CompareValues
<1>. QED  BY <1>1, <1>2 DEF Resolve, Decision

\* Resolve keeps every op traced, if the loser it reports is on record afterwards.
LEMMA ResolveTraces ==
  ASSUME NEW ops \in SUBSET Op, NEW new \in Op, NEW x \in Record, Joined(x, ops),
         \A a, b \in ops \cup {new} : a.vv[b.device] >= b.vv[b.device] => Knows(a.vv, b.vv),
         NEW lost, NEW more, lost \subseteq more, TracedTo(x, ops, lost),
         Resolve(x, new).conflicted => Resolve(x, new).loser \in more
  PROVE  TracedTo(Resolve(x, new).record, ops \cup {new}, more)
<1> DEFINE all == ops \cup {new}
           y   == Resolve(x, new).record
<1> SUFFICES TracedTo(y, all, more)
  OBVIOUS
<1>1. /\ \A op \in all : op \in Op /\ op.vv \in VectorType /\ op.device \in Device
      /\ x.vv \in VectorType /\ x.found \in BOOLEAN
  BY DEF Op, Record
<1>2. /\ FromOp(new).win = new.id
      /\ \A v : [FromOp(new) EXCEPT !.vv = v].win = new.id
      /\ \A v : [x EXCEPT !.vv = v].win = x.win
  BY DEF FromOp, Record
<1>3. Compare(x.vv, new.vv) \in {"Equal", "Descendant", "Ancestor", "Concurrent"}
  BY CompareValues
<1>4. CASE ~x.found
  <2>1. ops = {}
    BY <1>4 DEF Joined
  <2>2. y.win = new.id
    BY <1>2, <1>4 DEF Resolve, Decision
  <2>. QED  BY <2>1, <2>2 DEF TracedTo
<1>5. CASE x.found /\ Compare(x.vv, new.vv) \in {"Equal", "Descendant"}
  <2>1. y = x
    BY <1>5 DEF Resolve, Decision
  <2>2. PICK b \in ops : x.vv[new.device] = b.vv[new.device]
    BY <1>1, <1>5 DEF Joined, NoRecord
  <2>3. Knows(b.vv, new.vv)
    <3>1. Knows(x.vv, new.vv)
      BY <1>5 DEF Knows
    <3>2. new.vv[new.device] <= x.vv[new.device]
      BY <1>1, <3>1, KnowsBounds
    <3>3. b.vv[new.device] >= new.vv[new.device]
      BY <1>1, <2>2, <3>2 DEF VectorType
    <3>. QED  BY <3>3
  <2>4. \/ b.id = x.win
        \/ \E w \in ops : w.id = x.win /\ Knows(w.vv, b.vv)
        \/ \E l \in ops : Knows(l.vv, b.vv) /\ l.id \in lost
    BY DEF TracedTo
  <2>5. \A w \in ops : Knows(w.vv, b.vv) => Knows(w.vv, new.vv)
    BY <1>1, <2>3, KnowsTransitive
  <2> HIDE DEF y
  <2>6. \/ \E w \in ops : w.id = y.win /\ Knows(w.vv, new.vv)
        \/ \E l \in ops : Knows(l.vv, new.vv) /\ l.id \in more
    BY <2>1, <2>3, <2>4, <2>5
  <2>7. TracedTo(y, ops, more)
    BY <2>1 DEF TracedTo
  <2>. QED  BY <2>6, <2>7 DEF TracedTo
<1>6. CASE x.found /\ Compare(x.vv, new.vv) = "Ancestor"
  <2>1. y.win = new.id
    BY <1>2, <1>6 DEF Resolve, Decision
  <2>2. Knows(new.vv, x.vv)
    BY <1>1, <1>6, CompareCases, BoundsKnow
  <2>3. \A op \in ops : Knows(x.vv, op.vv)
    BY DEF Joined
  <2>4. \A op \in ops : Knows(new.vv, op.vv)
    BY <1>1, <2>2, <2>3, KnowsTransitive
  <2> HIDE DEF y
  <2>. QED  BY <2>1, <2>4 DEF TracedTo
<1>7. CASE x.found /\ Compare(x.vv, new.vv) = "Concurrent" /\ After(new.hlc, x.hlc)
  <2>1. y.win = new.id /\ x.win \in more
    BY <1>2, <1>7 DEF Resolve, Decision
  <2>2. \A op \in ops : Knows(op.vv, op.vv)
    BY <1>1, KnowsItself
  <2> HIDE DEF y
  <2>. QED  BY <2>1, <2>2 DEF TracedTo
<1>8. CASE x.found /\ Compare(x.vv, new.vv) = "Concurrent" /\ ~After(new.hlc, x.hlc)
  <2>1. y.win = x.win /\ new.id \in more
    BY <1>2, <1>8 DEF Resolve, Decision
  <2>2. Knows(new.vv, new.vv)
    BY KnowsItself DEF Op
  <2> HIDE DEF y
  <2>. QED  BY <2>1, <2>2 DEF TracedTo
<1>. QED  BY <1>1, <1>3, <1>4, <1>5, <1>6, <1>7, <1>8

\* A local write meets no conflict with the record it was made on (Increment).
LEMMA OwnWritesNeverConflict ==
  ASSUME NEW x \in Record, NEW op \in Op, NEW d \in Device, op.vv = WriteVector(x, d)
  PROVE  ~Resolve(x, op).conflicted
<1>1. x.vv \in VectorType /\ op.vv \in VectorType
  BY DEF Record, Op
<1>2. \A n \in Device : x.vv[n] <= op.vv[n]
  BY <1>1 DEF WriteVector, Increment, VectorType
<1>3. Knows(op.vv, x.vv)
  BY <1>1, <1>2, BoundsKnow
<1>4. Compare(x.vv, op.vv) # "Concurrent"
  BY <1>3 DEF Knows, Compare
<1>. QED  BY <1>4, ConflictsConcurrent

\* No error and no stop falls between PutRecord and RecordConflict of a pull.
RowsWritten == \A d \in Device : PullFails(d) \/ Stop(d) => sync[d].pc # "audit"

\* The op whose conflict row a pull is about to write, and the losers on record.
DueLoser(d) == {l \in OpId : /\ sync[d].pc = "audit"
                             /\ l = Resolve(sync[d].snap, serverLog[sync[d].at]).loser}
Lost(d) == {row.loser : row \in audit[d]} \cup DueLoser(d)

\* A local write counts what it has read; the records' ops are traced.
AuditInOrder ==
  \A d \in Device :
    /\ write[d].pc = "save" =>
         \A op \in log[d] : op.id = <<d, written[d]>> =>
           op.vv = WriteVector(write[d].snap, d)
    /\ \A r \in RecordId : TracedTo(rec[d][r], Applied(d, r), Lost(d))

\* Rows are only added, by a pull.
LEMMA AuditSources ==
  ASSUME [Next]_vars
  PROVE  audit' = audit \/ \E d \in Device : PullAudit(d)
<1>1. ASSUME NEW d \in Device, NEW k \in Attempt, HandlerStep(d, k) \/ HandlerFails(d, k)
      PROVE  audit' = audit
  BY <1>1 DEF HandlerStep, HandlerAppend, HandlerLoad, HandlerSave, HandlerAudit,
       HandlerEnds, HandlerFails, storeVars
<1>2. ASSUME NEW d \in Device,
             \/ WriteBegin(d) \/ WriteStep(d) \/ SyncBegin(d) \/ PushReply(d)
             \/ PushFailed(d) \/ PullPage(d) \/ PullAppend(d) \/ PullLoad(d)
             \/ PullSave(d) \/ PullCheckpoint(d)
      PROVE  audit' = audit
  BY <1>2 DEF WriteBegin, WriteStep, WriteAppend, WriteSave, SyncBegin, PushReply,
       PushFailed, PullPage, PullAppend, PullLoad, PullSave, PullCheckpoint, storeVars
<1>3. ASSUME NEW d \in Device,
             \/ WriteFails(d) \/ PushReplyLost(d) \/ PushTimeout(d) \/ PullFails(d) \/ Stop(d)
      PROVE  audit' = audit
  BY <1>3 DEF WriteFails, PushReplyLost, PushTimeout, PullFails, Stop, storeVars
<1>4. CASE UNCHANGED vars
  BY <1>4 DEF vars, storeVars
<1>. QED  BY <1>1, <1>2, <1>3, <1>4 DEF Next, SyncStep, FaultStep

\* A Sync that has a row to write does nothing else.
LEMMA RowDue ==
  ASSUME TypeInv, [Next]_vars, [RowsWritten]_vars, NEW e \in Device, sync[e].pc = "audit"
  PROVE  PullAudit(e) \/ sync'[e] = sync[e]
<1>1. sync \in [Device -> Sync]
  BY DEF TypeInv, TypeOK
<1>2. ASSUME NEW d \in Device, NEW k \in Attempt, HandlerStep(d, k) \/ HandlerFails(d, k)
      PROVE  sync'[e] = sync[e]
  BY <1>2 DEF HandlerStep, HandlerAppend, HandlerLoad, HandlerSave, HandlerAudit,
       HandlerEnds, HandlerFails
<1>3. ASSUME NEW d \in Device, WriteBegin(d) \/ WriteStep(d) \/ WriteFails(d)
      PROVE  sync'[e] = sync[e]
  BY <1>3 DEF WriteBegin, WriteStep, WriteAppend, WriteSave, WriteFails
<1>4. ASSUME NEW d \in Device,
             \/ SyncBegin(d) \/ PushReply(d) \/ PullPage(d) \/ PullAppend(d) \/ PullLoad(d)
             \/ PullSave(d) \/ PullCheckpoint(d) \/ PushReplyLost(d)
      PROVE  sync'[e] = sync[e]
  <2>1. d # e
    BY <1>4 DEF SyncBegin, FreeToSync, PushReply, PullPage, PullAppend, PullLoad,
         PullSave, PullCheckpoint, PushReplyLost
  <2>2. \E x : sync' = [sync EXCEPT ![d] = x]
    <3>1. CASE SyncBegin(d) \/ PushReply(d) \/ PullPage(d) \/ PushReplyLost(d)
      BY <3>1 DEF SyncBegin, PushReply, PullPage, PushReplyLost
    <3>2. CASE PullAppend(d)
      BY <3>2 DEF PullAppend
    <3>3. CASE PullLoad(d)
      BY <3>3 DEF PullLoad
    <3>4. CASE PullSave(d)
      BY <3>4 DEF PullSave
    <3>5. CASE PullCheckpoint(d)
      BY <3>5 DEF PullCheckpoint
    <3>. QED  BY <1>4, <3>1, <3>2, <3>3, <3>4, <3>5
  <2>. QED  BY <1>1, <2>1, <2>2
<1>5. ASSUME NEW d \in Device, PushFailed(d) \/ PushTimeout(d)
      PROVE  sync'[e] = sync[e]
  <2>1. d # e
    BY <1>5 DEF PushFailed, PushTimeout
  <2>2. ASSUME NEW left, Resend(d, left) \/ GiveUp(d, left)
        PROVE  sync'[e] = sync[e]
    BY <1>1, <2>1, <2>2 DEF Resend, GiveUp
  <2>. QED  BY <1>5, <2>2 DEF PushFailed, PushTimeout
<1>6. ASSUME NEW d \in Device, PullFails(d) \/ Stop(d)
      PROVE  sync'[e] = sync[e]
  <2>1. sync[d].pc # "audit"
    BY <1>6, FaultsChange DEF PullFails, Stop, RowsWritten
  <2>2. sync' = [sync EXCEPT ![d] = NoSync]
    BY <1>6 DEF PullFails, Stop
  <2>. QED  BY <1>1, <2>1, <2>2
<1>7. ASSUME NEW d \in Device, PullAudit(d), d # e
      PROVE  sync'[e] = sync[e]
  BY <1>1, <1>7 DEF PullAudit
<1>8. CASE UNCHANGED vars
  BY <1>8 DEF vars
<1>. QED  BY <1>2, <1>3, <1>4, <1>5, <1>6, <1>7, <1>8 DEF Next, SyncStep, FaultStep

\* A loser stays on record: a row is not removed, and the row that is due is
\* written before anything else happens to the Sync (RecordConflict).
LEMMA LostGrows ==
  ASSUME TypeInv, [Next]_vars, [RowsWritten]_vars, NEW e \in Device
  PROVE  Lost(e) \subseteq Lost(e)'
<1>1. sync \in [Device -> Sync] /\ audit \in [Device -> SUBSET AuditRow] /\ LogsGrow
  BY StepGrows DEF TypeInv, TypeOK
<1>2. audit[e] \subseteq audit'[e]
  <2>1. CASE audit' = audit
    BY <2>1
  <2>2. ASSUME NEW d \in Device, PullAudit(d) PROVE audit[e] \subseteq audit'[e]
    BY <1>1, <2>2 DEF PullAudit
  <2>. QED  BY <2>1, <2>2, AuditSources
<1>3. ASSUME NEW l \in DueLoser(e)
      PROVE  l \in Lost(e)'
  <2>1. sync[e].pc = "audit" /\ l = Resolve(sync[e].snap, serverLog[sync[e].at]).loser
    BY <1>3 DEF DueLoser
  <2>2. CASE PullAudit(e)
    <3> DEFINE row == Row(serverLog[sync[e].at], Resolve(sync[e].snap, serverLog[sync[e].at]))
    <3>1. row \in audit'[e]
      BY <1>1, <2>2 DEF PullAudit
    <3>2. row.loser = l
      BY <2>1 DEF Row
    <3> HIDE DEF row
    <3>. QED  BY <3>1, <3>2 DEF Lost
  <2>3. CASE sync'[e] = sync[e]
    <3>1. serverLog'[sync[e].at] = serverLog[sync[e].at]
      BY <1>1, <2>1, PageOp DEF LogsGrow, InPage
    <3>2. l \in DueLoser(e)'
      BY <1>3, <2>1, <2>3, <3>1 DEF DueLoser
    <3>. QED  BY <3>2 DEF Lost
  <2>. QED  BY <2>1, <2>2, <2>3, RowDue
<1>. QED  BY <1>2, <1>3 DEF Lost

\* The op that a local write is about to resolve is the one it made of what it
\* has read.
LEMMA OwnVectorStep ==
  ASSUME KnowInv, AuditInOrder, [Next]_vars, [Whole]_vars, NEW e \in Device,
         write'[e].pc = "save", NEW op \in log'[e], op.id = <<e, written'[e]>>
  PROVE  op.vv = WriteVector(write'[e].snap, e)
<1>1. /\ TypeInv /\ OpsIdentified
      /\ log \in [Device -> SUBSET Op] /\ written \in [Device -> Nat]
      /\ write \in [Device -> {NoWrite} \cup WriteInProgress]
  BY DEF KnowInv, CausalInv, RefInv, LogInv, TypeInv, TypeOK
<1>2. CASE WriteAppend(e)
  <2>1. PICK stamp : log' = [log EXCEPT ![e] = @ \cup {NewOp(e, stamp)}]
    BY <1>2 DEF WriteAppend
  <2>2. written'[e] = written[e] + 1 /\ write'[e].snap = write[e].snap
    BY <1>1, <1>2 DEF WriteAppend, WriteInProgress, NoWrite
  <2>3. op \notin log[e]
    <3>1. SUFFICES ASSUME op \in log[e] PROVE FALSE
      OBVIOUS
    <3>2. op.device = e /\ op.id[2] \in 1 .. written[e]
      BY <1>1, <3>1 DEF OpsIdentified
    <3>. QED  BY <1>1, <2>2, <3>2
  <2>4. op = NewOp(e, stamp)
    BY <1>1, <2>1, <2>3
  <2>. QED  BY <2>2, <2>4 DEF NewOp
<1>3. CASE write'[e] = write[e] /\ op \in log[e] /\ written'[e] = written[e]
  BY <1>3 DEF AuditInOrder
<1>4. CASE WriteSave(e)
  BY <1>1, <1>4 DEF WriteSave, NoWrite
<1>5. CASE PullAppend(e)
  <2> DEFINE o == serverLog[sync[e].at]
  <2>1. o \in Op /\ sync[e].at \in DOMAIN serverLog
    BY <1>1, <1>5, PageOp DEF PullAppend, InPage
  <2>2. log' = log \/ (o.id \notin Ids(log[e]) /\ log' = [log EXCEPT ![e] = @ \cup {o}])
    BY <1>5 DEF PullAppend
  <2>3. o.id[1] = e => o \in log[e]
    BY <1>1, <2>1 DEF OpsIdentified, Op
  <2> HIDE DEF o
  <2>4. op \in log[e]
    BY <1>1, <2>2, <2>3 DEF Ids
  <2>. QED  BY <1>3, <1>5, <2>4 DEF PullAppend
<1>6. CASE PullSave(e)
  BY <1>3, <1>6 DEF PullSave
<1>7. CASE Quiet(e)
  <2>1. write'[e] = write[e]
    BY <1>1, <1>7 DEF Quiet, QuietChange, WriteBegin, NoWrite
  <2>. QED  BY <1>3, <1>7, <2>1 DEF Quiet
<1>. QED  BY <1>1, <1>2, <1>4, <1>5, <1>6, <1>7, DeviceSteps

LEMMA AuditStep ==
  ASSUME KnowInv, Exclusive, AuditInOrder, [Next]_vars, [Whole]_vars, [RowsWritten]_vars
  PROVE  AuditInOrder'
<1>1. /\ TypeInv /\ OpsIdentified /\ PageCovered /\ RecordsCovered /\ VectorsClosed
      /\ \A d \in Device : Fresh(d)
      /\ \A d \in Device, r \in RecordId : Joined(rec[d][r], Applied(d, r))
      /\ \A d \in Device, r \in RecordId : Applied(d, r) \in SUBSET Op
      /\ log \in [Device -> SUBSET Op] /\ rec \in [Device -> [RecordId -> Record]]
      /\ sync \in [Device -> Sync]
  BY DEF KnowInv, CausalInv, RefInv, LogInv, RecordsJoined, TypeInv, TypeOK, Applied, OpsOn
<1> SUFFICES ASSUME NEW e \in Device, NEW r \in RecordId
             PROVE  TracedTo(rec'[e][r], Applied(e, r)', Lost(e)')
  BY OwnVectorStep DEF AuditInOrder
<1>2. Lost(e) \subseteq Lost(e)' /\ TracedTo(rec[e][r], Applied(e, r), Lost(e))
  BY <1>1, LostGrows DEF AuditInOrder
<1>3. TracedTo(rec[e][r], Applied(e, r), Lost(e)')
  BY <1>2 DEF TracedTo
<1>4. CASE rec'[e] = rec[e] /\ AppliedStays(e)
  BY <1>3, <1>4 DEF AppliedStays
<1>5. ASSUME NEW op, Applies(e, op),
             Resolve(rec[e][op.record], op).conflicted =>
               Resolve(rec[e][op.record], op).loser \in Lost(e)'
      PROVE  TracedTo(rec'[e][r], Applied(e, r)', Lost(e)')
  <2>1. /\ op \in Op /\ op \in log[e]
        /\ Applied(e, r)' = Applied(e, r) \cup OpsOn({op}, r)
    BY <1>1, <1>5, AppliedGrows
  <2>2. rec'[e] = [rec[e] EXCEPT ![op.record] = Resolve(rec[e][op.record], op).record]
    BY <1>5 DEF Applies
  <2>3. CASE r = op.record
    <3>1. /\ Applied(e, r)' = Applied(e, r) \cup {op}
          /\ rec'[e][r] = Resolve(rec[e][r], op).record /\ rec[e][r] \in Record
      BY <1>1, <2>1, <2>2, <2>3 DEF OpsOn
    <3>2. \A a \in Applied(e, r) \cup {op} : a \in AllOps /\ a.record = r
      BY <2>1, <2>3 DEF Applied, OpsOn, AllOps
    <3>3. \A a, b \in Applied(e, r) \cup {op} :
            a.vv[b.device] >= b.vv[b.device] => Knows(a.vv, b.vv)
      BY <1>1, <3>2 DEF VectorsClosed
    <3>4. TracedTo(Resolve(rec[e][r], op).record, Applied(e, r) \cup {op}, Lost(e)')
      BY <1>1, <1>2, <1>5, <2>1, <2>3, <3>1, <3>3, ResolveTraces
    <3>. QED  BY <3>1, <3>4
  <2>4. CASE r # op.record
    <3>1. Applied(e, r)' = Applied(e, r) /\ rec'[e][r] = rec[e][r]
      BY <1>1, <2>1, <2>2, <2>4 DEF OpsOn
    <3>. QED  BY <1>3, <3>1
  <2>. QED  BY <2>3, <2>4
<1>6. CASE WriteSave(e)
  <2>1. PICK op : /\ Applies(e, op)
                  /\ op.id = <<e, written[e]>> /\ write[e].snap = rec[e][op.record]
    BY <1>1, <1>6, WriteApplies
  <2>2. op \in log[e] /\ op \in Op /\ op.record \in RecordId
    BY <1>1, <2>1 DEF Applies, Pending, Op
  <2>3. op.vv = WriteVector(rec[e][op.record], e)
    BY <1>6, <2>1, <2>2 DEF AuditInOrder, WriteSave
  <2>4. ~Resolve(rec[e][op.record], op).conflicted
    BY <1>1, <2>2, <2>3, OwnWritesNeverConflict
  <2>. QED  BY <1>5, <2>1, <2>4
<1>7. CASE PullSave(e)
  <2> DEFINE op == serverLog[sync[e].at]
  <2>1. Applies(e, op) /\ sync[e].snap = rec[e][op.record]
    BY <1>1, <1>7, PullApplies
  <2>2. ASSUME Resolve(rec[e][op.record], op).conflicted
        PROVE  Resolve(rec[e][op.record], op).loser \in Lost(e)'
    <3>1. /\ sync' = [sync EXCEPT ![e].pc = "audit"] /\ serverLog' = serverLog
      BY <1>7, <2>1, <2>2 DEF PullSave, serverVars
    <3>2. /\ sync'[e].pc = "audit" /\ sync'[e].at = sync[e].at
          /\ sync'[e].snap = sync[e].snap
      BY <1>1, <3>1 DEF Sync
    <3>3. Resolve(rec[e][op.record], op).loser \in OpId
      <4>1. op \in Op /\ op.record \in RecordId
        BY <1>1, <2>1 DEF Applies, Pending, Op
      <4>2. rec[e][op.record] \in Record /\ NoOp \in OpId
        BY <1>1, <4>1 DEF NoOp, OpId
      <4>. QED  BY <4>1, <4>2, ConflictsConcurrent
    <3>4. Resolve(rec[e][op.record], op).loser \in DueLoser(e)'
      BY <2>1, <3>1, <3>2, <3>3 DEF DueLoser
    <3>. QED  BY <3>4 DEF Lost
  <2> HIDE DEF op
  <2>. QED  BY <1>5, <2>1, <2>2
<1>8. (rec'[e] = rec[e] /\ AppliedStays(e)) \/ WriteSave(e) \/ PullSave(e)
  BY <1>1, DeviceChanges
<1>. QED  BY <1>4, <1>6, <1>7, <1>8

LEMMA AuditInit == Init => AuditInOrder
<1> SUFFICES ASSUME Init, NEW d \in Device
             PROVE  /\ write[d].pc # "save"
                    /\ \A r \in RecordId : TracedTo(rec[d][r], Applied(d, r), Lost(d))
  BY DEF AuditInOrder
<1>1. write[d].pc # "save" /\ \A r : Applied(d, r) = {}
  BY DEF Init, NoWrite, Applied, OpsOn
<1>. QED  BY <1>1 DEF TracedTo

\* Every write that lost is in the past of the winner, or of an op that a conflict
\* row of the device names, whatever the clocks read and whenever a client is
\* stopped, as long as the stop or the error does not fall between two statements
\* that belong together (AppendOp, PutRecord and RecordConflict of one op).
THEOREM LosersAuditedAlways ==
  Spec /\ []Exclusive /\ [][Whole]_vars /\ [][RowsWritten]_vars => []LosersAudited
<1>1. KnowInv /\ Exclusive /\ [Next]_vars /\ [Whole]_vars => KnowInv'
  BY KnowStep
<1>2. KnowInv /\ Exclusive /\ AuditInOrder /\ [Next]_vars /\ [Whole]_vars /\ [RowsWritten]_vars
        => AuditInOrder'
  BY AuditStep
<1>3. AuditInOrder => LosersAudited
  <2> SUFFICES ASSUME AuditInOrder, NEW d \in Device, SettledDevice(d),
                      sync[d].pc # "audit", NEW r \in RecordId
               PROVE  Traced(rec[d][r], OpsOn(log[d], r), audit[d])
    BY DEF LosersAudited
  <2>1. Pending(d) = {} /\ DueLoser(d) = {}
    BY DEF Pending, SettledDevice, DueLoser
  <2>2. /\ Applied(d, r) = OpsOn(log[d], r)
        /\ Lost(d) = {row.loser : row \in audit[d]}
    BY <2>1 DEF Applied, OpsOn, Lost
  <2>3. TracedTo(rec[d][r], Applied(d, r), Lost(d))
    BY DEF AuditInOrder
  <2>. QED  BY <2>2, <2>3, TracedByLosers
<1>. QED  BY <1>1, <1>2, <1>3, KnowInit, AuditInit, PTL DEF Spec

-----------------------------------------------------------------------------
(***************************************************************************)
(* The server: the ops that its handlers have stored and not yet applied.  *)
(***************************************************************************)

\* The op that a handler works on, from AppendOp to PutRecord.
Holds(d, k, op) == handler[d][k].pc \in {"load", "save"} /\ IsNext(op, handler[d][k].todo)
Saves(d, k, op) == handler[d][k].pc = "save" /\ IsNext(op, handler[d][k].todo)

\* No two handlers have read one record that both are about to save: two
\* overlapping requests do not touch the same record at the same time.
ServerExclusive ==
  \A d, e \in Device : \A k, j \in Attempt : \A a, b :
    Saves(d, k, a) /\ Saves(e, j, b) /\ a.record = b.record => d = e /\ k = j

\* No error and no stop falls between AppendOp and PutRecord of an op.
ServerWhole == \A d \in Device, k \in Attempt :
                 HandlerFails(d, k) => handler[d][k].pc \notin {"load", "save"}

ServerPending == {op \in ServerOps : \E d \in Device, k \in Attempt : Holds(d, k, op)}
ServerApplied(r) == OpsOn(ServerOps \ ServerPending, r)

\* A step that changes nothing about what has been applied.
ServerAppliedStays == \A r \in RecordId : ServerApplied(r)' = ServerApplied(r)

\* An op is in the hands of one handler, and what was read for it is the record.
ServerFresh ==
  /\ \A d, e \in Device : \A k, j \in Attempt : \A op :
       Holds(d, k, op) /\ Holds(e, j, op) => d = e /\ k = j
  /\ \A d \in Device, k \in Attempt : \A op :
       Saves(d, k, op) => handler[d][k].snap = serverRec[op.record]

\* A handler takes one op at a time.
LEMMA NextUnique ==
  ASSUME TypeInv, OpsIdentified, NEW d \in Device, NEW k \in Attempt,
         NEW a, IsNext(a, handler[d][k].todo), NEW b, IsNext(b, handler[d][k].todo)
  PROVE  a = b
<1>1. /\ a \in log[d] /\ b \in log[d] /\ a.device = d /\ b.device = d
      /\ a.id[2] >= b.id[2] /\ b.id[2] >= a.id[2]
  BY DEF IsNext, OpsIdentified
<1>2. /\ a.id[1] = d /\ b.id[1] = d
      /\ a.id[2] \in 1 .. written[d] /\ b.id[2] \in 1 .. written[d]
  BY <1>1 DEF OpsIdentified
<1>3. /\ a.id \in OpId /\ b.id \in OpId
  BY <1>1 DEF TypeInv, TypeOK, Op
<1>4. a.id[2] = b.id[2]
  BY <1>1, <1>2 DEF TypeInv, TypeOK
<1>5. a.id = b.id
  BY <1>2, <1>3, <1>4 DEF OpId
<1>. QED  BY <1>1, <1>5 DEF OpsIdentified

\* An op that is stored under its id is stored.
LEMMA StoredSame ==
  ASSUME TypeInv, OpsIdentified, NEW d \in Device, NEW op \in log[d], op.device = d
  PROVE  Stored(op) <=> op \in ServerOps
<1>1. ASSUME NEW i \in DOMAIN serverLog, serverLog[i].id = op.id
      PROVE  serverLog[i] = op
  <2>1. serverLog[i] \in log[d]
    BY <1>1, SameIdSameOp DEF Ids
  <2>. QED  BY <1>1, <2>1 DEF OpsIdentified
<1>. QED  BY <1>1 DEF Stored, ServerOps

\* What the server has stored is known to some device.
LEMMA StoredKnown ==
  ASSUME TypeInv, OpsIdentified
  PROVE  ServerOps \in SUBSET Op /\ ServerOps \subseteq AllOps
<1>1. ASSUME NEW i \in DOMAIN serverLog PROVE serverLog[i] \in Op /\ serverLog[i] \in AllOps
  <2>1. serverLog[i] \in Op
    BY DEF TypeInv, TypeOK
  <2>. QED  BY <2>1 DEF OpsIdentified, Op, AllOps
<1>. QED  BY <1>1 DEF ServerOps

\* What any other step does to a handler: nothing, or nothing that has to do with
\* an op in hand, or the end of its turn.
Rests(h, g) == g = h \/ (~InHand(h) /\ ~InHand(g))
QuietHandler(d, k) ==
  \/ Rests(handler[d][k], handler'[d][k])
  \/ /\ handler[d][k].pc = "audit" /\ ~InHand(handler'[d][k])
     /\ HandlerAudit(d, k) \/ HandlerFails(d, k)

\* The steps that store or apply an op on the server, and all others.
LEMMA ServerSteps ==
  ASSUME TypeInv, [Next]_vars, [ServerWhole]_vars
  PROVE  \/ \E d \in Device, k \in Attempt :
              \/ HandlerAppend(d, k) /\ serverLog' # serverLog
              \/ HandlerLoad(d, k) \/ HandlerSave(d, k)
         \/ /\ UNCHANGED <<serverLog, serverRec>>
            /\ \A d \in Device, k \in Attempt : QuietHandler(d, k)
<1> DEFINE NoneStored ==
             /\ UNCHANGED <<serverLog, serverRec>>
             /\ \A d \in Device, k \in Attempt : QuietHandler(d, k)
<1>1. /\ handler \in [Device -> [Attempt -> Handler]]
      /\ \A d \in Device : sync[d].attempt \in Attempt
  BY DEF TypeInv, TypeOK, Sync
<1>2. ~InHand(FreeHandler) /\ \A batch : ~InHand(Started(batch))
  BY DEF InHand, FreeHandler, Started
<1>3. ASSUME UNCHANGED <<serverLog, serverRec, handler>>
      PROVE  NoneStored
  BY <1>3 DEF QuietHandler, Rests
<1>4. ASSUME UNCHANGED <<serverLog, serverRec>>, NEW d \in Device, NEW k \in Attempt,
             NEW g, handler' = [handler EXCEPT ![d][k] = g], Rests(handler[d][k], g)
      PROVE  NoneStored
  <2>1. \A e \in Device, j \in Attempt :
          handler'[e][j] = IF e = d /\ j = k THEN g ELSE handler[e][j]
    BY <1>1, <1>4
  <2>. QED  BY <1>4, <2>1 DEF QuietHandler, Rests
<1>5. ASSUME NEW d \in Device,
             \/ WriteBegin(d) \/ WriteStep(d) \/ WriteFails(d) \/ PullPage(d) \/ PullAppend(d)
             \/ PullLoad(d) \/ PullSave(d) \/ PullAudit(d) \/ PullCheckpoint(d) \/ PullFails(d)
      PROVE  NoneStored
  <2>1. UNCHANGED <<serverLog, serverRec, handler>>
    BY <1>5 DEF WriteBegin, WriteStep, WriteAppend, WriteSave, WriteFails, PullPage,
         PullAppend, PullLoad, PullSave, PullAudit, PullCheckpoint, PullFails, serverVars
  <2>. QED  BY <1>3, <2>1
<1>6. ASSUME NEW d \in Device, SyncBegin(d)
      PROVE  NoneStored
  <2>1. UNCHANGED <<serverLog, serverRec>> /\ 1 \in Attempt
    BY <1>6, AttemptsAssumption DEF SyncBegin, serverVars, Attempt
  <2>2. CASE handler' = handler
    BY <1>3, <2>1, <2>2
  <2>3. CASE /\ handler[d][1].pc = "free"
             /\ handler' = [handler EXCEPT ![d][1] = Started(Outbox(d))]
    <3>1. Rests(handler[d][1], Started(Outbox(d)))
      BY <1>2, <2>3 DEF Rests, InHand
    <3>. QED  BY <1>4, <2>1, <2>3, <3>1
  <2>. QED  BY <1>6, <2>2, <2>3 DEF SyncBegin
<1>7. ASSUME NEW d \in Device, PushReply(d) \/ PushReplyLost(d)
      PROVE  NoneStored
  <2>1. /\ UNCHANGED <<serverLog, serverRec>>
        /\ handler' = [handler EXCEPT ![d][sync[d].attempt] = FreeHandler]
        /\ handler[d][sync[d].attempt].pc = "append"
    BY <1>7 DEF PushReply, PushReplyLost, Answered, serverVars
  <2>2. Rests(handler[d][sync[d].attempt], FreeHandler)
    BY <1>2, <2>1 DEF Rests, InHand
  <2>. QED  BY <1>1, <1>4, <2>1, <2>2
<1>8. ASSUME NEW d \in Device, PushFailed(d) \/ PushTimeout(d)
      PROVE  NoneStored
  <2> DEFINE k == sync[d].attempt
  <2>1. UNCHANGED <<serverLog, serverRec>>
    BY <1>8 DEF PushFailed, PushTimeout, serverVars
  <2>2. PICK left : /\ Resend(d, left) \/ GiveUp(d, left)
                    /\ Rests(handler[d][k], left)
    <3>1. CASE PushFailed(d)
      <4>1. Rests(handler[d][k], FreeHandler)
        BY <1>2, <3>1 DEF PushFailed, Rests, InHand
      <4>. QED  BY <3>1, <4>1 DEF PushFailed
    <3>2. CASE PushTimeout(d)
      <4> DEFINE l == IF Answered(d, k) THEN FreeHandler ELSE handler[d][k]
      <4>1. Rests(handler[d][k], l)
        BY <1>2 DEF Rests, Answered, InHand
      <4>2. Resend(d, l) \/ GiveUp(d, l)
        BY <3>2 DEF PushTimeout
      <4>. QED  BY <4>1, <4>2
    <3>. QED  BY <1>8, <3>1, <3>2
  <2>3. CASE GiveUp(d, left)
    <3>1. handler' = [handler EXCEPT ![d][k] = left]
      BY <2>3 DEF GiveUp
    <3>. QED  BY <1>1, <1>4, <2>1, <2>2, <3>1
  <2>4. CASE Resend(d, left)
    <3> DEFINE again == Started(handler[d][k].batch)
    <3>1. /\ k \in Nat /\ k + 1 \in Attempt /\ handler[d][k + 1].pc = "free"
          /\ handler' = [handler EXCEPT ![d][k] = left, ![d][k + 1] = again]
      BY <1>1, <2>4, AttemptsAssumption DEF Resend, Attempt
    <3>2. ~InHand(again)
      BY <1>2
    <3> HIDE DEF k, again
    <3>3. \A e \in Device, j \in Attempt :
            handler'[e][j] = IF e = d /\ j = k + 1 THEN again
                             ELSE IF e = d /\ j = k THEN left ELSE handler[e][j]
      BY <1>1, <3>1
    <3>4. k # k + 1
      BY <3>1
    <3>5. ASSUME NEW e \in Device, NEW j \in Attempt
          PROVE  QuietHandler(e, j)
      <4>1. CASE e = d /\ j = k + 1
        BY <3>1, <3>2, <3>3, <4>1 DEF QuietHandler, Rests, InHand
      <4>2. CASE e = d /\ j = k
        <5>1. handler'[e][j] = left
          BY <3>3, <3>4, <4>2
        <5>. QED  BY <2>2, <4>2, <5>1 DEF QuietHandler
      <4>3. CASE ~(e = d /\ j = k + 1) /\ ~(e = d /\ j = k)
        BY <3>3, <4>3 DEF QuietHandler, Rests
      <4>. QED  BY <4>1, <4>2, <4>3
    <3>. QED  BY <2>1, <3>5
  <2>. QED  BY <2>2, <2>3, <2>4
<1>9. ASSUME NEW d \in Device, Stop(d)
      PROVE  NoneStored
  <2>1. UNCHANGED <<serverLog, serverRec>>
    BY <1>9 DEF Stop, serverVars
  <2>2. \A e \in Device, j \in Attempt :
          \/ handler'[e][j] = handler[e][j]
          \/ handler[e][j].pc = "failed" /\ handler'[e][j] = FreeHandler
    BY <1>1, <1>9 DEF Stop
  <2>. QED  BY <1>2, <2>1, <2>2 DEF QuietHandler, Rests, InHand
<1>10. ASSUME NEW d \in Device, NEW k \in Attempt,
              HandlerEnds(d, k) \/ HandlerFails(d, k) \/ HandlerAudit(d, k)
       PROVE  NoneStored
  <2>1. /\ UNCHANGED <<serverLog, serverRec>>
        /\ handler[d][k].pc \notin {"load", "save"} /\ handler[d][k] \in Handler
    BY <1>1, <1>10, FaultsChange DEF HandlerEnds, HandlerFails, HandlerAudit, serverVars,
         ServerWhole
  <2>2. PICK g : handler' = [handler EXCEPT ![d][k] = g] /\ ~InHand(g)
    <3>1. CASE HandlerEnds(d, k)
      BY <1>2, <3>1 DEF HandlerEnds
    <3>2. CASE HandlerFails(d, k)
      <4> DEFINE failed == [FreeHandler EXCEPT !.pc = "failed", !.batch = handler[d][k].batch]
      <4>1. ~InHand(failed)
        BY DEF InHand, FreeHandler
      <4>2. \/ handler' = [handler EXCEPT ![d][k] = FreeHandler]
            \/ handler' = [handler EXCEPT ![d][k] = failed]
        <5>1. CASE Awaited(d, k)
          BY <3>2, <5>1 DEF HandlerFails
        <5>2. CASE ~Awaited(d, k)
          BY <3>2, <5>2 DEF HandlerFails
        <5>. QED  BY <5>1, <5>2
      <4> HIDE DEF failed
      <4>. QED  BY <1>2, <4>1, <4>2
    <3>3. CASE HandlerAudit(d, k)
      <4>1. PICK op : handler' = [handler EXCEPT ![d][k] = NextOp(@, op)]
        BY <3>3 DEF HandlerAudit
      <4> DEFINE g == NextOp(handler[d][k], op)
      <4>2. ~InHand(g)
        BY <2>1 DEF InHand, NextOp, Handler
      <4>3. handler' = [handler EXCEPT ![d][k] = g]
        BY <4>1
      <4> HIDE DEF g
      <4>. QED  BY <4>2, <4>3
    <3>. QED  BY <1>10, <3>1, <3>2, <3>3
  <2>3. \A e \in Device, j \in Attempt :
          handler'[e][j] = IF e = d /\ j = k THEN g ELSE handler[e][j]
    BY <1>1, <2>2
  <2>4. QuietHandler(d, k)
    <3>1. CASE handler[d][k].pc = "audit"
      BY <1>10, <2>2, <2>3, <3>1 DEF QuietHandler, HandlerEnds
    <3>2. CASE handler[d][k].pc # "audit"
      BY <2>1, <2>2, <2>3, <3>2 DEF QuietHandler, Rests, InHand
    <3>. QED  BY <3>1, <3>2
  <2>5. ASSUME NEW e \in Device, NEW j \in Attempt, ~(e = d /\ j = k)
        PROVE  QuietHandler(e, j)
    BY <2>3, <2>5 DEF QuietHandler, Rests
  <2>. QED  BY <2>1, <2>4, <2>5
<1>11. ASSUME NEW d \in Device, NEW k \in Attempt, HandlerAppend(d, k), serverLog' = serverLog
       PROVE  NoneStored
  <2>1. serverRec' = serverRec
    BY <1>11 DEF HandlerAppend
  <2>2. PICK op \in handler[d][k].todo :
          \/ handler' = [handler EXCEPT ![d][k].todo = @ \ {op}]
          \/ serverLog' = Append(serverLog, op)
    BY <1>11 DEF HandlerAppend
  <2>3. handler' = [handler EXCEPT ![d][k].todo = @ \ {op}]
    <3>1. op \in Op /\ serverLog \in Seq(Op)
      BY <1>1 DEF TypeInv, TypeOK, Handler
    <3>2. SUFFICES ASSUME serverLog' = Append(serverLog, op) PROVE FALSE
      BY <2>2
    <3>3. Len(serverLog') = Len(serverLog) + 1 /\ Len(serverLog) \in Nat
      BY <3>1, <3>2
    <3>. QED  BY <1>11, <3>3
  <2>4. handler[d][k].pc = "append" /\ handler'[d][k].pc = "append"
    BY <1>1, <1>11, <2>3 DEF HandlerAppend, Handler
  <2>5. \A e \in Device, j \in Attempt :
          handler'[e][j] = handler[e][j] \/ (e = d /\ j = k)
    BY <1>1, <2>3
  <2>. QED  BY <1>11, <2>1, <2>4, <2>5 DEF QuietHandler, Rests, InHand
<1>12. CASE UNCHANGED vars
  BY <1>3, <1>12 DEF vars, serverVars
<1> HIDE DEF NoneStored
<1>13. ASSUME Next
       PROVE  \/ \E d \in Device, k \in Attempt :
                   \/ HandlerAppend(d, k) /\ serverLog' # serverLog
                   \/ HandlerLoad(d, k) \/ HandlerSave(d, k)
              \/ NoneStored
  BY <1>5, <1>6, <1>7, <1>8, <1>9, <1>10, <1>11, <1>13
     DEF Next, SyncStep, HandlerStep, FaultStep
<1>. QED  BY <1>12, <1>13 DEF NoneStored


\* An op in hand is stored.
LEMMA HeldStored ==
  ASSUME TypeInv, OpsIdentified, HandledStored,
         NEW d \in Device, NEW k \in Attempt, NEW op, Holds(d, k, op)
  PROVE  Stored(op) /\ op \in ServerPending /\ op \in ServerOps /\ op \in Op
<1>1. op \in handler[d][k].todo /\ IsNext(op, handler[d][k].todo) /\ InHand(handler[d][k])
  BY DEF Holds, IsNext, InHand
<1>2. op \in log[d] /\ op.device = d
  BY <1>1 DEF OpsIdentified
<1>3. Stored(op)
  BY <1>1 DEF HandledStored
<1>4. op \in Op /\ op \in ServerOps
  BY <1>2, <1>3, StoredSame DEF TypeInv, TypeOK
<1>. QED  BY <1>3, <1>4 DEF ServerPending

\* AppendOp of the next op of a request: it was in nobody's hand.
LEMMA ServerStores ==
  ASSUME TypeInv, OpsIdentified, HandledStored, ServerFresh,
         NEW d \in Device, NEW k \in Attempt, HandlerAppend(d, k), serverLog' # serverLog
  PROVE  ServerFresh' /\ serverRec' = serverRec /\ ServerAppliedStays
<1>1. PICK op \in handler[d][k].todo :
        /\ IsNext(op, handler[d][k].todo) /\ ~Stored(op)
        /\ handler' = [handler EXCEPT ![d][k].pc = "load"]
        /\ serverLog' = Append(serverLog, op)
  BY DEF HandlerAppend
<1>2. /\ handler \in [Device -> [Attempt -> Handler]] /\ handler[d][k].pc = "append"
      /\ serverLog \in Seq(Op) /\ serverRec' = serverRec
  BY DEF TypeInv, TypeOK, HandlerAppend
<1>3. /\ handler'[d][k].pc = "load" /\ handler'[d][k].todo = handler[d][k].todo
      /\ \A e \in Device, j \in Attempt :
           (e = d /\ j = k) \/ handler'[e][j] = handler[e][j]
  BY <1>1, <1>2 DEF Handler
<1>4. op \in log[d] /\ op.device = d /\ op \in Op
  BY <1>2 DEF OpsIdentified, TypeInv, TypeOK
<1>5. ServerOps' = ServerOps \cup {op} /\ op \notin ServerOps
  <2>1. op \notin ServerOps
    BY <1>1, <1>4, StoredSame
  <2>2. /\ Len(serverLog) \in Nat /\ Len(serverLog') = Len(serverLog) + 1
        /\ DOMAIN serverLog = 1 .. Len(serverLog)
        /\ DOMAIN serverLog' = 1 .. Len(serverLog')
        /\ serverLog'[Len(serverLog) + 1] = op
        /\ \A i \in DOMAIN serverLog : serverLog'[i] = serverLog[i]
    BY <1>1, <1>2, <1>4
  <2>3. \A i \in DOMAIN serverLog' : i \in DOMAIN serverLog \/ i = Len(serverLog) + 1
    BY <2>2
  <2>4. /\ DOMAIN serverLog \subseteq DOMAIN serverLog'
        /\ Len(serverLog) + 1 \in DOMAIN serverLog'
    BY <2>2
  <2>5. \A x : x \in ServerOps' <=> x \in ServerOps \cup {op}
    BY <2>2, <2>3, <2>4 DEF ServerOps
  <2>. QED  BY <2>1, <2>5
<1>6. ASSUME NEW e \in Device, NEW j \in Attempt, NEW x
      PROVE  Holds(e, j, x)' <=> Holds(e, j, x) \/ (e = d /\ j = k /\ x = op)
  <2>1. CASE e = d /\ j = k
    <3>1. IsNext(x, handler[d][k].todo) => x = op
      BY <1>1, NextUnique
    <3>. QED  BY <1>1, <1>2, <1>3, <2>1, <3>1 DEF Holds
  <2>2. CASE ~(e = d /\ j = k)
    BY <1>3, <2>2 DEF Holds
  <2>. QED  BY <2>1, <2>2
<1>7. \A e \in Device, j \in Attempt : ~Holds(e, j, op)
  BY <1>1, HeldStored
<1>8. ASSUME NEW e \in Device, NEW j \in Attempt, NEW x, Saves(e, j, x)'
      PROVE  handler'[e][j] = handler[e][j] /\ Saves(e, j, x)
  BY <1>3, <1>8 DEF Saves
<1>9. ServerFresh'
  <2>1. \A e, f \in Device : \A i, j \in Attempt : \A x :
          Holds(e, i, x)' /\ Holds(f, j, x)' => e = f /\ i = j
    BY <1>6, <1>7 DEF ServerFresh
  <2>2. \A e \in Device, j \in Attempt : \A x :
          Saves(e, j, x)' => handler'[e][j].snap = serverRec'[x.record]
    BY <1>2, <1>8 DEF ServerFresh
  <2>. QED  BY <2>1, <2>2 DEF ServerFresh
<1>10. \A x : x \in ServerPending' <=> x \in ServerPending \/ x = op
  <2>1. \A x : x \in ServerPending' <=> /\ x \in ServerOps'
                                        /\ \E e \in Device, j \in Attempt : Holds(e, j, x)'
    BY DEF ServerPending
  <2>2. \A x : x \in ServerPending <=> /\ x \in ServerOps
                                       /\ \E e \in Device, j \in Attempt : Holds(e, j, x)
    BY DEF ServerPending
  <2>. QED  BY <1>5, <1>6, <1>7, <2>1, <2>2
<1>11. ServerOps' \ ServerPending' = ServerOps \ ServerPending
  BY <1>5, <1>10
<1>. QED  BY <1>2, <1>9, <1>11 DEF ServerAppliedStays, ServerApplied, OpsOn

\* GetRecord of the op in hand.
LEMMA ServerLoads ==
  ASSUME TypeInv, OpsIdentified, ServerFresh,
         NEW d \in Device, NEW k \in Attempt, HandlerLoad(d, k)
  PROVE  ServerFresh' /\ serverRec' = serverRec /\ ServerAppliedStays
<1>1. PICK op \in handler[d][k].todo :
        /\ IsNext(op, handler[d][k].todo)
        /\ handler' = [handler EXCEPT ![d][k].pc = "save",
                                      ![d][k].snap = serverRec[op.record]]
  BY DEF HandlerLoad
<1>2. /\ handler \in [Device -> [Attempt -> Handler]] /\ handler[d][k].pc = "load"
      /\ serverLog' = serverLog /\ serverRec' = serverRec
  BY DEF TypeInv, TypeOK, HandlerLoad, serverVars
<1>3. /\ handler'[d][k].pc = "save" /\ handler'[d][k].todo = handler[d][k].todo
      /\ handler'[d][k].snap = serverRec[op.record]
      /\ \A e \in Device, j \in Attempt :
           (e = d /\ j = k) \/ handler'[e][j] = handler[e][j]
  BY <1>1, <1>2 DEF Handler
<1>4. \A e \in Device, j \in Attempt : \A x : Holds(e, j, x)' <=> Holds(e, j, x)
  BY <1>2, <1>3 DEF Holds
<1>5. ServerPending' = ServerPending /\ ServerOps' = ServerOps
  BY <1>2, <1>4 DEF ServerPending, ServerOps
<1>6. ServerAppliedStays
  BY <1>5 DEF ServerAppliedStays, ServerApplied, OpsOn
<1>7. ASSUME NEW e \in Device, NEW j \in Attempt, NEW x, Saves(e, j, x)'
      PROVE  handler'[e][j].snap = serverRec'[x.record]
  <2>1. CASE e = d /\ j = k
    <3>1. IsNext(x, handler[d][k].todo)
      BY <1>3, <1>7, <2>1 DEF Saves
    <3>2. x = op
      BY <1>1, <3>1, NextUnique
    <3>. QED  BY <1>2, <1>3, <2>1, <3>2
  <2>2. CASE ~(e = d /\ j = k)
    <3>1. handler'[e][j] = handler[e][j] /\ Saves(e, j, x)
      BY <1>3, <1>7, <2>2 DEF Saves
    <3>. QED  BY <1>2, <3>1 DEF ServerFresh
  <2>. QED  BY <2>1, <2>2
<1>8. ServerFresh'
  <2>1. \A e, f \in Device : \A i, j \in Attempt : \A x :
          Holds(e, i, x)' /\ Holds(f, j, x)' => e = f /\ i = j
    BY <1>4 DEF ServerFresh
  <2>. QED  BY <1>7, <2>1 DEF ServerFresh
<1>. QED  BY <1>2, <1>6, <1>8

\* Resolve and PutRecord, of one of the ops in hand.
HandlerApplies(d, k, op) ==
  /\ op \in ServerPending /\ ServerPending' = ServerPending \ {op} /\ ServerOps' = ServerOps
  /\ serverRec' = [serverRec EXCEPT ![op.record] = Resolve(serverRec[op.record], op).record]
  /\ Holds(d, k, op) /\ handler[d][k].snap = serverRec[op.record]
  /\ handler' = [handler EXCEPT ![d][k] =
                   IF Resolve(serverRec[op.record], op).conflicted
                     THEN [@ EXCEPT !.pc = "audit"] ELSE NextOp(@, op)]

LEMMA ServerSaves ==
  ASSUME TypeInv, OpsIdentified, HandledStored, ServerFresh, ServerExclusive,
         NEW d \in Device, NEW k \in Attempt, HandlerSave(d, k)
  PROVE  ServerFresh' /\ \E op : HandlerApplies(d, k, op)
<1>1. PICK op \in handler[d][k].todo :
        /\ IsNext(op, handler[d][k].todo)
        /\ serverRec' = [serverRec EXCEPT ![op.record] =
                           Resolve(handler[d][k].snap, op).record]
        /\ handler' = [handler EXCEPT ![d][k] =
                         IF Resolve(handler[d][k].snap, op).conflicted
                           THEN [@ EXCEPT !.pc = "audit"] ELSE NextOp(@, op)]
  BY DEF HandlerSave
<1>2. /\ handler \in [Device -> [Attempt -> Handler]] /\ handler[d][k].pc = "save"
      /\ serverRec \in [RecordId -> Record] /\ serverLog' = serverLog
  BY DEF TypeInv, TypeOK, HandlerSave
<1>3. Holds(d, k, op) /\ Saves(d, k, op)
  BY <1>1, <1>2 DEF Holds, Saves
<1>4. handler[d][k].snap = serverRec[op.record]
  BY <1>3 DEF ServerFresh
<1>5. /\ handler'[d][k].pc \in {"audit", "append"}
      /\ \A e \in Device, j \in Attempt :
           (e = d /\ j = k) \/ handler'[e][j] = handler[e][j]
  <2> DEFINE g == IF Resolve(handler[d][k].snap, op).conflicted
                    THEN [handler[d][k] EXCEPT !.pc = "audit"] ELSE NextOp(handler[d][k], op)
  <2>1. g.pc \in {"audit", "append"}
    BY <1>2 DEF NextOp, Handler
  <2>2. handler' = [handler EXCEPT ![d][k] = g]
    BY <1>1
  <2> HIDE DEF g
  <2>. QED  BY <1>2, <2>1, <2>2
<1>6. ASSUME NEW e \in Device, NEW j \in Attempt, NEW x
      PROVE  /\ Holds(e, j, x)' <=> Holds(e, j, x) /\ ~(e = d /\ j = k)
             /\ Saves(e, j, x)' => /\ Saves(e, j, x) /\ ~(e = d /\ j = k)
                                   /\ handler'[e][j] = handler[e][j]
  <2>1. CASE e = d /\ j = k
    BY <1>5, <2>1 DEF Holds, Saves
  <2>2. CASE ~(e = d /\ j = k)
    BY <1>5, <2>2 DEF Holds, Saves
  <2>. QED  BY <2>1, <2>2
<1>7. \A x : Holds(d, k, x) => x = op
  BY <1>1, NextUnique DEF Holds
<1>8. ServerOps' = ServerOps
  BY <1>2 DEF ServerOps
<1>9. ServerPending' = ServerPending \ {op}
  <2>1. \A x : x \in ServerPending' <=> /\ x \in ServerOps'
                                        /\ \E e \in Device, j \in Attempt : Holds(e, j, x)'
    BY DEF ServerPending
  <2>2. \A x : x \in ServerPending <=> /\ x \in ServerOps
                                       /\ \E e \in Device, j \in Attempt : Holds(e, j, x)
    BY DEF ServerPending
  <2>3. \A e \in Device, j \in Attempt : Holds(e, j, op) => e = d /\ j = k
    BY <1>3 DEF ServerFresh
  <2>4. \A x : x \in ServerPending' => x \in ServerPending \ {op}
    BY <1>6, <1>8, <2>1, <2>2, <2>3
  <2>5. \A x : x \in ServerPending \ {op} => x \in ServerPending'
    BY <1>6, <1>7, <1>8, <2>1, <2>2
  <2>. QED  BY <2>4, <2>5
<1>10. ServerFresh'
  <2>1. \A e, f \in Device : \A i, j \in Attempt : \A x :
          Holds(e, i, x)' /\ Holds(f, j, x)' => e = f /\ i = j
    BY <1>6 DEF ServerFresh
  <2>2. ASSUME NEW e \in Device, NEW j \in Attempt, NEW x, Saves(e, j, x)'
        PROVE  handler'[e][j].snap = serverRec'[x.record]
    <3>1. Saves(e, j, x) /\ ~(e = d /\ j = k) /\ handler'[e][j] = handler[e][j]
      BY <1>6, <2>2
    <3>2. x.record # op.record
      BY <1>3, <3>1 DEF ServerExclusive
    <3>3. x \in Op
      <4>1. Holds(e, j, x)
        BY <3>1 DEF Holds, Saves
      <4>. QED  BY <4>1, HeldStored
    <3>4. serverRec'[x.record] = serverRec[x.record]
      BY <1>1, <1>2, <3>2, <3>3 DEF Op
    <3>. QED  BY <3>1, <3>4 DEF ServerFresh
  <2>. QED  BY <2>1, <2>2 DEF ServerFresh
<1>11. HandlerApplies(d, k, op)
  <2>1. op \in ServerPending
    BY <1>3, HeldStored
  <2>. QED  BY <1>1, <1>3, <1>4, <1>8, <1>9, <2>1 DEF HandlerApplies
<1>. QED  BY <1>10, <1>11

\* Nothing is stored or applied on the server, unless it has been already.
LEMMA ServerRests ==
  ASSUME ServerFresh, UNCHANGED <<serverLog, serverRec>>,
         \A d \in Device, k \in Attempt : QuietHandler(d, k)
  PROVE  ServerFresh' /\ ServerAppliedStays
<1>1. \A d \in Device, k \in Attempt : \A op :
        /\ Holds(d, k, op)' <=> Holds(d, k, op)
        /\ Saves(d, k, op)' => Saves(d, k, op) /\ handler'[d][k] = handler[d][k]
  BY DEF QuietHandler, Rests, InHand, Holds, Saves
<1>2. ServerPending' = ServerPending /\ ServerOps' = ServerOps
  BY <1>1 DEF ServerPending, ServerOps
<1>3. ServerAppliedStays
  BY <1>2 DEF ServerAppliedStays, ServerApplied, OpsOn
<1>4. ServerFresh'
  <2>1. \A e, f \in Device : \A i, j \in Attempt : \A x :
          Holds(e, i, x)' /\ Holds(f, j, x)' => e = f /\ i = j
    BY <1>1 DEF ServerFresh
  <2>2. \A e \in Device, j \in Attempt : \A x :
          Saves(e, j, x)' => handler'[e][j].snap = serverRec'[x.record]
    BY <1>1 DEF ServerFresh
  <2>. QED  BY <2>1, <2>2 DEF ServerFresh
<1>. QED  BY <1>3, <1>4

\* What a step does to the server's records, and to what has been applied to them.
LEMMA ServerChanges ==
  ASSUME TypeInv, OpsIdentified, HandledStored, ServerFresh, ServerExclusive,
         [Next]_vars, [ServerWhole]_vars
  PROVE  /\ ServerFresh'
         /\ \/ serverRec' = serverRec /\ ServerAppliedStays
            \/ \E d \in Device, k \in Attempt :
                 HandlerSave(d, k) /\ \E op : HandlerApplies(d, k, op)
<1>1. CASE /\ UNCHANGED <<serverLog, serverRec>>
           /\ \A d \in Device, k \in Attempt : QuietHandler(d, k)
  BY <1>1, ServerRests
<1>. QED  BY <1>1, ServerSteps, ServerStores, ServerLoads, ServerSaves

\* What is applied when an op is.
LEMMA ServerAppliedGrows ==
  ASSUME TypeInv, OpsIdentified, NEW d, NEW k, NEW op, HandlerApplies(d, k, op),
         NEW r \in RecordId
  PROVE  /\ ServerApplied(r)' \in SUBSET Op /\ op \in Op
         /\ ServerApplied(r)' = ServerApplied(r) \cup OpsOn({op}, r)
         /\ op \notin ServerApplied(r) /\ op \in ServerOps
<1>1. /\ ServerOps \in SUBSET Op /\ op \in ServerOps /\ op \in ServerPending
      /\ ServerOps' \ ServerPending' = (ServerOps \ ServerPending) \cup {op}
      /\ ServerOps' = ServerOps
  BY StoredKnown DEF HandlerApplies, ServerPending
<1>. QED  BY <1>1 DEF ServerApplied, OpsOn

-----------------------------------------------------------------------------
(***************************************************************************)
(* What the records of the server know.                                    *)
(***************************************************************************)

ServerJoined == \A r \in RecordId : Joined(serverRec[r], ServerApplied(r))

LEMMA ServerInit == Init => ServerFresh /\ \A r \in RecordId : ServerApplied(r) = {}
<1> SUFFICES ASSUME Init PROVE ServerFresh /\ \A r \in RecordId : ServerApplied(r) = {}
  OBVIOUS
<1>1. \A d \in Device, k \in Attempt : handler[d][k].pc = "free"
  BY DEF Init, FreeHandler
<1>2. ServerFresh
  BY <1>1 DEF ServerFresh, Holds, Saves
<1>3. ServerOps = {}
  BY DEF Init, ServerOps
<1>. QED  BY <1>2, <1>3 DEF ServerApplied, OpsOn

LEMMA ServerJoinedInit == Init => ServerJoined
<1> SUFFICES ASSUME Init, NEW r \in RecordId PROVE Joined(serverRec[r], ServerApplied(r))
  BY DEF ServerJoined
<1>1. ServerApplied(r) = {} /\ serverRec[r] = NoRecord
  BY ServerInit DEF Init
<1>. QED  BY <1>1 DEF Joined

LEMMA ServerJoinedStep ==
  ASSUME LogInv, ServerFresh, ServerJoined, ServerExclusive, [Next]_vars, [ServerWhole]_vars
  PROVE  ServerFresh' /\ ServerJoined'
<1>1. /\ TypeInv /\ OpsIdentified /\ HandledStored
      /\ serverRec \in [RecordId -> Record]
      /\ \A r \in RecordId : ServerApplied(r) \in SUBSET Op
  <2>1. TypeInv /\ OpsIdentified /\ HandledStored
    BY DEF LogInv
  <2>2. ServerOps \in SUBSET Op
    BY <2>1, StoredKnown
  <2>. QED  BY <2>1, <2>2 DEF TypeInv, TypeOK, ServerApplied, OpsOn
<1>2. CASE serverRec' = serverRec /\ ServerAppliedStays
  <2>1. ASSUME NEW r \in RecordId PROVE Joined(serverRec'[r], ServerApplied(r)')
    BY <1>2 DEF ServerJoined, ServerAppliedStays
  <2>. QED  BY <1>1, <2>1, ServerChanges DEF ServerJoined
<1>3. ASSUME NEW d \in Device, NEW k \in Attempt, NEW op, HandlerApplies(d, k, op)
      PROVE  ServerJoined'
  <2>1. ASSUME NEW r \in RecordId PROVE Joined(serverRec'[r], ServerApplied(r)')
    <3> DEFINE ops == ServerApplied(r)
               y   == Resolve(serverRec[r], op).record
    <3>1. /\ ops \in SUBSET Op /\ op \in Op /\ serverRec[r] \in Record
          /\ ServerApplied(r)' = ops \cup OpsOn({op}, r) /\ Joined(serverRec[r], ops)
      BY <1>1, <1>3, ServerAppliedGrows DEF ServerJoined
    <3> HIDE DEF ops
    <3>2. CASE op.record = r
      <4>1. OpsOn({op}, r) = {op}
        BY <3>2 DEF OpsOn
      <4>2. Joined(y, ops \cup {op})
        BY <3>1, ResolveJoins
      <4>3. serverRec'[r] = y
        <5> HIDE DEF y
        <5>. QED  BY <1>1, <1>3, <3>2 DEF HandlerApplies, y
      <4> HIDE DEF y
      <4>. QED  BY <3>1, <4>1, <4>2, <4>3
    <3>3. CASE op.record # r
      <4>1. OpsOn({op}, r) = {}
        BY <3>3 DEF OpsOn
      <4>2. serverRec'[r] = serverRec[r]
        BY <1>1, <1>3, <3>3 DEF HandlerApplies
      <4>. QED  BY <3>1, <4>1, <4>2
    <3>. QED  BY <3>2, <3>3
  <2>. QED  BY <2>1 DEF ServerJoined
<1>. QED  BY <1>1, <1>2, <1>3, ServerChanges

\* The server has applied what it has stored, when nothing is in progress.
LEMMA ServerSettled ==
  ASSUME SettledServer, NEW r
  PROVE  ServerApplied(r) = OpsOn(ServerOps, r)
<1>1. ServerPending = {}
  BY DEF ServerPending, Holds, SettledServer
<1>. QED  BY <1>1 DEF ServerApplied, OpsOn

LEMMA NothingUnsettled ==
  NothingInProgress => SettledServer /\ \A d \in Device : SettledDevice(d)
BY DEF NothingInProgress, SettledServer, SettledDevice

\* What was acknowledged has been applied (handlePush, "client-side retries [are]
\* safe"), whatever the clients do and whatever is lost on the way, as long as
\* requests that overlap have no record in common and none is broken off between
\* AppendOp and PutRecord.
THEOREM AckedAppliedAlways ==
  Spec /\ []ServerExclusive /\ [][ServerWhole]_vars => []AckedApplied
<1> DEFINE Inv == LogInv /\ ServerFresh /\ ServerJoined
<1>1. Init => Inv
  BY LogInit, ServerInit, ServerJoinedInit
<1>2. Inv /\ ServerExclusive /\ [Next]_vars /\ [ServerWhole]_vars => Inv'
  BY LogStep, ServerJoinedStep
<1>3. Inv => AckedApplied
  <2> SUFFICES ASSUME LogInv, ServerJoined, NothingInProgress,
                      NEW d \in Device, NEW op \in log[d], op.id \in pushed[d]
               PROVE  Knows(serverRec[op.record].vv, op.vv)
    BY DEF AckedApplied
  <2>1. TypeInv /\ OpsIdentified /\ AckedDurable /\ op \in Op
    BY DEF LogInv, TypeInv, TypeOK
  <2>2. PICK i \in DOMAIN serverLog : serverLog[i].id = op.id
    BY <2>1 DEF AckedDurable, Ids, ServerOps
  <2>3. serverLog[i] \in log[d]
    BY <2>1, <2>2, SameIdSameOp DEF Ids
  <2>4. serverLog[i] = op
    BY <2>1, <2>2, <2>3 DEF OpsIdentified
  <2>5. op \in ServerApplied(op.record) /\ op.record \in RecordId
    BY <2>1, <2>4, NothingUnsettled, ServerSettled DEF ServerOps, OpsOn, Op
  <2>. QED  BY <2>5 DEF ServerJoined, Joined
<1>. QED  BY <1>1, <1>2, <1>3, PTL DEF Spec

-----------------------------------------------------------------------------
(***************************************************************************)
(* The value that the server's records show.                               *)
(***************************************************************************)

ServerResolved == \A r \in RecordId : Resolved(serverRec[r], ServerApplied(r))

\* What the clients' conditions and the server's give together.
ReplicaInv == ResolvedInv /\ ServerFresh /\ ServerResolved

LEMMA ReplicaInit == Init => ReplicaInv
<1> SUFFICES ASSUME Init PROVE ReplicaInv
  OBVIOUS
<1>1. ASSUME NEW r \in RecordId PROVE Resolved(serverRec[r], ServerApplied(r))
  <2>1. ServerApplied(r) = {} /\ serverRec[r] = NoRecord
    BY ServerInit DEF Init
  <2>. QED  BY <2>1 DEF Resolved
<1>. QED  BY <1>1, ServerInit, ResolvedInit DEF ReplicaInv, ServerResolved

LEMMA ReplicaStep ==
  ASSUME ReplicaInv, [Next]_vars, Exclusive, [Whole]_vars, [Later]_vars,
         ServerExclusive, [ServerWhole]_vars
  PROVE  ReplicaInv'
<1>1. /\ ResolvedInv /\ TypeInv /\ OpsIdentified /\ HandledStored /\ ServerFresh
      /\ StampsFollowKnowledge /\ \A op \in AllOps : Signed(op)
      /\ serverRec \in [RecordId -> Record]
      /\ \A r \in RecordId : Resolved(serverRec[r], ServerApplied(r))
  BY DEF ReplicaInv, ServerResolved, ResolvedInv, KnowInv, CausalInv, RefInv, LogInv,
         TypeInv, TypeOK
<1>2. ServerOps \in SUBSET Op /\ ServerOps \subseteq AllOps
  BY <1>1, StoredKnown
<1>3. ASSUME NEW d \in Device, NEW k \in Attempt, NEW op, HandlerApplies(d, k, op),
             NEW r \in RecordId
      PROVE  Resolved(serverRec'[r], ServerApplied(r)')
  <2> DEFINE ops == ServerApplied(r)
             y   == Resolve(serverRec[r], op).record
  <2>1. /\ op \in Op /\ op \in ServerOps /\ op \notin ops
        /\ ServerApplied(r)' = ops \cup OpsOn({op}, r)
    BY <1>1, <1>3, ServerAppliedGrows
  <2>2. /\ ops \in SUBSET Op /\ ops \subseteq AllOps /\ \A o \in ops : o.record = r
        /\ Resolved(serverRec[r], ops) /\ serverRec[r] \in Record
    BY <1>1, <1>2 DEF ServerApplied, OpsOn
  <2> HIDE DEF ops
  <2>3. CASE op.record = r
    <3>1. ServerApplied(r)' = ops \cup {op}
      BY <2>1, <2>3 DEF OpsOn
    <3>2. ops \cup {op} \in SUBSET AllOps /\ \A o \in ops \cup {op} : o.record = r
      BY <1>2, <2>1, <2>2, <2>3
    <3>3. WellStamped(ops \cup {op})
      BY <1>1, <3>2, HeldWellStamped
    <3>4. Resolved(y, ops \cup {op})
      BY <2>1, <2>2, <3>3, ResolveKeepsResolved
    <3>5. serverRec'[r] = y
      <4> HIDE DEF y
      <4>. QED  BY <1>1, <1>3, <2>3 DEF HandlerApplies, y
    <3> HIDE DEF y
    <3>. QED  BY <3>1, <3>4, <3>5
  <2>4. CASE op.record # r
    <3>1. ServerApplied(r)' = ops
      BY <2>1, <2>4 DEF OpsOn
    <3>2. serverRec'[r] = serverRec[r]
      BY <1>1, <1>3, <2>4 DEF HandlerApplies
    <3>. QED  BY <2>2, <3>1, <3>2
  <2>. QED  BY <2>3, <2>4
<1>4. ASSUME NEW r \in RecordId
      PROVE  Resolved(serverRec'[r], ServerApplied(r)')
  <2>1. CASE serverRec' = serverRec /\ ServerAppliedStays
    BY <1>1, <2>1 DEF ServerAppliedStays
  <2>. QED  BY <1>1, <1>3, <2>1, ServerChanges
<1>5. ResolvedInv' /\ ServerFresh'
  BY <1>1, ResolvedStep, ServerChanges
<1>. QED  BY <1>4, <1>5 DEF ReplicaInv, ServerResolved

LEMMA SettledServerRecords == ReplicaInv => ServerRecords
<1> SUFFICES ASSUME ReplicaInv, SettledServer, NEW r \in RecordId
             PROVE  Resolved(serverRec[r], OpsOn(ServerOps, r))
  BY DEF ServerRecords
<1>. QED  BY ServerSettled DEF ReplicaInv, ServerResolved

\* Every record of the server is the greatest op, by HLC, of those in its log
\* (handlePush), if the ops are stamped as the devices' records need it too.
THEOREM ServerRecordsAlways ==
  Spec /\ []Exclusive /\ [][Whole]_vars /\ [][Later]_vars
       /\ []ServerExclusive /\ [][ServerWhole]_vars => []ServerRecords
<1>1. ReplicaInv /\ [Next]_vars /\ Exclusive /\ [Whole]_vars /\ [Later]_vars
        /\ ServerExclusive /\ [ServerWhole]_vars => ReplicaInv'
  BY ReplicaStep
<1>. QED  BY <1>1, ReplicaInit, SettledServerRecords, PTL DEF Spec

-----------------------------------------------------------------------------
(***************************************************************************)
(* Convergence: replicas that hold every op show the same values.          *)
(***************************************************************************)

\* "Every device [...] converge[s] on the identical value, regardless of sync
\* order" (README): the devices do, whatever becomes of the server's own records.
THEOREM ClientsConvergeAlways ==
  Spec /\ []Exclusive /\ [][Whole]_vars /\ [][Later]_vars => []ClientsConverge
<1>1. ResolvedInv /\ Exclusive /\ [Next]_vars /\ [Whole]_vars /\ [Later]_vars => ResolvedInv'
  BY ResolvedStep
<1>2. ResolvedInv => ClientsConverge
  <2> SUFFICES ASSUME ResolvedInv, NothingInProgress, Delivered,
                      NEW d \in Device, NEW e \in Device
               PROVE  rec[d] = rec[e]
    BY DEF ClientsConverge
  <2>1. TypeOK /\ DeviceRecords
    BY SettledRecords DEF ResolvedInv, KnowInv, CausalInv, RefInv, LogInv, TypeInv
  <2>2. SettledDevice(d) /\ SettledDevice(e) /\ log[d] = log[e]
    BY NothingUnsettled DEF Delivered
  <2>. QED  BY <2>1, <2>2, SameOpsSameRecords
<1>. QED  BY <1>1, <1>2, ResolvedInit, PTL DEF Spec

\* "Every device and the server converge on the identical value", if requests
\* besides do not work on one record at the same time and are not broken off.
THEOREM ReplicasConvergeAlways ==
  Spec /\ []Exclusive /\ [][Whole]_vars /\ [][Later]_vars
       /\ []ServerExclusive /\ [][ServerWhole]_vars => []ReplicasConverge
<1>1. ReplicaInv /\ [Next]_vars /\ Exclusive /\ [Whole]_vars /\ [Later]_vars
        /\ ServerExclusive /\ [ServerWhole]_vars => ReplicaInv'
  BY ReplicaStep
<1>2. ReplicaInv => ReplicasConverge
  <2> SUFFICES ASSUME ReplicaInv, NothingInProgress, Delivered, NEW d \in Device
               PROVE  rec[d] = serverRec
    BY DEF ReplicasConverge
  <2>1. TypeOK /\ DeviceRecords /\ ServerRecords
    BY SettledRecords, SettledServerRecords
       DEF ReplicaInv, ResolvedInv, KnowInv, CausalInv, RefInv, LogInv, TypeInv
  <2>2. SettledDevice(d) /\ SettledServer /\ log[d] = ServerOps
    BY NothingUnsettled DEF Delivered
  <2>. QED  BY <2>1, <2>2, ServerAgrees
<1>. QED  BY <1>1, <1>2, ReplicaInit, PTL DEF Spec

-----------------------------------------------------------------------------
(***************************************************************************)
(* Records advance: each resolves ever more ops.                           *)
(***************************************************************************)

\* The resolution of a larger set knows more and does not have the smaller
\* timestamp.
LEMMA MoreOpsAdvance ==
  ASSUME NEW more \in SUBSET Op, NEW ops \in SUBSET more,
         NEW x \in Record, NEW y \in Record, Resolved(x, ops), Resolved(y, more)
  PROVE  Advances(x, y)
<1>1. \A op \in more : op.vv \in VectorType /\ op.hlc \in Timestamp
  BY DEF Op
<1>2. /\ x.vv \in VectorType /\ x.hlc \in Timestamp
      /\ y.vv \in VectorType /\ y.hlc \in Timestamp
  BY DEF Record
<1>3. \A op \in more : Knows(y.vv, op.vv)
  BY DEF Resolved
<1>4. CASE ops = {}
  <2>1. x.vv = ZeroVector /\ x.hlc = ZeroStamp
    BY <1>4 DEF Resolved, NoRecord
  <2>2. ASSUME NEW n \in Device PROVE x.vv[n] <= y.vv[n]
    <3>1. x.vv[n] = 0
      BY <2>1 DEF ZeroVector
    <3>2. y.vv[n] \in Nat
      BY <1>2 DEF VectorType
    <3>. QED  BY <3>1, <3>2
  <2>3. ~After(x.hlc, y.hlc)
    BY <1>2, <2>1 DEF ZeroStamp, Timestamp, After
  <2>. QED  BY <1>2, <2>2, <2>3, BoundsKnow DEF Advances
<1>5. CASE ops # {}
  <2>1. PICK top \in ops :
          /\ [x EXCEPT !.vv = ZeroVector] = [FromOp(top) EXCEPT !.vv = ZeroVector]
          /\ \A n \in Device : \E op \in ops : x.vv[n] = op.vv[n]
    BY <1>5 DEF Resolved
  <2>2. PICK best \in more :
          /\ \A op \in more : op = best \/ After(best.hlc, op.hlc)
          /\ [y EXCEPT !.vv = ZeroVector] = [FromOp(best) EXCEPT !.vv = ZeroVector]
    BY <1>5 DEF Resolved
  <2>3. x.hlc = top.hlc /\ y.hlc = best.hlc
    <3> DEFINE bare(z) == [z EXCEPT !.vv = ZeroVector]
    <3>1. \A z \in Record : bare(z).hlc = z.hlc
      BY DEF Record
    <3>2. \A op \in more : FromOp(op) \in Record /\ FromOp(op).hlc = op.hlc
      BY DEF FromOp, Record, Op
    <3>3. bare(x) = bare(FromOp(top)) /\ bare(y) = bare(FromOp(best))
      BY <2>1, <2>2
    <3> HIDE DEF bare
    <3>. QED  BY <3>1, <3>2, <3>3
  <2>4. ASSUME NEW n \in Device PROVE x.vv[n] <= y.vv[n]
    <3>1. PICK op \in ops : x.vv[n] = op.vv[n]
      BY <2>1
    <3>2. op.vv[n] <= y.vv[n]
      BY <1>1, <1>2, <1>3, KnowsBounds
    <3>. QED  BY <3>1, <3>2
  <2>5. ~After(x.hlc, y.hlc)
    <3>1. top = best \/ After(best.hlc, top.hlc)
      BY <2>2
    <3>2. CASE top = best
      BY <1>2, <2>3, <3>2 DEF After, Timestamp
    <3>3. CASE After(best.hlc, top.hlc)
      BY <1>2, <2>3, <3>3, AfterAsymmetric
    <3>. QED  BY <3>1, <3>2, <3>3
  <2>. QED  BY <1>2, <2>4, <2>5, BoundsKnow DEF Advances
<1>. QED  BY <1>4, <1>5

\* A record that a step leaves alone.
LEMMA StaysAdvances ==
  ASSUME NEW x \in Record
  PROVE  Advances(x, x)
<1>1. x.vv \in VectorType /\ x.hlc \in Timestamp
  BY DEF Record
<1>2. \A n \in Device : x.vv[n] <= x.vv[n]
  BY <1>1 DEF VectorType
<1>3. ~After(x.hlc, x.hlc)
  BY <1>1 DEF After, Timestamp
<1>. QED  BY <1>1, <1>2, <1>3, BoundsKnow DEF Advances


\* No write to a records table loses knowledge or puts a lesser winner in place
\* of a greater (PutRecord), under the same conditions.
THEOREM RecordsNeverGoBackAlways ==
  Spec /\ []Exclusive /\ [][Whole]_vars /\ [][Later]_vars
       /\ []ServerExclusive /\ [][ServerWhole]_vars => RecordsNeverGoBack
<1> DEFINE Forward == \A r \in RecordId :
                        /\ Advances(serverRec[r], serverRec'[r])
                        /\ \A d \in Device : Advances(rec[d][r], rec'[d][r])
           Regime  == /\ Exclusive /\ [Whole]_vars /\ [Later]_vars
                      /\ ServerExclusive /\ [ServerWhole]_vars
<1>1. ReplicaInv /\ [Next]_vars /\ Regime => ReplicaInv'
  BY ReplicaStep
<1>2. ReplicaInv /\ ReplicaInv' /\ [Next]_vars /\ Regime => [Forward]_vars
  <2> SUFFICES ASSUME ReplicaInv, ReplicaInv', [Next]_vars, Regime, NEW r \in RecordId
               PROVE  /\ Advances(serverRec[r], serverRec'[r])
                      /\ \A d \in Device : Advances(rec[d][r], rec'[d][r])
    OBVIOUS
  <2>1. /\ TypeInv /\ OpsIdentified /\ HandledStored /\ PageCovered /\ RecordsCovered /\ TypeInv'
        /\ ServerFresh /\ \A d \in Device : Fresh(d)
    BY DEF ReplicaInv, ResolvedInv, KnowInv, CausalInv, RefInv, LogInv
  <2>2. /\ serverRec[r] \in Record /\ serverRec'[r] \in Record
        /\ \A d \in Device : rec[d][r] \in Record /\ rec'[d][r] \in Record
    BY <2>1 DEF TypeInv, TypeOK
  <2>3. Advances(serverRec[r], serverRec'[r])
    <3>1. CASE serverRec' = serverRec
      BY <2>2, <3>1, StaysAdvances
    <3>2. ASSUME NEW d \in Device, NEW k \in Attempt, NEW op, HandlerApplies(d, k, op)
          PROVE  Advances(serverRec[r], serverRec'[r])
      <4>1. Resolved(serverRec[r], ServerApplied(r)) /\ Resolved(serverRec'[r], ServerApplied(r)')
        BY DEF ReplicaInv, ServerResolved
      <4>2. ServerApplied(r) \subseteq ServerApplied(r)' /\ ServerApplied(r)' \in SUBSET Op
        BY <2>1, <3>2, ServerAppliedGrows
      <4>. QED  BY <2>2, <4>1, <4>2, MoreOpsAdvance
    <3>. QED  BY <2>1, <3>1, <3>2, ServerChanges
  <2>4. ASSUME NEW d \in Device PROVE Advances(rec[d][r], rec'[d][r])
    <3>1. CASE rec'[d] = rec[d]
      BY <2>2, <3>1, StaysAdvances
    <3>2. ASSUME NEW op, Applies(d, op)
          PROVE  Advances(rec[d][r], rec'[d][r])
      <4>1. Resolved(rec[d][r], Applied(d, r)) /\ Resolved(rec'[d][r], Applied(d, r)')
        BY DEF ReplicaInv, ResolvedInv, RecordsResolved
      <4>2. Applied(d, r) \subseteq Applied(d, r)' /\ Applied(d, r)' \in SUBSET Op
        BY <2>1, <3>2, AppliedGrows
      <4>. QED  BY <2>2, <4>1, <4>2, MoreOpsAdvance
    <3>. QED  BY <2>1, <3>1, <3>2, DeviceChanges
  <2>. QED  BY <2>3, <2>4
<1>. QED  BY <1>1, <1>2, ReplicaInit, PTL DEF Spec, RecordsNeverGoBack

-----------------------------------------------------------------------------
(***************************************************************************)
(* The server's conflict rows.                                             *)
(***************************************************************************)

\* No error and no stop falls between PutRecord and RecordConflict of an op.
ServerRowsWritten == \A d \in Device, k \in Attempt :
                       HandlerFails(d, k) => handler[d][k].pc # "audit"

\* The op whose conflict row a handler is about to write, and the losers on record.
ServerDue ==
  {l \in OpId : \E d \in Device, k \in Attempt : \E op \in handler[d][k].todo :
                  /\ handler[d][k].pc = "audit" /\ IsNext(op, handler[d][k].todo)
                  /\ l = Resolve(handler[d][k].snap, op).loser}
ServerLost == {row.loser : row \in serverAudit} \cup ServerDue

ServerAuditInOrder ==
  \A r \in RecordId : TracedTo(serverRec[r], ServerApplied(r), ServerLost)

\* Rows are only added, by a handler.
LEMMA ServerAuditSources ==
  ASSUME [Next]_vars
  PROVE  serverAudit \subseteq serverAudit'
<1>1. ASSUME NEW d \in Device, NEW k \in Attempt, HandlerAudit(d, k)
      PROVE  serverAudit \subseteq serverAudit'
  BY <1>1 DEF HandlerAudit
<1>2. ASSUME NEW d \in Device, NEW k \in Attempt,
             \/ HandlerAppend(d, k) \/ HandlerLoad(d, k) \/ HandlerSave(d, k)
             \/ HandlerEnds(d, k) \/ HandlerFails(d, k)
      PROVE  serverAudit' = serverAudit
  BY <1>2 DEF HandlerAppend, HandlerLoad, HandlerSave, HandlerEnds, HandlerFails, serverVars
<1>3. ASSUME NEW d \in Device,
             \/ WriteBegin(d) \/ WriteStep(d) \/ SyncBegin(d) \/ PushReply(d)
             \/ PushFailed(d) \/ PullPage(d) \/ PullAppend(d) \/ PullLoad(d)
             \/ PullSave(d) \/ PullAudit(d) \/ PullCheckpoint(d)
      PROVE  serverAudit' = serverAudit
  BY <1>3 DEF WriteBegin, WriteStep, WriteAppend, WriteSave, SyncBegin, PushReply,
       PushFailed, PullPage, PullAppend, PullLoad, PullSave, PullAudit,
       PullCheckpoint, serverVars
<1>4. ASSUME NEW d \in Device,
             \/ WriteFails(d) \/ PushReplyLost(d) \/ PushTimeout(d) \/ PullFails(d) \/ Stop(d)
      PROVE  serverAudit' = serverAudit
  BY <1>4 DEF WriteFails, PushReplyLost, PushTimeout, PullFails, Stop, serverVars
<1>5. CASE UNCHANGED vars
  BY <1>5 DEF vars, serverVars
<1>. QED  BY <1>1, <1>2, <1>3, <1>4, <1>5 DEF Next, SyncStep, HandlerStep, FaultStep

\* A handler with a row to write does nothing else.
LEMMA ServerRowDue ==
  ASSUME TypeInv, [Next]_vars, [ServerWhole]_vars, [ServerRowsWritten]_vars,
         NEW e \in Device, NEW j \in Attempt, handler[e][j].pc = "audit"
  PROVE  HandlerAudit(e, j) \/ handler'[e][j] = handler[e][j]
<1>1. handler \in [Device -> [Attempt -> Handler]]
  BY DEF TypeInv, TypeOK
<1>2. ASSUME NEW d \in Device, NEW k \in Attempt,
             HandlerAppend(d, k) \/ HandlerLoad(d, k) \/ HandlerSave(d, k)
      PROVE  handler'[e][j] = handler[e][j]
  <2>1. ~(e = d /\ j = k)
    BY <1>2 DEF HandlerAppend, HandlerLoad, HandlerSave
  <2>2. CASE HandlerAppend(d, k)
    BY <1>1, <2>1, <2>2 DEF HandlerAppend
  <2>3. CASE HandlerLoad(d, k)
    BY <1>1, <2>1, <2>3 DEF HandlerLoad
  <2>4. CASE HandlerSave(d, k)
    BY <1>1, <2>1, <2>4 DEF HandlerSave
  <2>. QED  BY <1>2, <2>2, <2>3, <2>4
<1>3. CASE QuietHandler(e, j)
  <2>1. ~HandlerFails(e, j)
    <3>1. SUFFICES ASSUME HandlerFails(e, j) PROVE FALSE
      OBVIOUS
    <3>2. vars' # vars
      BY <3>1, FaultsChange DEF HandlerFails
    <3>. QED  BY <3>1, <3>2 DEF ServerRowsWritten
  <2>. QED  BY <1>3, <2>1 DEF QuietHandler, Rests, InHand
<1>. QED  BY <1>2, <1>3, ServerSteps

\* A loser stays on record: a handler with a row to write writes it (RecordConflict).
LEMMA ServerLostGrows ==
  ASSUME TypeInv, OpsIdentified, [Next]_vars, [ServerWhole]_vars, [ServerRowsWritten]_vars
  PROVE  ServerLost \subseteq ServerLost'
<1>1. ASSUME NEW l \in ServerDue PROVE l \in ServerLost'
  <2>1. PICK d \in Device, k \in Attempt : \E op \in handler[d][k].todo :
          /\ handler[d][k].pc = "audit" /\ IsNext(op, handler[d][k].todo)
          /\ l = Resolve(handler[d][k].snap, op).loser
    BY <1>1 DEF ServerDue
  <2>2. CASE handler'[d][k] = handler[d][k]
    <3>1. l \in ServerDue'
      BY <1>1, <2>1, <2>2 DEF ServerDue
    <3>. QED  BY <3>1 DEF ServerLost
  <2>3. CASE HandlerAudit(d, k)
    <3>1. PICK x \in handler[d][k].todo :
            /\ IsNext(x, handler[d][k].todo)
            /\ serverAudit' = serverAudit \cup {Row(x, Resolve(handler[d][k].snap, x))}
      BY <2>3 DEF HandlerAudit
    <3>2. l = Resolve(handler[d][k].snap, x).loser
      BY <2>1, <3>1, NextUnique
    <3> DEFINE row == Row(x, Resolve(handler[d][k].snap, x))
    <3>3. row.loser = l /\ row \in serverAudit'
      BY <2>1, <3>1, <3>2 DEF Row
    <3> HIDE DEF row
    <3>. QED  BY <3>3 DEF ServerLost
  <2>. QED  BY <2>1, <2>2, <2>3, ServerRowDue
<1>. QED  BY <1>1, ServerAuditSources DEF ServerLost

LEMMA ServerAuditStep ==
  ASSUME KnowInv, ServerFresh, ServerJoined, ServerAuditInOrder, [Next]_vars,
         ServerExclusive, [ServerWhole]_vars, [ServerRowsWritten]_vars
  PROVE  ServerAuditInOrder'
<1>1. /\ TypeInv /\ OpsIdentified /\ HandledStored /\ VectorsClosed
      /\ serverRec \in [RecordId -> Record]
      /\ handler \in [Device -> [Attempt -> Handler]]
  BY DEF KnowInv, CausalInv, RefInv, LogInv, TypeInv, TypeOK
<1>2. /\ ServerOps \in SUBSET Op /\ ServerOps \subseteq AllOps
      /\ ServerLost \subseteq ServerLost'
  BY <1>1, StoredKnown, ServerLostGrows
<1>3. \A r \in RecordId : TracedTo(serverRec[r], ServerApplied(r), ServerLost')
  BY <1>2 DEF ServerAuditInOrder, TracedTo
<1>4. CASE serverRec' = serverRec /\ ServerAppliedStays
  BY <1>3, <1>4 DEF ServerAppliedStays, ServerAuditInOrder
<1>5. ASSUME NEW d \in Device, NEW k \in Attempt, NEW op, HandlerApplies(d, k, op),
             NEW r \in RecordId
      PROVE  TracedTo(serverRec'[r], ServerApplied(r)', ServerLost')
  <2>1. /\ op \in Op /\ op \in ServerOps /\ op.record \in RecordId
        /\ ServerApplied(r)' = ServerApplied(r) \cup OpsOn({op}, r)
    <3>1. /\ op \in Op /\ op \in ServerOps
          /\ ServerApplied(r)' = ServerApplied(r) \cup OpsOn({op}, r)
      BY <1>1, <1>5, ServerAppliedGrows
    <3>. QED  BY <3>1 DEF Op
  <2>2. /\ serverRec' = [serverRec EXCEPT ![op.record] =
                           Resolve(serverRec[op.record], op).record]
        /\ handler[d][k].snap = serverRec[op.record]
    BY <1>5 DEF HandlerApplies
  <2>3. ASSUME Resolve(serverRec[op.record], op).conflicted
        PROVE  Resolve(serverRec[op.record], op).loser \in ServerLost'
    <3>1. handler' = [handler EXCEPT ![d][k].pc = "audit"]
      BY <1>5, <2>3 DEF HandlerApplies
    <3>2. /\ handler'[d][k].pc = "audit" /\ handler'[d][k].todo = handler[d][k].todo
          /\ handler'[d][k].snap = serverRec[op.record]
      BY <1>1, <2>2, <3>1 DEF Handler
    <3>3. IsNext(op, handler'[d][k].todo) /\ op \in handler'[d][k].todo
      BY <1>5, <3>2 DEF HandlerApplies, Holds, IsNext
    <3>4. Resolve(serverRec[op.record], op).loser \in OpId
      <4>1. serverRec[op.record] \in Record /\ NoOp \in OpId
        BY <1>1, <2>1 DEF NoOp, OpId
      <4>. QED  BY <2>1, <4>1, ConflictsConcurrent
    <3>5. Resolve(serverRec[op.record], op).loser \in ServerDue'
      BY <3>2, <3>3, <3>4 DEF ServerDue
    <3>. QED  BY <3>5 DEF ServerLost
  <2>4. CASE r = op.record
    <3>1. /\ ServerApplied(r)' = ServerApplied(r) \cup {op}
          /\ serverRec'[r] = Resolve(serverRec[r], op).record /\ serverRec[r] \in Record
      BY <1>1, <2>1, <2>2, <2>4 DEF OpsOn
    <3>2. /\ \A a \in ServerApplied(r) \cup {op} : a \in AllOps /\ a.record = r
          /\ ServerApplied(r) \in SUBSET Op
      BY <1>2, <2>1, <2>4 DEF ServerApplied, OpsOn
    <3>3. \A a, b \in ServerApplied(r) \cup {op} :
            a.vv[b.device] >= b.vv[b.device] => Knows(a.vv, b.vv)
      BY <1>1, <3>2 DEF VectorsClosed
    <3>4. TracedTo(Resolve(serverRec[r], op).record, ServerApplied(r) \cup {op}, ServerLost')
      <4>1. /\ Joined(serverRec[r], ServerApplied(r))
            /\ TracedTo(serverRec[r], ServerApplied(r), ServerLost)
        BY DEF ServerJoined, ServerAuditInOrder
      <4>. QED  BY <1>2, <2>1, <2>3, <2>4, <3>1, <3>2, <3>3, <4>1, ResolveTraces
    <3>. QED  BY <3>1, <3>4
  <2>5. CASE r # op.record
    <3>1. ServerApplied(r)' = ServerApplied(r) /\ serverRec'[r] = serverRec[r]
      BY <1>1, <2>1, <2>2, <2>5 DEF OpsOn
    <3>. QED  BY <1>3, <3>1
  <2>. QED  BY <2>4, <2>5
<1>. QED  BY <1>1, <1>4, <1>5, ServerChanges DEF ServerAuditInOrder

LEMMA ServerAuditInit == Init => ServerAuditInOrder
BY ServerInit DEF ServerAuditInOrder, TracedTo

\* The same of the server's conflict rows (handlePush, RecordConflict): no timestamp
\* has to be right for it.
THEOREM ServerLosersAuditedAlways ==
  Spec /\ []Exclusive /\ [][Whole]_vars
       /\ []ServerExclusive /\ [][ServerWhole]_vars /\ [][ServerRowsWritten]_vars
    => []ServerLosersAudited
<1> DEFINE Inv == KnowInv /\ ServerFresh /\ ServerJoined /\ ServerAuditInOrder
<1>1. Init => Inv
  BY KnowInit, ServerInit, ServerJoinedInit, ServerAuditInit
<1>2. Inv /\ [Next]_vars /\ Exclusive /\ [Whole]_vars
        /\ ServerExclusive /\ [ServerWhole]_vars /\ [ServerRowsWritten]_vars => Inv'
  <2>1. KnowInv => LogInv
    BY DEF KnowInv, CausalInv, RefInv
  <2>. QED  BY <2>1, KnowStep, ServerJoinedStep, ServerAuditStep
<1>3. Inv => ServerLosersAudited
  <2> SUFFICES ASSUME ServerAuditInOrder, SettledServer,
                      \A d \in Device, k \in Attempt : handler[d][k].pc # "audit",
                      NEW r \in RecordId
               PROVE  Traced(serverRec[r], OpsOn(ServerOps, r), serverAudit)
    BY DEF ServerLosersAudited
  <2>1. ServerDue = {}
    BY DEF ServerDue
  <2>2. /\ ServerApplied(r) = OpsOn(ServerOps, r)
        /\ ServerLost = {row.loser : row \in serverAudit}
    BY <2>1, ServerSettled DEF ServerLost
  <2>3. TracedTo(serverRec[r], ServerApplied(r), ServerLost)
    BY DEF ServerAuditInOrder
  <2>. QED  BY <2>2, <2>3, TracedByLosers
<1>. QED  BY <1>1, <1>2, <1>3, PTL DEF Spec

-----------------------------------------------------------------------------
(***************************************************************************)
(* Who meets the conditions.                                               *)
(***************************************************************************)

\* A server that takes one op at a time, whose database returns no errors and
\* whose process does not die within an op.
CalmServer == SerialPush /\ "abort" \notin FaultKinds

OneInHand == \A d, e \in Device : \A k, j \in Attempt :
               InHand(handler[d][k]) /\ InHand(handler[e][j]) => d = e /\ k = j

LEMMA CalmServerWhole == CalmServer => ServerWhole /\ ServerRowsWritten
BY DEF CalmServer, ServerWhole, ServerRowsWritten, HandlerFails, Fault, MayFault, InHand

LEMMA OneInHandStep ==
  ASSUME CalmServer, TypeInv, OneInHand, [Next]_vars
  PROVE  OneInHand'
<1>1. handler \in [Device -> [Attempt -> Handler]]
  BY DEF TypeInv, TypeOK
<1>2. CASE \A d \in Device, k \in Attempt : InHand(handler'[d][k]) => InHand(handler[d][k])
  BY <1>2 DEF OneInHand
<1>3. CASE \A d \in Device, k \in Attempt : QuietHandler(d, k)
  BY <1>2, <1>3 DEF QuietHandler, Rests
<1>4. ASSUME NEW d \in Device, NEW k \in Attempt, HandlerLoad(d, k) \/ HandlerSave(d, k)
      PROVE  OneInHand'
  <2>1. InHand(handler[d][k])
    BY <1>4 DEF HandlerLoad, HandlerSave, InHand
  <2>2. \A e \in Device, j \in Attempt :
          (e = d /\ j = k) \/ handler'[e][j] = handler[e][j]
    <3>1. CASE HandlerLoad(d, k)
      BY <1>1, <3>1 DEF HandlerLoad
    <3>2. CASE HandlerSave(d, k)
      BY <1>1, <3>2 DEF HandlerSave
    <3>. QED  BY <1>4, <3>1, <3>2
  <2>. QED  BY <1>2, <2>1, <2>2
<1>5. ASSUME NEW d \in Device, NEW k \in Attempt, HandlerAppend(d, k)
      PROVE  OneInHand'
  <2>1. \A e \in Device, j \in Attempt : ~InHand(handler[e][j])
    BY <1>5 DEF HandlerAppend, MayTakeOp, CalmServer
  <2>2. \A e \in Device, j \in Attempt :
          (e = d /\ j = k) \/ handler'[e][j] = handler[e][j]
    BY <1>1, <1>5 DEF HandlerAppend
  <2>. QED  BY <2>1, <2>2 DEF OneInHand
<1>. QED  BY <1>3, <1>4, <1>5, CalmServerWhole, ServerSteps

\* Such a server does not work on one record twice at the same time, and breaks
\* nothing off between AppendOp and RecordConflict of an op (handlePush).
THEOREM CalmServerExclusive ==
  ASSUME CalmServer
  PROVE  Spec => []ServerExclusive /\ [][ServerWhole]_vars /\ [][ServerRowsWritten]_vars
<1> DEFINE Inv == TypeInv /\ OneInHand
<1>1. Init => Inv
  BY TypeInit DEF Init, OneInHand, InHand, FreeHandler
<1>2. Inv /\ [Next]_vars => Inv'
  BY TypeStep, OneInHandStep
<1>3. Inv => ServerExclusive
  BY DEF OneInHand, ServerExclusive, Saves, InHand
<1>4. ServerWhole /\ ServerRowsWritten
  BY CalmServerWhole
<1>. QED  BY <1>1, <1>2, <1>3, <1>4, PTL DEF Spec

LEMMA CalmRowsWritten == CalmClients => RowsWritten
BY DEF CalmClients, RowsWritten, PullFails, Stop, Fault, MayFault

\* With such clients and such a server every loser leaves its trace, and every
\* acknowledged op is applied, at every restart of a client between two calls and
\* whatever is lost or delayed on the network.
THEOREM CalmAudits ==
  ASSUME CalmClients, CalmServer
  PROVE  Spec => []LosersAudited /\ []ServerLosersAudited /\ []AckedApplied
<1>1. Spec => []Exclusive /\ [][Whole]_vars
  BY CalmClientsExclusive
<1>2. Spec => []ServerExclusive /\ [][ServerWhole]_vars /\ [][ServerRowsWritten]_vars
  BY CalmServerExclusive
<1>3. RowsWritten
  BY CalmRowsWritten
<1>. QED  BY <1>1, <1>2, <1>3, LosersAuditedAlways, ServerLosersAuditedAlways,
             AckedAppliedAlways, PTL

\* If besides no client is stopped at all, and no uint32 counter is at its end, the
\* replicas converge and no record ever goes back.
THEOREM CalmConverges ==
  ASSUME CalmClients, CalmServer, "restart" \notin FaultKinds
  PROVE  Spec /\ []CountersHaveRoom =>
           []DeviceRecords /\ []ServerRecords /\ []ReplicasConverge /\ RecordsNeverGoBack
<1>1. Spec => []Exclusive /\ [][Whole]_vars
  BY CalmClientsExclusive
<1>2. Spec => []ServerExclusive /\ [][ServerWhole]_vars
  BY CalmServerExclusive
<1>3. Spec /\ []CountersHaveRoom => [][Later]_vars
  <2>1. FaultKinds \cap {"restart", "crash"} = {}
    BY DEF CalmClients
  <2>. QED  BY <2>1, LaterWithoutStops
<1>. QED  BY <1>1, <1>2, <1>3, DeviceRecordsAlways, ServerRecordsAlways,
             ReplicasConvergeAlways, RecordsNeverGoBackAlways, PTL
=============================================================================
