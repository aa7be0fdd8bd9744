--------------------------- MODULE SyncForgeProofs ---------------------------
(***************************************************************************)
(* Proofs about SyncForge for any devices, records, clocks, bounds and     *)
(* faults: type correctness and what the logs promise.                     *)
(***************************************************************************)
EXTENDS Replication, TLAPS

-----------------------------------------------------------------------------
(***************************************************************************)
(* The values that the operators of the model return.                      *)
(***************************************************************************)

\* vector.Merge and Vector.Increment return vectors.
LEMMA VectorTypes ==
  /\ ZeroVector \in VectorType
  /\ \A v, w \in VectorType : Merge(v, w) \in VectorType
  /\ \A v \in VectorType, n \in Device : Increment(v, n) \in VectorType
BY DEF VectorType, ZeroVector, Merge, Increment

\* The four relations of Vector.Compare exclude each other.
LEMMA CompareValues ==
  ASSUME NEW v, NEW w
  PROVE  Compare(v, w) \in {"Equal", "Descendant", "Ancestor", "Concurrent"}
BY DEF Compare

\* conflict.Resolve maps a record and an op to a record, and names ops.
LEMMA ResolveType ==
  ASSUME NEW x \in Record, NEW op \in Op
  PROVE  /\ Resolve(x, op).record \in Record
         /\ Resolve(x, op).conflicted \in BOOLEAN
         /\ Resolve(x, op).winner \in OpId
         /\ Resolve(x, op).loser \in OpId
<1>1. FromOp(op) \in Record /\ op.id \in OpId /\ op.vv \in VectorType
  BY DEF FromOp, Op, Record
<1>2. x.win \in OpId /\ x.vv \in VectorType /\ x.found \in BOOLEAN
  BY DEF Record
<1>3. NoOp \in OpId
  BY DEF NoOp, OpId
<1>4. Merge(x.vv, op.vv) \in VectorType
  BY <1>1, <1>2, VectorTypes
<1>5. /\ [FromOp(op) EXCEPT !.vv = Merge(x.vv, op.vv)] \in Record
      /\ [x EXCEPT !.vv = Merge(x.vv, op.vv)] \in Record
  BY <1>1, <1>4 DEF Record
<1> DEFINE rel == Compare(x.vv, op.vv)
<1>6. rel \in {"Equal", "Descendant", "Ancestor", "Concurrent"}
  BY CompareValues
<1>7. CASE ~x.found
  <2>1. Resolve(x, op) = Decision(FromOp(op), FALSE, op.id, NoOp)
    BY <1>7 DEF Resolve
  <2>. QED  BY <2>1, <1>1, <1>3 DEF Decision
<1>8. CASE x.found /\ rel \in {"Equal", "Descendant"}
  <2>1. Resolve(x, op) = Decision(x, FALSE, x.win, NoOp)
    BY <1>8 DEF Resolve
  <2>. QED  BY <2>1, <1>2, <1>3 DEF Decision
<1>9. CASE x.found /\ rel = "Ancestor"
  <2>1. Resolve(x, op) = Decision(FromOp(op), FALSE, op.id, NoOp)
    BY <1>9 DEF Resolve
  <2>. QED  BY <2>1, <1>1, <1>3 DEF Decision
<1>10. CASE x.found /\ rel = "Concurrent" /\ After(op.hlc, x.hlc)
  <2>1. Resolve(x, op) = Decision([FromOp(op) EXCEPT !.vv = Merge(x.vv, op.vv)],
                                  TRUE, op.id, x.win)
    BY <1>10 DEF Resolve
  <2>. QED  BY <2>1, <1>1, <1>2, <1>5 DEF Decision
<1>11. CASE x.found /\ rel = "Concurrent" /\ ~After(op.hlc, x.hlc)
  <2>1. Resolve(x, op) = Decision([x EXCEPT !.vv = Merge(x.vv, op.vv)],
                                  TRUE, x.win, op.id)
    BY <1>11 DEF Resolve
  <2>. QED  BY <2>1, <1>1, <1>2, <1>5 DEF Decision
<1>. QED  BY <1>2, <1>6, <1>7, <1>8, <1>9, <1>10, <1>11

\* Clock.Now and Clock.Observe return timestamps, wraps of the counter included.
LEMMA ClockTypes ==
  ASSUME NEW t \in Timestamp, NEW phys \in Nat, NEW n \in Nat
  PROVE  /\ Now(t, phys, n) \in Timestamp
         /\ \A r \in Timestamp : Observe(t, phys, r, n) \in Timestamp
<1>1. \A l \in Nat : Succ32(l) \in Nat
  BY LogicalModAssumption DEF Succ32
<1>2. \A a, b \in Nat : Larger(a, b) \in Nat
  BY DEF Larger
<1>3. t.physical \in Nat /\ t.logical \in Nat
  BY DEF Timestamp
<1>4. Now(t, phys, n) \in Timestamp
  BY <1>1, <1>2, <1>3 DEF Now, Timestamp
<1>5. ASSUME NEW r \in Timestamp
      PROVE  Observe(t, phys, r, n) \in Timestamp
  <2>1. r.physical \in Nat /\ r.logical \in Nat
    BY DEF Timestamp
  <2> DEFINE p == Larger(phys, Larger(t.physical, r.physical))
  <2>2. p \in Nat
    BY <1>2, <1>3, <2>1
  <2>3. Observe(t, phys, r, n).logical \in Nat
    <3>1. CASE p = t.physical /\ p = r.physical
      BY <3>1, <1>1, <1>2, <1>3, <2>1 DEF Observe
    <3>2. CASE p = t.physical /\ p # r.physical
      BY <3>2, <1>1, <1>3 DEF Observe
    <3>3. CASE p # t.physical /\ p = r.physical
      BY <3>3, <1>1, <2>1 DEF Observe
    <3>4. CASE p # t.physical /\ p # r.physical
      BY <3>4 DEF Observe
    <3>. QED  BY <3>1, <3>2, <3>3, <3>4
  <2>. QED  BY <2>2, <2>3 DEF Observe, Timestamp
<1>. QED  BY <1>4, <1>5

\* A missing record, an idle handler, an idle Sync are values of their kinds.
LEMMA IdleTypes ==
  /\ NoRecord \in Record
  /\ FreeHandler \in Handler
  /\ NoSync \in Sync
  /\ ZeroStamp \in Timestamp
<1>1. ZeroStamp \in Timestamp
  BY DEF ZeroStamp, Timestamp
<1>2. NoRecord \in Record
  BY <1>1, VectorTypes DEF NoRecord, Record, NoOp, OpId
<1>3. FreeHandler \in Handler
  BY <1>2 DEF FreeHandler, Handler
<1>4. NoSync \in Sync
  BY <1>2, AttemptsAssumption DEF NoSync, Sync, Attempt
<1>. QED  BY <1>1, <1>2, <1>3, <1>4

-----------------------------------------------------------------------------
(***************************************************************************)
(* Type correctness.  A Sync reads the server's log at the position it has *)
(* reached in its page, so that position has to lie in the page.           *)
(***************************************************************************)

InPage(s) == s.pc \in {"append", "load", "save", "audit"}
PageInLog == \A d \in Device : InPage(sync[d]) => sync[d].at \in 1 .. sync[d].upto

TypeInv == TypeOK /\ PageInLog

LEMMA TypeInit == Init => TypeInv
<1>. SUFFICES ASSUME Init PROVE TypeInv
  OBVIOUS
<1>1. serverLog \in Seq(Op) /\ Len(serverLog) = 0
  BY DEF Init
<1>2. PageInLog
  BY DEF Init, PageInLog, InPage, NoSync
<1>3. faults \in 0 .. MaxFaults
  BY FaultsAssumption DEF Init
<1>4. ASSUME NEW d \in Device
      PROVE  checkpoint[d] <= Len(serverLog) /\ sync[d].upto <= Len(serverLog)
  <2>1. checkpoint[d] = 0 /\ sync[d].upto = 0
    BY DEF Init, NoSync
  <2>. QED  BY <1>1, <2>1
<1>5. /\ serverRec \in [RecordId -> Record]
      /\ rec \in [Device -> [RecordId -> Record]]
      /\ handler \in [Device -> [Attempt -> Handler]]
      /\ sync \in [Device -> Sync]
      /\ clock \in [Device -> Timestamp]
  BY IdleTypes DEF Init
<1>6. /\ log \in [Device -> SUBSET Op]
      /\ audit \in [Device -> SUBSET AuditRow]
      /\ pushed \in [Device -> SUBSET OpId]
      /\ checkpoint \in [Device -> Nat]
      /\ written \in [Device -> Nat]
      /\ write \in [Device -> {NoWrite} \cup WriteInProgress]
      /\ serverAudit \subseteq AuditRow
  BY DEF Init
<1>. QED  BY <1>1, <1>2, <1>3, <1>4, <1>5, <1>6 DEF TypeInv, TypeOK

\* The op that a Sync has reached.
LEMMA PageOp ==
  ASSUME TypeInv, NEW d \in Device, InPage(sync[d])
  PROVE  serverLog[sync[d].at] \in Op /\ sync[d].at \in DOMAIN serverLog
<1>1. sync[d].at \in 1 .. sync[d].upto /\ sync[d].upto <= Len(serverLog)
  BY DEF TypeInv, TypeOK, PageInLog
<1>2. sync[d].upto \in Nat /\ serverLog \in Seq(Op) /\ Len(serverLog) \in Nat
  BY DEF TypeInv, TypeOK, Sync
<1>. QED  BY <1>1, <1>2

LEMMA WriteTypes ==
  ASSUME TypeInv, NEW d \in Device,
         WriteBegin(d) \/ WriteStep(d) \/ WriteFails(d)
  PROVE  TypeInv'
<1> USE DEF TypeInv, TypeOK, PageInLog, serverVars, storeVars
<1>1. \A phys \in Time[d] : Now(clock[d], phys, d) \in Timestamp
  BY ClockTypes, TimeAssumption, DeviceAssumption
<1>2. CASE WriteBegin(d)
  BY <1>2 DEF WriteBegin, WriteInProgress
<1>3. CASE WriteAppend(d)
  <2>1. write[d] \in WriteInProgress
    BY <1>3 DEF WriteAppend, NoWrite
  <2>2. ASSUME NEW stamp \in Timestamp
        PROVE  NewOp(d, stamp) \in Op
    <3>1. WriteVector(write[d].snap, d) \in VectorType
      BY <2>1, VectorTypes DEF WriteVector, WriteInProgress, Record
    <3>2. OpTypeOf(write[d].kind, write[d].snap) \in OpType
      BY <2>1 DEF OpTypeOf, OpType
    <3>3. <<d, written[d] + 1>> \in OpId
      BY DeviceAssumption DEF OpId
    <3>. QED  BY <2>1, <3>1, <3>2, <3>3 DEF NewOp, Op, WriteInProgress
  <2>3. PICK phys \in Time[d] :
          /\ clock' = [clock EXCEPT ![d] = Now(clock[d], phys, d)]
          /\ log' = [log EXCEPT ![d] = @ \cup {NewOp(d, Now(clock[d], phys, d))}]
    BY <1>3 DEF WriteAppend
  <2>4. log' \in [Device -> SUBSET Op] /\ clock' \in [Device -> Timestamp]
    BY <1>1, <2>2, <2>3
  <2>5. write' \in [Device -> {NoWrite} \cup WriteInProgress]
    BY <1>3, <2>1 DEF WriteAppend, WriteInProgress
  <2>. QED  BY <1>3, <2>4, <2>5 DEF WriteAppend
<1>4. CASE WriteSave(d)
  <2>1. write[d] \in WriteInProgress
    BY <1>4 DEF WriteSave, NoWrite
  <2>2. write[d].snap \in Record
    BY <2>1 DEF WriteInProgress
  <2>3. PICK op \in log[d] :
          rec' = [rec EXCEPT ![d][op.record] = Resolve(write[d].snap, op).record]
    BY <1>4 DEF WriteSave
  <2>4. op \in Op
    OBVIOUS
  <2>5. rec' \in [Device -> [RecordId -> Record]]
    BY <2>2, <2>3, <2>4, ResolveType DEF Op
  <2>. QED  BY <1>4, <2>5 DEF WriteSave
<1>5. CASE WriteFails(d)
  <2>1. clock' \in [Device -> Timestamp]
    BY <1>1, <1>5 DEF WriteFails
  <2>2. faults' \in 0 .. MaxFaults
    BY <1>5, FaultsAssumption DEF WriteFails, Fault, MayFault
  <2>. QED  BY <1>5, <2>1, <2>2 DEF WriteFails
<1>. QED  BY <1>2, <1>3, <1>4, <1>5 DEF WriteStep

\* Replacing one handler by another.
LEMMA HandlerReplaced ==
  ASSUME NEW f \in [Device -> [Attempt -> Handler]],
         NEW d \in Device, NEW k \in Attempt, NEW h \in Handler
  PROVE  [f EXCEPT ![d][k] = h] \in [Device -> [Attempt -> Handler]]
OBVIOUS

LEMMA PushTypes ==
  ASSUME TypeInv, NEW d \in Device,
         SyncBegin(d) \/ PushReply(d) \/ PushReplyLost(d) \/ PushFailed(d) \/ PushTimeout(d)
  PROVE  TypeInv'
<1> USE DEF TypeInv, TypeOK, PageInLog, InPage, serverVars, storeVars
<1>1. \A batch \in SUBSET Op : Started(batch) \in Handler
  BY IdleTypes DEF Started, Handler
<1>2. 1 \in Attempt
  BY AttemptsAssumption DEF Attempt
<1>3. /\ [NoSync EXCEPT !.pc = "pull"] \in Sync
      /\ [NoSync EXCEPT !.pc = "pushing"] \in Sync
      /\ NoSync \in Sync
  BY IdleTypes DEF Sync
<1>4. /\ NoSync.upto = 0 /\ NoSync.pc = "idle"
      /\ [NoSync EXCEPT !.pc = "pull"].upto = 0
      /\ [NoSync EXCEPT !.pc = "pull"].pc = "pull"
      /\ [NoSync EXCEPT !.pc = "pushing"].upto = 0
      /\ [NoSync EXCEPT !.pc = "pushing"].pc = "pushing"
  BY DEF NoSync
<1>5. Len(serverLog) \in Nat
  OBVIOUS
<1>6. faults' = faults + 1 /\ faults < MaxFaults => faults' \in 0 .. MaxFaults
  BY FaultsAssumption
\* The two outcomes of an attempt that failed.
<1>7. ASSUME NEW left \in Handler, Resend(d, left), sync[d].pc = "pushing"
      PROVE  /\ handler' \in [Device -> [Attempt -> Handler]]
             /\ sync' \in [Device -> Sync]
             /\ \A e \in Device : sync'[e].upto = sync[e].upto /\ sync'[e].pc = sync[e].pc
                                  /\ sync'[e].at = sync[e].at
  <2>1. sync[d].attempt \in Attempt /\ sync[d].attempt + 1 \in Attempt
    BY <1>7, AttemptsAssumption DEF Resend, Attempt, Sync
  <2>2. Started(handler[d][sync[d].attempt].batch) \in Handler
    BY <1>1, <2>1 DEF Handler
  <2>3. handler' \in [Device -> [Attempt -> Handler]]
    <3> DEFINE k == sync[d].attempt
               new == Started(handler[d][k].batch)
    <3>1. handler' = [[handler EXCEPT ![d][k] = left] EXCEPT ![d][k + 1] = new]
      BY <1>7 DEF Resend
    <3>2. [handler EXCEPT ![d][k] = left] \in [Device -> [Attempt -> Handler]]
      BY <2>1, HandlerReplaced
    <3>. QED  BY ONLY <2>1, <2>2, <3>1, <3>2, HandlerReplaced, d \in Device
  <2>4. sync' = [sync EXCEPT ![d].attempt = sync[d].attempt + 1]
    BY <1>7 DEF Resend
  <2>5. [sync[d] EXCEPT !.attempt = sync[d].attempt + 1] \in Sync
    <3>1. sync[d] \in Sync
      OBVIOUS
    <3>. QED  BY ONLY <2>1, <3>1 DEF Sync
  <2>6. sync' \in [Device -> Sync]
    <3>1. sync \in [Device -> Sync]
      OBVIOUS
    <3>2. sync' = [sync EXCEPT ![d] = [sync[d] EXCEPT !.attempt = sync[d].attempt + 1]]
      BY <2>4
    <3>. QED  BY ONLY <2>5, <3>1, <3>2
  <2>7. \A e \in Device : sync'[e].upto = sync[e].upto /\ sync'[e].pc = sync[e].pc
                           /\ sync'[e].at = sync[e].at
    <3>1. sync \in [Device -> Sync]
      OBVIOUS
    <3>. QED  BY ONLY <2>4, <3>1 DEF Sync
  <2>. QED  BY <2>3, <2>6, <2>7
<1>8. ASSUME NEW left \in Handler, GiveUp(d, left)
      PROVE  /\ handler' \in [Device -> [Attempt -> Handler]]
             /\ sync' = [sync EXCEPT ![d] = NoSync]
  BY <1>8 DEF GiveUp, Sync
<1>9. CASE SyncBegin(d)
  <2>1. Outbox(d) \in SUBSET Op
    BY DEF Outbox
  <2>2. Started(Outbox(d)) \in Handler
    BY <1>1, <2>1
  <2>3. handler' = handler \/ handler' = [handler EXCEPT ![d][1] = Started(Outbox(d))]
    BY <1>9 DEF SyncBegin
  <2>4. handler' \in [Device -> [Attempt -> Handler]]
    <3>1. handler \in [Device -> [Attempt -> Handler]]
      OBVIOUS
    <3>2. [handler EXCEPT ![d][1] = Started(Outbox(d))] \in [Device -> [Attempt -> Handler]]
      BY ONLY <1>2, <2>2, <3>1, HandlerReplaced, d \in Device
    <3>. QED  BY ONLY <2>3, <3>1, <3>2
  <2>5. PICK s \in {[NoSync EXCEPT !.pc = "pull"], [NoSync EXCEPT !.pc = "pushing"]} :
          sync' = [sync EXCEPT ![d] = s]
    BY <1>9 DEF SyncBegin
  <2>6. s \in Sync /\ s.upto = 0 /\ s.pc \in {"pull", "pushing"}
    BY <1>3, <1>4
  <2>. QED  BY <1>5, <1>9, <2>4, <2>5, <2>6 DEF SyncBegin
<1>10. CASE PushReply(d)
  <2>1. sync[d].attempt \in Attempt
    BY DEF Sync
  <2>2. Accepted(d, sync[d].attempt) \in SUBSET OpId
    BY <2>1 DEF Accepted, Ids, Handler, Op
  <2>3. pushed' \in [Device -> SUBSET OpId]
    BY <1>10, <2>2 DEF PushReply
  <2>4. handler' \in [Device -> [Attempt -> Handler]]
    BY <1>10, <2>1, IdleTypes DEF PushReply
  <2>5. sync' = [sync EXCEPT ![d] = [NoSync EXCEPT !.pc = "pull"]]
    BY <1>10 DEF PushReply
  <2>. QED  BY <1>3, <1>4, <1>5, <1>10, <2>3, <2>4, <2>5 DEF PushReply
<1>11. CASE PushReplyLost(d)
  <2>1. handler' \in [Device -> [Attempt -> Handler]]
    BY <1>11, IdleTypes DEF PushReplyLost, Sync
  <2>2. sync' = [sync EXCEPT ![d] = NoSync]
    BY <1>11 DEF PushReplyLost
  <2>3. faults' \in 0 .. MaxFaults
    BY <1>6, <1>11 DEF PushReplyLost, Fault, MayFault
  <2>. QED  BY <1>3, <1>4, <1>5, <1>11, <2>1, <2>2, <2>3 DEF PushReplyLost
<1>12. CASE PushFailed(d)
  <2>1. CASE Resend(d, FreeHandler)
    BY <1>7, <1>12, <2>1, IdleTypes DEF PushFailed
  <2>2. CASE GiveUp(d, FreeHandler)
    <3>1. /\ handler' \in [Device -> [Attempt -> Handler]]
          /\ sync' = [sync EXCEPT ![d] = NoSync]
      BY <1>8, <2>2, IdleTypes
    <3>. QED  BY <1>3, <1>4, <1>5, <1>12, <3>1 DEF PushFailed
  <2>. QED  BY <1>12, <2>1, <2>2 DEF PushFailed
<1>13. CASE PushTimeout(d)
  <2>1. PICK left \in Handler : Resend(d, left) \/ GiveUp(d, left)
    <3>1. handler[d][sync[d].attempt] \in Handler
      BY DEF Sync
    <3>. QED  BY <1>13, <3>1, IdleTypes DEF PushTimeout
  <2>2. faults' \in 0 .. MaxFaults
    BY <1>6, <1>13 DEF PushTimeout, Fault, MayFault
  <2>3. CASE Resend(d, left)
    BY <1>7, <1>13, <2>2, <2>3 DEF PushTimeout
  <2>4. CASE GiveUp(d, left)
    <3>1. /\ handler' \in [Device -> [Attempt -> Handler]]
          /\ sync' = [sync EXCEPT ![d] = NoSync]
      BY <1>8, <2>4
    <3>. QED  BY <1>3, <1>4, <1>5, <1>13, <2>2, <3>1 DEF PushTimeout
  <2>. QED  BY <2>1, <2>3, <2>4
<1>. QED  BY <1>9, <1>10, <1>11, <1>12, <1>13

LEMMA HandlerTypes ==
  ASSUME TypeInv, NEW d \in Device, NEW k \in Attempt,
         HandlerStep(d, k) \/ HandlerFails(d, k)
  PROVE  TypeInv'
<1> USE DEF TypeInv, TypeOK, PageInLog, InPage, serverVars, storeVars
<1>1. handler[d][k] \in Handler
  OBVIOUS
<1>2. ASSUME NEW op \in Op
      PROVE  NextOp(handler[d][k], op) \in Handler
  BY <1>1, IdleTypes DEF NextOp, Handler
<1>3. CASE HandlerAppend(d, k)
  <2>1. PICK op \in handler[d][k].todo :
          \/ /\ handler' = [handler EXCEPT ![d][k].todo = @ \ {op}]
             /\ UNCHANGED serverLog
          \/ /\ handler' = [handler EXCEPT ![d][k].pc = "load"]
             /\ serverLog' = Append(serverLog, op)
    BY <1>3 DEF HandlerAppend
  <2>2. op \in Op
    BY <1>1 DEF Handler
  <2>3. handler' \in [Device -> [Attempt -> Handler]]
    <3>1. /\ [handler[d][k] EXCEPT !.todo = @ \ {op}] \in Handler
          /\ [handler[d][k] EXCEPT !.pc = "load"] \in Handler
      BY <1>1 DEF Handler
    <3>2. \/ handler' = [handler EXCEPT ![d][k] = [handler[d][k] EXCEPT !.todo = @ \ {op}]]
          \/ handler' = [handler EXCEPT ![d][k] = [handler[d][k] EXCEPT !.pc = "load"]]
      BY <2>1
    <3>3. handler \in [Device -> [Attempt -> Handler]]
      OBVIOUS
    <3>4. /\ [handler EXCEPT ![d][k] = [handler[d][k] EXCEPT !.todo = @ \ {op}]]
               \in [Device -> [Attempt -> Handler]]
          /\ [handler EXCEPT ![d][k] = [handler[d][k] EXCEPT !.pc = "load"]]
               \in [Device -> [Attempt -> Handler]]
      BY ONLY <3>1, <3>3, HandlerReplaced, d \in Device, k \in Attempt
    <3>. QED  BY ONLY <3>2, <3>4
  <2>4. /\ serverLog' \in Seq(Op)
        /\ Len(serverLog) \in Nat /\ Len(serverLog') \in Nat
        /\ Len(serverLog) <= Len(serverLog')
    <3>1. CASE serverLog' = serverLog
      BY <3>1
    <3>2. CASE serverLog' = Append(serverLog, op)
      <4>1. Len(serverLog') = Len(serverLog) + 1 /\ serverLog' \in Seq(Op)
        BY <2>2, <3>2
      <4>2. Len(serverLog) \in Nat
        OBVIOUS
      <4>. QED  BY <4>1, <4>2
    <3>. QED  BY <2>1, <3>1, <3>2
  <2>5. ASSUME NEW e \in Device
        PROVE  checkpoint[e] <= Len(serverLog') /\ sync[e].upto <= Len(serverLog')
    BY <2>4 DEF Sync
  <2>. QED  BY <1>3, <2>3, <2>4, <2>5 DEF HandlerAppend
<1>4. CASE HandlerLoad(d, k)
  <2>1. PICK op \in handler[d][k].todo :
          handler' = [handler EXCEPT ![d][k].pc = "save",
                                     ![d][k].snap = serverRec[op.record]]
    BY <1>4 DEF HandlerLoad
  <2>2. serverRec[op.record] \in Record
    BY <1>1 DEF Handler, Op
  <2>3. [handler[d][k] EXCEPT !.pc = "save", !.snap = serverRec[op.record]] \in Handler
    BY <1>1, <2>2 DEF Handler
  <2>4. handler' = [handler EXCEPT ![d][k] =
                      [handler[d][k] EXCEPT !.pc = "save", !.snap = serverRec[op.record]]]
    BY <2>1, <1>1
  <2>5. handler' \in [Device -> [Attempt -> Handler]]
    BY <2>3, <2>4
  <2>. QED  BY <1>4, <2>5 DEF HandlerLoad
<1>5. CASE HandlerSave(d, k)
  <2>1. PICK op \in handler[d][k].todo :
          /\ serverRec' = [serverRec EXCEPT ![op.record] =
                             Resolve(handler[d][k].snap, op).record]
          /\ handler' = [handler EXCEPT ![d][k] =
               IF Resolve(handler[d][k].snap, op).conflicted
                 THEN [handler[d][k] EXCEPT !.pc = "audit"]
                 ELSE NextOp(handler[d][k], op)]
    BY <1>5 DEF HandlerSave
  <2>2. op \in Op /\ handler[d][k].snap \in Record
    BY <1>1 DEF Handler
  <2>3. serverRec' \in [RecordId -> Record]
    BY <2>1, <2>2, ResolveType DEF Op
  <2>4. [handler[d][k] EXCEPT !.pc = "audit"] \in Handler
    BY <1>1 DEF Handler
  <2>5. handler' \in [Device -> [Attempt -> Handler]]
    BY <1>2, <2>1, <2>2, <2>4
  <2>. QED  BY <1>5, <2>3, <2>5 DEF HandlerSave
<1>6. CASE HandlerAudit(d, k)
  <2>1. PICK op \in handler[d][k].todo :
          /\ serverAudit' = serverAudit \cup {Row(op, Resolve(handler[d][k].snap, op))}
          /\ handler' = [handler EXCEPT ![d][k] = NextOp(handler[d][k], op)]
    BY <1>6 DEF HandlerAudit
  <2>2. op \in Op /\ handler[d][k].snap \in Record
    BY <1>1 DEF Handler
  <2>3. Row(op, Resolve(handler[d][k].snap, op)) \in AuditRow
    BY <2>2, ResolveType DEF Row, AuditRow, Op
  <2>4. handler' \in [Device -> [Attempt -> Handler]]
    BY <1>2, <2>1, <2>2
  <2>. QED  BY <1>6, <2>1, <2>3, <2>4 DEF HandlerAudit
<1>7. CASE HandlerEnds(d, k)
  <2>1. handler' \in [Device -> [Attempt -> Handler]]
    BY <1>7, IdleTypes DEF HandlerEnds
  <2>. QED  BY <1>7, <2>1 DEF HandlerEnds
<1>8. CASE HandlerFails(d, k)
  <2>1. [FreeHandler EXCEPT !.pc = "failed", !.batch = handler[d][k].batch] \in Handler
    BY <1>1, IdleTypes DEF Handler
  <2>2. handler' \in [Device -> [Attempt -> Handler]]
    BY <1>8, <2>1, IdleTypes DEF HandlerFails
  <2>3. faults' \in 0 .. MaxFaults
    BY <1>8, FaultsAssumption DEF HandlerFails, Fault, MayFault
  <2>. QED  BY <1>8, <2>2, <2>3 DEF HandlerFails
<1>. QED  BY <1>3, <1>4, <1>5, <1>6, <1>7, <1>8 DEF HandlerStep

\* The next op of a page, and the first one.
LEMMA AdvanceType ==
  ASSUME NEW s \in Sync
  PROVE  /\ Advance(s) \in Sync
         /\ Advance(s).upto = s.upto
         /\ Advance(s).at = s.at + 1
         /\ Advance(s).more = s.more
         /\ s.at < s.upto => Advance(s).pc = "append"
         /\ ~(s.at < s.upto) => Advance(s).pc = "checkpoint"
<1> DEFINE p == IF s.at < s.upto THEN "append" ELSE "checkpoint"
<1>1. p \in {"append", "checkpoint"} /\ s.at + 1 \in Nat
  BY DEF Sync
<1>2. Advance(s) = [s EXCEPT !.pc = p, !.at = s.at + 1, !.snap = NoRecord]
  BY DEF Advance
<1>. QED  BY <1>1, <1>2, IdleTypes DEF Sync

LEMMA PageType ==
  ASSUME serverLog \in Seq(Op), NEW c \in Nat
  PROVE  /\ Page(c) \in Sync
         /\ Page(c).at = c + 1
         /\ Page(c).upto = PageEnd(c)
         /\ PageEnd(c) \in Nat /\ PageEnd(c) <= Len(serverLog)
         /\ Len(serverLog) > c => Page(c).pc = "append" /\ c < PageEnd(c)
         /\ ~(Len(serverLog) > c) => Page(c).pc = "checkpoint" /\ PageEnd(c) <= c
<1>1. Len(serverLog) \in Nat
  OBVIOUS
<1>2. /\ PageEnd(c) \in Nat /\ PageEnd(c) <= Len(serverLog)
      /\ Len(serverLog) > c => c < PageEnd(c)
      /\ ~(Len(serverLog) > c) => PageEnd(c) <= c
  BY <1>1, PageAssumption DEF PageEnd
<1>3. HasMore(c) \in BOOLEAN /\ c + 1 \in Nat
  BY DEF HasMore
<1>4. CASE Len(serverLog) > c
  <2>1. Page(c) = [NoSync EXCEPT !.pc = "append", !.at = c + 1,
                                 !.upto = PageEnd(c), !.more = HasMore(c)]
    BY <1>4 DEF Page
  <2>. QED  BY <1>2, <1>3, <1>4, <2>1, IdleTypes DEF Sync
<1>5. CASE ~(Len(serverLog) > c)
  <2>1. Page(c) = [NoSync EXCEPT !.pc = "checkpoint", !.at = c + 1,
                                 !.upto = PageEnd(c), !.more = HasMore(c)]
    BY <1>5 DEF Page
  <2>. QED  BY <1>2, <1>3, <1>5, <2>1, IdleTypes DEF Sync
<1>. QED  BY <1>4, <1>5

LEMMA PullTypes ==
  ASSUME TypeInv, NEW d \in Device,
         \/ PullPage(d) \/ PullAppend(d) \/ PullLoad(d) \/ PullSave(d)
         \/ PullAudit(d) \/ PullCheckpoint(d) \/ PullFails(d)
  PROVE  TypeInv'
<1> USE DEF TypeInv, TypeOK, PageInLog, serverVars, storeVars
<1>1. Len(serverLog) \in Nat /\ sync[d] \in Sync /\ checkpoint[d] \in Nat
  OBVIOUS
<1>2. sync[d].upto \in Nat /\ sync[d].at \in Nat /\ sync[d].upto <= Len(serverLog)
  BY <1>1 DEF Sync
\* A Sync that is not in the middle of a page.
<1>3. ASSUME NEW s \in Sync, ~InPage(s), s.upto <= Len(serverLog)
      PROVE  LET f == [sync EXCEPT ![d] = s] IN
             /\ f \in [Device -> Sync]
             /\ \A e \in Device : /\ InPage(f[e]) => f[e].at \in 1 .. f[e].upto
                                  /\ f[e].upto <= Len(serverLog)
  BY <1>3
\* A Sync that is.
<1>4. ASSUME NEW s \in Sync, s.at \in 1 .. s.upto, s.upto <= Len(serverLog)
      PROVE  LET f == [sync EXCEPT ![d] = s] IN
             /\ f \in [Device -> Sync]
             /\ \A e \in Device : /\ InPage(f[e]) => f[e].at \in 1 .. f[e].upto
                                  /\ f[e].upto <= Len(serverLog)
  BY <1>4
<1>5. NoSync \in Sync /\ ~InPage(NoSync) /\ NoSync.upto <= Len(serverLog)
  BY <1>1, IdleTypes DEF NoSync, InPage
<1>6. ASSUME InPage(sync[d])
      PROVE  \/ /\ Advance(sync[d]) \in Sync /\ ~InPage(Advance(sync[d]))
                /\ Advance(sync[d]).upto <= Len(serverLog)
             \/ /\ Advance(sync[d]) \in Sync
                /\ Advance(sync[d]).at \in 1 .. Advance(sync[d]).upto
                /\ Advance(sync[d]).upto <= Len(serverLog)
  <2>1. sync[d].at \in 1 .. sync[d].upto
    BY <1>6
  <2>2. /\ Advance(sync[d]) \in Sync
        /\ Advance(sync[d]).upto = sync[d].upto
        /\ Advance(sync[d]).at = sync[d].at + 1
        /\ sync[d].at < sync[d].upto \/ Advance(sync[d]).pc = "checkpoint"
    BY <1>1, AdvanceType
  <2>. QED  BY <1>2, <2>1, <2>2 DEF InPage
\* The next op of the page.
<1>7. ASSUME InPage(sync[d]), sync' = [sync EXCEPT ![d] = Advance(sync[d])]
       PROVE  /\ sync' \in [Device -> Sync]
              /\ \A e \in Device : /\ InPage(sync'[e]) => sync'[e].at \in 1 .. sync'[e].upto
                                   /\ sync'[e].upto <= Len(serverLog)
  BY <1>3, <1>4, <1>6, <1>7
<1>8. CASE PullPage(d)
  <2> DEFINE c == checkpoint[d]
  <2>1. /\ Page(c) \in Sync
        /\ Page(c).at = c + 1
        /\ Page(c).upto = PageEnd(c)
        /\ PageEnd(c) \in Nat /\ PageEnd(c) <= Len(serverLog)
        /\ Len(serverLog) > c => c < PageEnd(c)
        /\ ~(Len(serverLog) > c) => Page(c).pc = "checkpoint"
    BY <1>1, PageType
  <2>2. sync' = [sync EXCEPT ![d] = Page(c)]
    BY <1>8 DEF PullPage
  <2>3. CASE Len(serverLog) > c
    BY <1>1, <1>4, <1>8, <2>1, <2>2, <2>3 DEF PullPage
  <2>4. CASE ~(Len(serverLog) > c)
    BY <1>3, <1>8, <2>1, <2>2, <2>4 DEF PullPage, InPage
  <2>. QED  BY <2>3, <2>4
<1>9. CASE PullAppend(d)
  <2>1. InPage(sync[d])
    BY <1>9 DEF PullAppend, InPage
  <2>2. serverLog[sync[d].at] \in Op
    BY <2>1, PageOp
  <2>3. log' \in [Device -> SUBSET Op]
    <3>1. \/ log' = log
          \/ log' = [log EXCEPT ![d] = log[d] \cup {serverLog[sync[d].at]}]
      BY <1>9 DEF PullAppend
    <3>2. log \in [Device -> SUBSET Op]
      OBVIOUS
    <3>3. log[d] \cup {serverLog[sync[d].at]} \in SUBSET Op
      BY <2>2, <3>2
    <3>. QED  BY ONLY <3>1, <3>2, <3>3, d \in Device
  <2>4. clock' \in [Device -> Timestamp]
    <3>1. PICK phys \in Time[d] : clock' =
            [clock EXCEPT ![d] = Observe(clock[d], phys, serverLog[sync[d].at].hlc, d)]
      BY <1>9 DEF PullAppend
    <3>2. Observe(clock[d], phys, serverLog[sync[d].at].hlc, d) \in Timestamp
      BY <2>2, ClockTypes, TimeAssumption, DeviceAssumption DEF Op
    <3>. QED  BY <3>1, <3>2
  <2>5. CASE sync' = [sync EXCEPT ![d] = Advance(sync[d])]
    BY <1>9, <1>7, <2>1, <2>3, <2>4, <2>5 DEF PullAppend
  <2>6. CASE sync' = [sync EXCEPT ![d].pc = "load"]
    <3>1. [sync[d] EXCEPT !.pc = "load"] \in Sync
      BY <1>1 DEF Sync
    <3> DEFINE s == [sync[d] EXCEPT !.pc = "load"]
    <3>2. s.at \in 1 .. s.upto /\ s.upto <= Len(serverLog)
      BY <1>1, <1>2, <2>1 DEF Sync
    <3>3. sync' = [sync EXCEPT ![d] = s]
      BY <2>6, <1>1
    <3>4. /\ sync' \in [Device -> Sync]
          /\ \A e \in Device : /\ InPage(sync'[e]) => sync'[e].at \in 1 .. sync'[e].upto
                               /\ sync'[e].upto <= Len(serverLog)
      BY <1>4, <3>1, <3>2, <3>3
    <3>. QED  BY <1>9, <2>3, <2>4, <3>4 DEF PullAppend
  <2>. QED  BY <1>9, <2>5, <2>6 DEF PullAppend
<1>10. CASE PullLoad(d)
  <2>1. InPage(sync[d])
    BY <1>10 DEF PullLoad, InPage
  <2> DEFINE x == rec[d][serverLog[sync[d].at].record]
             s == [sync[d] EXCEPT !.pc = "save", !.snap = x]
  <2>2. x \in Record
    BY <2>1, PageOp DEF Op
  <2>3. s \in Sync /\ s.at = sync[d].at /\ s.upto = sync[d].upto
    BY <1>1, <2>2 DEF Sync
  <2>4. sync' = [sync EXCEPT ![d] = s]
    BY <1>10 DEF PullLoad
  <2>5. s.at \in 1 .. s.upto /\ s.upto <= Len(serverLog)
    BY <1>2, <2>1, <2>3
  <2>. QED  BY <1>4, <1>10, <2>3, <2>4, <2>5 DEF PullLoad
<1>11. CASE PullSave(d)
  <2>1. InPage(sync[d])
    BY <1>11 DEF PullSave, InPage
  <2> DEFINE op == serverLog[sync[d].at]
  <2>2. op \in Op /\ sync[d].snap \in Record
    BY <1>1, <2>1, PageOp DEF Sync
  <2>3. rec' = [rec EXCEPT ![d][op.record] = Resolve(sync[d].snap, op).record]
    BY <1>11 DEF PullSave
  <2>4. rec' \in [Device -> [RecordId -> Record]]
    BY <2>2, <2>3, ResolveType DEF Op
  <2>5. CASE sync' = [sync EXCEPT ![d] = Advance(sync[d])]
    BY <1>11, <1>7, <2>1, <2>4, <2>5 DEF PullSave
  <2>6. CASE sync' = [sync EXCEPT ![d] = [sync[d] EXCEPT !.pc = "audit"]]
    <3>1. [sync[d] EXCEPT !.pc = "audit"] \in Sync
      BY <1>1 DEF Sync
    <3> DEFINE s == [sync[d] EXCEPT !.pc = "audit"]
    <3>2. s.at \in 1 .. s.upto /\ s.upto <= Len(serverLog)
      BY <1>1, <1>2, <2>1 DEF Sync
    <3>3. /\ sync' \in [Device -> Sync]
          /\ \A e \in Device : /\ InPage(sync'[e]) => sync'[e].at \in 1 .. sync'[e].upto
                               /\ sync'[e].upto <= Len(serverLog)
      BY <1>4, <2>6, <3>1, <3>2
    <3>. QED  BY <1>11, <2>4, <3>3 DEF PullSave
  <2>. QED  BY <1>11, <2>5, <2>6 DEF PullSave
<1>12. CASE PullAudit(d)
  <2>1. InPage(sync[d])
    BY <1>12 DEF PullAudit, InPage
  <2> DEFINE op == serverLog[sync[d].at]
  <2>2. op \in Op /\ sync[d].snap \in Record
    BY <1>1, <2>1, PageOp DEF Sync
  <2>3. Row(op, Resolve(sync[d].snap, op)) \in AuditRow
    BY <2>2, ResolveType DEF Row, AuditRow, Op
  <2>4. audit' \in [Device -> SUBSET AuditRow]
    BY <1>12, <2>3 DEF PullAudit
  <2>5. sync' = [sync EXCEPT ![d] = Advance(sync[d])]
    BY <1>12 DEF PullAudit
  <2>. QED  BY <1>12, <1>7, <2>1, <2>4, <2>5 DEF PullAudit
<1>13. CASE PullCheckpoint(d)
  <2>1. checkpoint' = [checkpoint EXCEPT ![d] = sync[d].upto]
    BY <1>13 DEF PullCheckpoint, NextCheckpoint
  <2>2. /\ checkpoint' \in [Device -> Nat]
        /\ \A e \in Device : checkpoint'[e] <= Len(serverLog)
    BY <1>2, <2>1
  <2>3. PICK s \in {NoSync, [NoSync EXCEPT !.pc = "pull"]} : sync' = [sync EXCEPT ![d] = s]
    BY <1>13 DEF PullCheckpoint
  <2>4. s \in Sync /\ ~InPage(s) /\ s.upto <= Len(serverLog)
    BY <1>5 DEF Sync, InPage, NoSync
  <2>5. /\ sync' \in [Device -> Sync]
        /\ \A e \in Device : /\ InPage(sync'[e]) => sync'[e].at \in 1 .. sync'[e].upto
                             /\ sync'[e].upto <= Len(serverLog)
    BY <1>3, <2>3, <2>4
  <2>6. UNCHANGED <<serverVars, handler, log, rec, audit, pushed, written, clock,
                    write, faults>>
    BY <1>13 DEF PullCheckpoint
  <2>. QED  BY <2>2, <2>5, <2>6
<1>14. CASE PullFails(d)
  <2>1. sync' = [sync EXCEPT ![d] = NoSync]
    BY <1>14 DEF PullFails
  <2>2. faults' \in 0 .. MaxFaults
    BY <1>14, FaultsAssumption DEF PullFails, Fault, MayFault
  <2>3. clock' \in [Device -> Timestamp]
    <3>1. CASE clock' = clock
      BY <3>1
    <3>2. ASSUME sync[d].pc = "append", NEW phys \in Time[d],
                 clock' = [clock EXCEPT ![d] =
                   Observe(clock[d], phys, serverLog[sync[d].at].hlc, d)]
          PROVE  clock' \in [Device -> Timestamp]
      <4>1. serverLog[sync[d].at].hlc \in Timestamp
        <5>1. InPage(sync[d]) /\ TypeInv
          BY <3>2 DEF InPage
        <5>2. serverLog[sync[d].at] \in Op
          BY ONLY <5>1, PageOp, d \in Device
        <5>. QED  BY ONLY <5>2 DEF Op
      <4>2. clock[d] \in Timestamp /\ phys \in Nat /\ d \in Nat
        BY TimeAssumption, DeviceAssumption
      <4>3. Observe(clock[d], phys, serverLog[sync[d].at].hlc, d) \in Timestamp
        BY ONLY <4>1, <4>2, ClockTypes
      <4>. QED  BY <3>2, <4>3
    <3>. QED  BY <1>14, <3>1, <3>2 DEF PullFails
  <2>4. /\ sync' \in [Device -> Sync]
        /\ \A e \in Device : /\ InPage(sync'[e]) => sync'[e].at \in 1 .. sync'[e].upto
                             /\ sync'[e].upto <= Len(serverLog)
    BY <1>3, <1>5, <2>1
  <2>5. UNCHANGED <<serverVars, handler, log, rec, audit, pushed, checkpoint, written,
                    write>>
    BY <1>14 DEF PullFails
  <2>. QED  BY <2>2, <2>3, <2>4, <2>5
<1>. QED  BY <1>8, <1>9, <1>10, <1>11, <1>12, <1>13, <1>14

LEMMA StopTypes ==
  ASSUME TypeInv, NEW d \in Device, Stop(d)
  PROVE  TypeInv'
<1> USE DEF TypeInv, TypeOK, PageInLog, serverVars, storeVars
<1>1. handler' \in [Device -> [Attempt -> Handler]]
  <2> DEFINE hs == [k \in Attempt |-> IF handler[d][k].pc = "failed" THEN FreeHandler
                                                                     ELSE handler[d][k]]
  <2>1. hs \in [Attempt -> Handler]
    BY IdleTypes
  <2>2. handler' = [handler EXCEPT ![d] = hs]
    BY DEF Stop
  <2>. QED  BY <2>1, <2>2
<1>2. faults' \in 0 .. MaxFaults
  BY FaultsAssumption DEF Stop, Fault, MayFault
<1>3. sync' = [sync EXCEPT ![d] = NoSync] /\ ~InPage(NoSync) /\ NoSync.upto = 0
  BY DEF Stop, InPage, NoSync
<1>4. Len(serverLog) \in Nat
  OBVIOUS
<1>. QED  BY <1>1, <1>2, <1>3, <1>4, IdleTypes DEF Stop

LEMMA TypeStep == TypeInv /\ [Next]_vars => TypeInv'
<1>. SUFFICES ASSUME TypeInv, [Next]_vars PROVE TypeInv'
  OBVIOUS
<1>1. CASE Next
  BY <1>1, WriteTypes, PushTypes, HandlerTypes, PullTypes, StopTypes
     DEF Next, SyncStep, FaultStep
<1>2. CASE UNCHANGED vars
  BY <1>2 DEF vars, serverVars, storeVars, TypeInv, TypeOK, PageInLog, InPage
<1>. QED  BY <1>1, <1>2

\* Every variable keeps its shape, and no checkpoint passes the end of the
\* server's log, in every behaviour of clients, server and faults.
THEOREM TypeCorrect == Spec => []TypeOK
<1>1. TypeInv => TypeOK
  BY DEF TypeInv
<1>. QED  BY <1>1, TypeInit, TypeStep, PTL DEF Spec

=============================================================================
