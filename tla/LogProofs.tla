------------------------------ MODULE LogProofs ------------------------------
(***************************************************************************)
(* What the logs promise, proved for any devices, any bounds and any of    *)
(* the faults: an acknowledged op is stored, none is stored twice, and a   *)
(* device's checkpoint covers only ops that it holds.                      *)
(***************************************************************************)
EXTENDS SyncForgeProofs

-----------------------------------------------------------------------------
(***************************************************************************)
(* What one step may do to a handler and to a log.                         *)
(***************************************************************************)

\* The handler h of device e before a step, and g after it.
HandlerStays(h, g) == g.batch = h.batch /\ g.todo = h.todo /\ g.pc = h.pc
HandlerTurnsFree(g) == g = FreeHandler
HandlerStarts(e, g) ==
  \/ g = Started(Outbox(e))
  \/ \E i \in Attempt : g = Started(handler[e][i].batch)
HandlerReportsFailure(h, g) == g.pc = "failed" /\ g.batch = h.batch /\ g.todo = {}
HandlerSkips(h, g) ==
  \E op \in h.todo : /\ Stored(op) /\ h.pc = "append" /\ g.pc = "append"
                     /\ g.batch = h.batch /\ g.todo = h.todo \ {op}
HandlerStores(h, g) ==
  \E op \in h.todo : /\ IsNext(op, h.todo) /\ h.pc = "append" /\ g.pc = "load"
                     /\ g.batch = h.batch /\ g.todo = h.todo
                     /\ serverLog' = Append(serverLog, op)
HandlerGoesOn(h, g) == InHand(h) /\ InHand(g) /\ g.batch = h.batch /\ g.todo = h.todo
HandlerFinishesOp(h, g) ==
  \E op \in h.todo : /\ IsNext(op, h.todo) /\ InHand(h) /\ g.pc = "append"
                     /\ g.batch = h.batch /\ g.todo = h.todo \ {op}

HandlerChange(e, h, g) ==
  \/ HandlerStays(h, g) \/ HandlerTurnsFree(g) \/ HandlerStarts(e, g)
  \/ HandlerReportsFailure(h, g) \/ HandlerSkips(h, g) \/ HandlerStores(h, g)
  \/ HandlerGoesOn(h, g) \/ HandlerFinishesOp(h, g)

\* Every step leaves each handler in one of these relations to what it was.
LEMMA HandlerChanges ==
  ASSUME TypeInv, [Next]_vars, NEW e \in Device, NEW j \in Attempt
  PROVE  HandlerChange(e, handler[e][j], handler'[e][j])
<1> DEFINE h == handler[e][j]
           g == handler'[e][j]
<1>1. handler \in [Device -> [Attempt -> Handler]] /\ h \in Handler
  BY DEF TypeInv, TypeOK
<1>2. \A d \in Device : sync[d].attempt \in Attempt
  BY DEF TypeInv, TypeOK, Sync
<1>3. CASE handler' = handler
  BY <1>3 DEF HandlerChange, HandlerStays
<1>4. ASSUME NEW d \in Device, SyncBegin(d)
      PROVE  HandlerChange(e, h, g)
  BY <1>1, <1>3, <1>4 DEF SyncBegin, HandlerChange, HandlerStays, HandlerStarts
<1>5. ASSUME NEW d \in Device, PushReply(d) \/ PushReplyLost(d)
      PROVE  HandlerChange(e, h, g)
  BY <1>1, <1>2, <1>5
     DEF PushReply, PushReplyLost, HandlerChange, HandlerStays, HandlerTurnsFree
<1>6. ASSUME NEW d \in Device, NEW left,
             left = FreeHandler \/ left = handler[d][sync[d].attempt],
             Resend(d, left) \/ GiveUp(d, left)
      PROVE  HandlerChange(e, h, g)
  BY <1>1, <1>2, <1>6
     DEF Resend, GiveUp, HandlerChange, HandlerStays, HandlerTurnsFree, HandlerStarts
<1>7. ASSUME NEW d \in Device, PushFailed(d) \/ PushTimeout(d)
      PROVE  HandlerChange(e, h, g)
  BY <1>6, <1>7 DEF PushFailed, PushTimeout
<1>8. ASSUME NEW d \in Device, Stop(d)
      PROVE  HandlerChange(e, h, g)
  BY <1>1, <1>8 DEF Stop, HandlerChange, HandlerStays, HandlerTurnsFree
<1>9. ASSUME NEW d \in Device, NEW k \in Attempt, HandlerAppend(d, k)
      PROVE  HandlerChange(e, h, g)
  <2>1. PICK op \in handler[d][k].todo :
          /\ IsNext(op, handler[d][k].todo)
          /\ \/ Stored(op) /\ handler' = [handler EXCEPT ![d][k].todo = @ \ {op}]
             \/ /\ handler' = [handler EXCEPT ![d][k].pc = "load"]
                /\ serverLog' = Append(serverLog, op)
    BY <1>9 DEF HandlerAppend
  <2>2. handler[d][k].pc = "append" /\ handler[d][k] \in Handler
    BY <1>1, <1>9 DEF HandlerAppend
  <2>3. CASE e = d /\ j = k
    <3>1. CASE Stored(op) /\ handler' = [handler EXCEPT ![d][k].todo = @ \ {op}]
      <4>1. g.pc = "append" /\ g.batch = h.batch /\ g.todo = h.todo \ {op}
        BY <1>1, <2>2, <2>3, <3>1 DEF Handler
      <4>. QED  BY <2>1, <2>2, <2>3, <3>1, <4>1 DEF HandlerChange, HandlerSkips
    <3>2. CASE /\ handler' = [handler EXCEPT ![d][k].pc = "load"]
               /\ serverLog' = Append(serverLog, op)
      <4>1. g.pc = "load" /\ g.batch = h.batch /\ g.todo = h.todo
        BY <1>1, <2>2, <2>3, <3>2 DEF Handler
      <4>. QED  BY <2>1, <2>2, <2>3, <3>2, <4>1 DEF HandlerChange, HandlerStores
    <3>. QED  BY <2>1, <3>1, <3>2
  <2>4. CASE ~(e = d /\ j = k)
    BY <1>1, <2>1, <2>4 DEF HandlerChange, HandlerStays
  <2>. QED  BY <2>3, <2>4
<1>10. ASSUME NEW d \in Device, NEW k \in Attempt, HandlerLoad(d, k)
       PROVE  HandlerChange(e, h, g)
  BY <1>1, <1>10 DEF HandlerLoad, HandlerChange, HandlerStays, HandlerGoesOn, InHand, Handler
<1>11. ASSUME NEW d \in Device, NEW k \in Attempt, HandlerSave(d, k)
       PROVE  HandlerChange(e, h, g)
  <2>1. PICK op \in handler[d][k].todo, conflicted \in BOOLEAN :
          /\ IsNext(op, handler[d][k].todo)
          /\ handler' = [handler EXCEPT ![d][k] =
               IF conflicted THEN [handler[d][k] EXCEPT !.pc = "audit"]
                             ELSE NextOp(handler[d][k], op)]
    <3>1. PICK op \in handler[d][k].todo :
            /\ IsNext(op, handler[d][k].todo)
            /\ handler' = [handler EXCEPT ![d][k] =
                 IF Resolve(handler[d][k].snap, op).conflicted
                   THEN [handler[d][k] EXCEPT !.pc = "audit"]
                   ELSE NextOp(handler[d][k], op)]
      BY <1>11 DEF HandlerSave
    <3>2. CASE Resolve(handler[d][k].snap, op).conflicted
      BY <3>1, <3>2
    <3>3. CASE ~Resolve(handler[d][k].snap, op).conflicted
      BY <3>1, <3>3
    <3>. QED  BY <3>2, <3>3
  <2>2. handler[d][k].pc = "save" /\ handler[d][k] \in Handler
    BY <1>1, <1>11 DEF HandlerSave
  <2>3. CASE e = d /\ j = k /\ conflicted
    <3>1. g.pc = "audit" /\ g.batch = h.batch /\ g.todo = h.todo
      BY <1>1, <2>1, <2>2, <2>3 DEF Handler
    <3>. QED  BY <2>2, <2>3, <3>1 DEF HandlerChange, HandlerGoesOn, InHand
  <2>4. CASE e = d /\ j = k /\ ~conflicted
    <3>1. g.pc = "append" /\ g.batch = h.batch /\ g.todo = h.todo \ {op}
      BY <1>1, <2>1, <2>2, <2>4 DEF Handler, NextOp
    <3>. QED  BY <2>1, <2>2, <2>4, <3>1 DEF HandlerChange, HandlerFinishesOp, InHand
  <2>5. CASE ~(e = d /\ j = k)
    BY <1>1, <2>1, <2>5 DEF HandlerChange, HandlerStays
  <2>. QED  BY <2>3, <2>4, <2>5
<1>12. ASSUME NEW d \in Device, NEW k \in Attempt, HandlerAudit(d, k)
       PROVE  HandlerChange(e, h, g)
  BY <1>1, <1>12
     DEF HandlerAudit, NextOp, HandlerChange, HandlerStays, HandlerFinishesOp, InHand,
         Handler
<1>13. ASSUME NEW d \in Device, NEW k \in Attempt, HandlerEnds(d, k) \/ HandlerFails(d, k)
       PROVE  HandlerChange(e, h, g)
  <2> DEFINE failed == [FreeHandler EXCEPT !.pc = "failed", !.batch = handler[d][k].batch]
  <2>1. failed.pc = "failed" /\ failed.batch = handler[d][k].batch /\ failed.todo = {}
    BY DEF FreeHandler
  <2>2. PICK x \in {FreeHandler, failed} : handler' = [handler EXCEPT ![d][k] = x]
    BY <1>13 DEF HandlerEnds, HandlerFails
  <2>3. CASE e = d /\ j = k
    <3>1. g = x
      BY <1>1, <2>2, <2>3
    <3>. QED  BY <2>1, <2>3, <3>1 DEF HandlerChange, HandlerTurnsFree, HandlerReportsFailure
  <2>4. CASE ~(e = d /\ j = k)
    BY <1>1, <2>2, <2>4 DEF HandlerChange, HandlerStays
  <2>. QED  BY <2>3, <2>4
<1>14. ASSUME NEW d \in Device,
              \/ WriteBegin(d) \/ WriteStep(d) \/ WriteFails(d)
              \/ PullPage(d) \/ PullAppend(d) \/ PullLoad(d) \/ PullSave(d)
              \/ PullAudit(d) \/ PullCheckpoint(d) \/ PullFails(d)
       PROVE  HandlerChange(e, h, g)
  <2>1. handler' = handler
    BY <1>14 DEF WriteBegin, WriteStep, WriteAppend, WriteSave, WriteFails, PullPage,
                 PullAppend, PullLoad, PullSave, PullAudit, PullCheckpoint, PullFails
  <2>. QED  BY <1>3, <2>1
<1>15. CASE Next
  BY <1>4, <1>5, <1>7, <1>8, <1>9, <1>10, <1>11, <1>12, <1>13, <1>14, <1>15
     DEF Next, SyncStep, FaultStep, HandlerStep
<1>16. CASE UNCHANGED vars
  BY <1>3, <1>16 DEF vars
<1>. QED  BY <1>15, <1>16

\* Every step keeps what the server and the devices have logged.
LogsGrow ==
  /\ \A i \in DOMAIN serverLog : i \in DOMAIN serverLog' /\ serverLog'[i] = serverLog[i]
  /\ \A d \in Device : log[d] \subseteq log'[d]

LEMMA StepGrows ==
  ASSUME TypeInv, [Next]_vars
  PROVE  LogsGrow
<1>1. serverLog \in Seq(Op) /\ log \in [Device -> SUBSET Op]
  BY DEF TypeInv, TypeOK
<1>2. CASE serverLog' = serverLog /\ log' = log
  BY <1>2 DEF LogsGrow
<1>3. ASSUME NEW d \in Device, NEW k \in Attempt, HandlerAppend(d, k)
      PROVE  LogsGrow
  <2>1. log' = log
    BY <1>3 DEF HandlerAppend, storeVars
  <2>2. CASE serverLog' = serverLog
    BY <1>2, <2>1, <2>2
  <2>3. ASSUME NEW op \in Op, serverLog' = Append(serverLog, op)
        PROVE  LogsGrow
    BY <1>1, <2>1, <2>3 DEF LogsGrow
  <2>4. handler[d][k].todo \subseteq Op
    BY DEF TypeInv, TypeOK, Handler
  <2>. QED  BY <1>3, <2>2, <2>3, <2>4 DEF HandlerAppend
<1>4. ASSUME NEW d \in Device, WriteAppend(d) \/ PullAppend(d)
      PROVE  LogsGrow
  <2>1. serverLog' = serverLog
    BY <1>4 DEF WriteAppend, PullAppend, serverVars
  <2>2. \A e \in Device : log[e] \subseteq log'[e]
    BY <1>1, <1>4 DEF WriteAppend, PullAppend
  <2>. QED  BY <2>1, <2>2 DEF LogsGrow
<1>5. ASSUME NEW d \in Device,
             \/ WriteBegin(d) \/ WriteSave(d) \/ WriteFails(d)
             \/ SyncBegin(d) \/ PushReply(d) \/ PushReplyLost(d) \/ PushFailed(d)
             \/ PushTimeout(d) \/ PullPage(d) \/ PullLoad(d) \/ PullSave(d)
             \/ PullAudit(d) \/ PullCheckpoint(d) \/ PullFails(d) \/ Stop(d)
      PROVE  LogsGrow
  <2>1. serverLog' = serverLog /\ log' = log
    BY <1>5 DEF WriteBegin, WriteSave, WriteFails, SyncBegin, PushReply, PushReplyLost,
         PushFailed, PushTimeout, PullPage, PullLoad, PullSave, PullAudit,
         PullCheckpoint, PullFails, Stop, serverVars, storeVars
  <2>. QED  BY <1>2, <2>1
<1>6. ASSUME NEW d \in Device, NEW k \in Attempt,
             \/ HandlerLoad(d, k) \/ HandlerSave(d, k) \/ HandlerAudit(d, k)
             \/ HandlerEnds(d, k) \/ HandlerFails(d, k)
      PROVE  LogsGrow
  <2>1. serverLog' = serverLog /\ log' = log
    BY <1>6 DEF HandlerLoad, HandlerSave, HandlerAudit, HandlerEnds, HandlerFails,
         serverVars, storeVars
  <2>. QED  BY <1>2, <2>1
<1>7. CASE Next
  BY <1>3, <1>4, <1>5, <1>6, <1>7
     DEF Next, WriteStep, SyncStep, FaultStep, HandlerStep
<1>8. CASE UNCHANGED vars
  BY <1>2, <1>8 DEF vars, serverVars, storeVars
<1>. QED  BY <1>7, <1>8

\* An op that is stored stays stored.
LEMMA StoredStays ==
  ASSUME LogsGrow, NEW op, Stored(op)
  PROVE  Stored(op)'
BY DEF LogsGrow, Stored

\* The steps that change a log or what a device has noted about the server's.
LEMMA NotableSteps ==
  ASSUME [Next]_vars
  PROVE  \/ UNCHANGED <<serverLog, log, pushed, checkpoint, written>>
         \/ \E d \in Device : \/ WriteAppend(d) \/ PushReply(d) \/ PullAppend(d)
                              \/ PullCheckpoint(d)
                              \/ \E k \in Attempt : HandlerAppend(d, k)
<1>1. ASSUME NEW d \in Device,
             \/ WriteBegin(d) \/ WriteSave(d) \/ SyncBegin(d) \/ PushFailed(d)
             \/ PullPage(d) \/ PullLoad(d) \/ PullSave(d) \/ PullAudit(d)
      PROVE  UNCHANGED <<serverLog, log, pushed, checkpoint, written>>
  BY <1>1 DEF WriteBegin, WriteSave, SyncBegin, PushFailed, PullPage, PullLoad,
       PullSave, PullAudit, serverVars, storeVars
<1>2. ASSUME NEW d \in Device, FaultStep(d)
      PROVE  UNCHANGED <<serverLog, log, pushed, checkpoint, written>>
  BY <1>2 DEF FaultStep, WriteFails, PushReplyLost, PushTimeout, PullFails, Stop,
       HandlerFails, serverVars, storeVars
<1>3. ASSUME NEW d \in Device, NEW k \in Attempt,
             HandlerLoad(d, k) \/ HandlerSave(d, k) \/ HandlerAudit(d, k) \/ HandlerEnds(d, k)
      PROVE  UNCHANGED <<serverLog, log, pushed, checkpoint, written>>
  BY <1>3 DEF HandlerLoad, HandlerSave, HandlerAudit, HandlerEnds, serverVars, storeVars
<1>4. CASE Next
  BY <1>1, <1>2, <1>3, <1>4 DEF Next, WriteStep, SyncStep, HandlerStep
<1>5. CASE UNCHANGED vars
  BY <1>5 DEF vars, serverVars, storeVars
<1>. QED  BY <1>4, <1>5

\* Only AppendOp adds to a device's log: in a local write or in a pull.
LEMMA LogSources ==
  ASSUME [Next]_vars
  PROVE  \/ log' = log /\ written' = written
         \/ \E d \in Device : WriteAppend(d) \/ PullAppend(d)
BY NotableSteps DEF PushReply, PullCheckpoint, HandlerAppend, storeVars

\* Only a handler that takes up its next op, not stored before, adds to the
\* server's log.
LEMMA ServerLogSources ==
  ASSUME [Next]_vars
  PROVE  \/ serverLog' = serverLog
         \/ \E d \in Device, k \in Attempt : \E op \in handler[d][k].todo :
              /\ IsNext(op, handler[d][k].todo) /\ handler[d][k].pc = "append"
              /\ ~Stored(op) /\ serverLog' = Append(serverLog, op)
<1>1. ASSUME NEW d \in Device,
             WriteAppend(d) \/ PushReply(d) \/ PullAppend(d) \/ PullCheckpoint(d)
      PROVE  serverLog' = serverLog
  BY <1>1 DEF WriteAppend, PushReply, PullAppend, PullCheckpoint, serverVars
<1>2. ASSUME NEW d \in Device, NEW k \in Attempt, HandlerAppend(d, k)
      PROVE  \/ serverLog' = serverLog
             \/ \E op \in handler[d][k].todo :
                  /\ IsNext(op, handler[d][k].todo) /\ handler[d][k].pc = "append"
                  /\ ~Stored(op) /\ serverLog' = Append(serverLog, op)
  BY <1>2 DEF HandlerAppend
<1>. QED  BY <1>1, <1>2, NotableSteps

-----------------------------------------------------------------------------
(***************************************************************************)
(* Op ids identify ops: every copy of an op, in any log or request, is the *)
(* one its device wrote, under a number of its own.                        *)
(***************************************************************************)

OpsIdentified ==
  /\ \A d \in Device : \A op \in log[d] :
       /\ op.id[1] = op.device
       /\ op.id[2] \in 1 .. written[op.device]
       /\ op \in log[op.device]
  /\ \A d \in Device : \A a, b \in log[d] : a.id = b.id => a = b
  /\ \A i \in DOMAIN serverLog : serverLog[i] \in log[serverLog[i].device]
  /\ \A d \in Device, k \in Attempt :
       /\ handler[d][k].todo \subseteq handler[d][k].batch
       /\ \A op \in handler[d][k].batch : op.device = d /\ op \in log[d]

LEMMA IdentifiedInit == Init => OpsIdentified
BY DEF Init, OpsIdentified, FreeHandler

\* The devices' logs.
LEMMA IdentifiedLogs ==
  ASSUME TypeInv, OpsIdentified, [Next]_vars
  PROVE  /\ \A d \in Device : \A op \in log'[d] :
              /\ op.id[1] = op.device
              /\ op.id[2] \in 1 .. written'[op.device]
              /\ op \in log'[op.device]
         /\ \A d \in Device : \A a, b \in log'[d] : a.id = b.id => a = b
<1>1. /\ log \in [Device -> SUBSET Op] /\ written \in [Device -> Nat]
      /\ serverLog \in Seq(Op)
  BY DEF TypeInv, TypeOK
<1>2. \A op \in Op : op.device \in Device
  BY DEF Op
<1>3. CASE log' = log /\ written' = written
  BY <1>3 DEF OpsIdentified
<1>4. ASSUME NEW d \in Device, WriteAppend(d)
      PROVE  /\ \A e \in Device : \A op \in log'[e] :
                  /\ op.id[1] = op.device
                  /\ op.id[2] \in 1 .. written'[op.device]
                  /\ op \in log'[op.device]
             /\ \A e \in Device : \A a, b \in log'[e] : a.id = b.id => a = b
  <2>0. PICK phys \in Time[d] :
          log' = [log EXCEPT ![d] = @ \cup {NewOp(d, Now(clock[d], phys, d))}]
    BY <1>4 DEF WriteAppend
  <2> DEFINE new == NewOp(d, Now(clock[d], phys, d))
  <2>1. /\ log' = [log EXCEPT ![d] = @ \cup {new}]
        /\ new.id = <<d, written[d] + 1>> /\ new.device = d
    BY <2>0 DEF NewOp
  <2> HIDE DEF new
  <2>2. written' = [written EXCEPT ![d] = @ + 1]
    BY <1>4 DEF WriteAppend
  <2>3. \A op \in log[d] : op.id # new.id
    <3>1. SUFFICES ASSUME NEW op \in log[d], op.id = new.id PROVE FALSE
      OBVIOUS
    <3>2. op.device = d /\ op.id[2] = written[d] + 1
      BY <2>1, <3>1 DEF OpsIdentified
    <3>3. op.id[2] \in 1 .. written[d]
      BY <3>2 DEF OpsIdentified
    <3>. QED  BY <1>1, <3>2, <3>3
  <2>4. ASSUME NEW e \in Device, NEW op \in log'[e]
        PROVE  /\ op.id[1] = op.device
               /\ op.id[2] \in 1 .. written'[op.device]
               /\ op \in log'[op.device]
    <3>1. CASE op \in log[e]
      <4>1. /\ op.device \in Device /\ op.id[1] = op.device
            /\ op.id[2] \in 1 .. written[op.device] /\ op \in log[op.device]
        BY <1>1, <1>2, <3>1 DEF OpsIdentified
      <4>2. written[op.device] <= written'[op.device] /\ written'[op.device] \in Nat
        BY <1>1, <2>2, <4>1
      <4>3. op \in log'[op.device]
        BY <1>1, <2>1, <4>1
      <4>4. written[op.device] \in Nat
        BY <1>1, <4>1
      <4>. QED  BY <4>1, <4>2, <4>3, <4>4
    <3>2. CASE op = new /\ e = d
      <4>1. op.id[1] = d /\ op.id[2] = written[d] + 1 /\ op.device = d
        BY <2>1, <3>2
      <4>2. written'[d] = written[d] + 1 /\ written[d] \in Nat
        BY <1>1, <2>2
      <4>. QED  BY <2>1, <3>2, <4>1, <4>2
    <3>. QED  BY <1>1, <2>1, <3>1, <3>2
  <2>5. ASSUME NEW e \in Device, NEW a \in log'[e], NEW b \in log'[e], a.id = b.id
        PROVE  a = b
    BY <1>1, <2>1, <2>3, <2>5 DEF OpsIdentified
  <2>. QED  BY <2>4, <2>5
<1>5. ASSUME NEW d \in Device, PullAppend(d)
      PROVE  /\ \A e \in Device : \A op \in log'[e] :
                  /\ op.id[1] = op.device
                  /\ op.id[2] \in 1 .. written'[op.device]
                  /\ op \in log'[op.device]
             /\ \A e \in Device : \A a, b \in log'[e] : a.id = b.id => a = b
  <2> DEFINE new == serverLog[sync[d].at]
  <2>1. new \in Op /\ sync[d].at \in DOMAIN serverLog
    BY <1>5, PageOp DEF PullAppend, InPage
  <2>2. new.device \in Device /\ new \in log[new.device]
    BY <1>2, <2>1 DEF OpsIdentified
  <2>3. written' = written
    BY <1>5 DEF PullAppend
  <2>4. CASE log' = log
    BY <2>3, <2>4 DEF OpsIdentified
  <2>5. CASE new.id \notin Ids(log[d]) /\ log' = [log EXCEPT ![d] = @ \cup {new}]
    <3>1. \A op \in log[d] : op.id # new.id
      BY <2>5 DEF Ids
    <3>2. \A e \in Device : \A op \in log'[e] : op \in log[e] \/ (e = d /\ op = new)
      BY <1>1, <2>5
    <3>3. \A e \in Device : log[e] \subseteq log'[e]
      BY <1>1, <2>5
    <3>4. ASSUME NEW e \in Device, NEW op \in log'[e]
          PROVE  /\ op.id[1] = op.device
                 /\ op.id[2] \in 1 .. written'[op.device]
                 /\ op \in log'[op.device]
      <4>1. PICK f \in Device : op \in log[f]
        BY <2>2, <3>2
      <4>2. op.device \in Device
        BY <1>1, <1>2, <4>1
      <4>. QED  BY <2>3, <3>3, <4>1, <4>2 DEF OpsIdentified
    <3>5. ASSUME NEW e \in Device, NEW a \in log'[e], NEW b \in log'[e], a.id = b.id
          PROVE  a = b
      BY <3>1, <3>2, <3>5 DEF OpsIdentified
    <3>. QED  BY <3>4, <3>5
  <2>. QED  BY <1>5, <2>4, <2>5 DEF PullAppend
<1>. QED  BY <1>3, <1>4, <1>5, LogSources

\* The server's log and the requests.
LEMMA IdentifiedStep ==
  ASSUME TypeInv, OpsIdentified, [Next]_vars
  PROVE  OpsIdentified'
<1>1. /\ log \in [Device -> SUBSET Op] /\ serverLog \in Seq(Op)
      /\ handler \in [Device -> [Attempt -> Handler]]
  BY DEF TypeInv, TypeOK
<1>2. LogsGrow
  BY StepGrows
<1>3. ASSUME NEW i \in DOMAIN serverLog'
      PROVE  serverLog'[i] \in log'[serverLog'[i].device]
  <2>1. CASE i \in DOMAIN serverLog
    <3>0. serverLog[i] \in Op
      BY <1>1, <2>1
    <3>1. serverLog'[i] = serverLog[i] /\ serverLog[i].device \in Device
      BY <1>2, <2>1, <3>0 DEF LogsGrow, Op
    <3>. QED  BY <1>2, <2>1, <3>1 DEF LogsGrow, OpsIdentified
  <2>2. CASE i \notin DOMAIN serverLog
    <3>1. PICK d \in Device, k \in Attempt : \E op \in handler[d][k].todo :
            serverLog' = Append(serverLog, op)
      BY <2>2, ServerLogSources
    <3>2. PICK op \in handler[d][k].todo : serverLog' = Append(serverLog, op)
      BY <3>1
    <3>3. op \in log[d] /\ op.device = d /\ op \in Op
      BY <1>1 DEF OpsIdentified
    <3>4. serverLog'[i] = op
      BY <1>1, <2>2, <3>2, <3>3
    <3>. QED  BY <1>2, <3>3, <3>4 DEF LogsGrow
  <2>. QED  BY <2>1, <2>2
<1>4. ASSUME NEW d \in Device, NEW k \in Attempt
      PROVE  /\ handler'[d][k].todo \subseteq handler'[d][k].batch
             /\ \A op \in handler'[d][k].batch : op.device = d /\ op \in log'[d]
  <2> DEFINE h == handler[d][k]
             g == handler'[d][k]
  <2>1. HandlerChange(d, h, g)
    BY HandlerChanges
  <2>2. log[d] \subseteq log'[d]
    BY <1>2 DEF LogsGrow
  <2>3. /\ h.todo \subseteq h.batch
        /\ \A op \in h.batch : op.device = d /\ op \in log[d]
    BY DEF OpsIdentified
  <2>4. CASE g.todo \subseteq h.todo /\ g.batch = h.batch
    BY <2>2, <2>3, <2>4
  <2>5. CASE HandlerTurnsFree(g)
    BY <2>5 DEF HandlerTurnsFree, FreeHandler
  <2>6. CASE HandlerStarts(d, g)
    <3>1. PICK b : /\ g = Started(b)
                   /\ b = Outbox(d) \/ \E i \in Attempt : b = handler[d][i].batch
      BY <2>6 DEF HandlerStarts
    <3>2. \A op \in b : op.device = d /\ op \in log[d]
      BY <3>1 DEF Outbox, OpsIdentified
    <3>3. g.todo = b /\ g.batch = b
      BY <3>1 DEF Started
    <3>. QED  BY <2>2, <3>2, <3>3
  <2>. QED  BY <2>1, <2>4, <2>5, <2>6
            DEF HandlerChange, HandlerStays, HandlerReportsFailure, HandlerSkips,
                HandlerStores, HandlerGoesOn, HandlerFinishesOp
<1>. QED  BY <1>3, <1>4, IdentifiedLogs DEF OpsIdentified

(***************************************************************************)
(* Acknowledgements: the part of a request that its handler is done with   *)
(* is stored, so that the answer names nothing that is not.                *)
(***************************************************************************)

Working(h) == h.pc \in {"append", "load", "save", "audit"}

HandledStored ==
  \A d \in Device, k \in Attempt :
    LET h == handler[d][k] IN
    /\ Working(h) => \A op \in h.batch \ h.todo : Stored(op)
    /\ InHand(h)  => \A op \in h.todo : IsNext(op, h.todo) => Stored(op)

LEMMA HandledStoredStep ==
  ASSUME TypeInv, OpsIdentified, HandledStored, [Next]_vars
  PROVE  HandledStored'
<1>1. LogsGrow
  BY StepGrows
<1>2. SUFFICES ASSUME NEW d \in Device, NEW k \in Attempt
               PROVE  /\ Working(handler'[d][k]) =>
                           \A op \in handler'[d][k].batch \ handler'[d][k].todo : Stored(op)'
                      /\ InHand(handler'[d][k]) =>
                           \A op \in handler'[d][k].todo :
                             IsNext(op, handler'[d][k].todo) => Stored(op)'
  BY DEF HandledStored
<1> DEFINE h == handler[d][k]
           g == handler'[d][k]
<1>3. HandlerChange(d, h, g)
  BY HandlerChanges
<1>4. /\ Working(h) => \A op \in h.batch \ h.todo : Stored(op)
      /\ InHand(h)  => \A op \in h.todo : IsNext(op, h.todo) => Stored(op)
  BY DEF HandledStored
<1>5. \A op : Stored(op) => Stored(op)'
  BY <1>1, StoredStays
<1> HIDE DEF h, g
<1>6. CASE HandlerStays(h, g)
  BY <1>4, <1>5, <1>6 DEF HandlerStays, Working, InHand, h, g
<1>7. CASE HandlerTurnsFree(g)
  BY <1>7 DEF HandlerTurnsFree, FreeHandler, Working, InHand, g
<1>8. CASE HandlerStarts(d, g)
  <2>1. g.todo = g.batch /\ g.pc = "append"
    BY <1>8 DEF HandlerStarts, Started
  <2>. QED  BY <2>1 DEF InHand, g
<1>9. CASE HandlerReportsFailure(h, g)
  BY <1>9 DEF HandlerReportsFailure, Working, InHand, g
<1>10. CASE HandlerSkips(h, g)
  BY <1>4, <1>5, <1>10 DEF HandlerSkips, Working, InHand, g
<1>11. CASE HandlerStores(h, g)
  <2>1. PICK op \in h.todo :
          /\ IsNext(op, h.todo) /\ h.pc = "append" /\ g.pc = "load"
          /\ g.batch = h.batch /\ g.todo = h.todo
          /\ serverLog' = Append(serverLog, op)
    BY <1>11 DEF HandlerStores
  <2>2. h.todo \subseteq Op /\ serverLog \in Seq(Op)
    BY DEF TypeInv, TypeOK, Handler, h
  <2>3. \A o \in h.todo : o.id[1] = d /\ o.id \in OpId
    BY <2>2 DEF OpsIdentified, Op, h
  <2>4. ASSUME NEW o \in h.todo, IsNext(o, h.todo)
        PROVE  Stored(o)'
    <3>1. o.id[2] <= op.id[2] /\ op.id[2] <= o.id[2]
      BY <2>1, <2>4 DEF IsNext
    <3>2. o.id = op.id
      BY <2>1, <2>3, <3>1 DEF OpId
    <3>3. /\ Len(serverLog) + 1 \in DOMAIN serverLog'
          /\ serverLog'[Len(serverLog) + 1] = op
      BY <2>1, <2>2
    <3>. QED  BY <3>2, <3>3 DEF Stored
  <2>. QED  BY <1>4, <1>5, <2>1, <2>4 DEF Working, g
<1>12. CASE HandlerGoesOn(h, g)
  BY <1>4, <1>5, <1>12 DEF HandlerGoesOn, Working, InHand, g
<1>13. CASE HandlerFinishesOp(h, g)
  BY <1>4, <1>5, <1>13 DEF HandlerFinishesOp, Working, InHand, g
<1>. QED  BY <1>3, <1>6, <1>7, <1>8, <1>9, <1>10, <1>11, <1>12, <1>13 DEF HandlerChange

\* The device marks as pushed what its handler's answer lists, and a handler
\* answers when it is done with every op.
LEMMA AckedStep ==
  ASSUME TypeInv, HandledStored, AckedDurable, [Next]_vars
  PROVE  AckedDurable'
<1>1. LogsGrow
  BY StepGrows
<1>2. pushed \in [Device -> SUBSET OpId]
  BY DEF TypeInv, TypeOK
<1>3. Ids(ServerOps) \subseteq Ids(ServerOps)'
  BY <1>1 DEF LogsGrow, Ids, ServerOps
<1>4. CASE pushed' = pushed
  BY <1>3, <1>4 DEF AckedDurable
<1>5. ASSUME NEW d \in Device, PushReply(d)
      PROVE  AckedDurable'
  <2> DEFINE k == sync[d].attempt
             h == handler[d][k]
  <2>1. k \in Attempt
    BY DEF TypeInv, TypeOK, Sync
  <2>2. h.pc = "append" /\ h.todo = {}
    BY <1>5 DEF PushReply, Answered
  <2>3. \A op \in h.batch : Stored(op)
    BY <2>1, <2>2 DEF HandledStored, Working
  <2>4. Ids(h.batch) \subseteq Ids(ServerOps)
    BY <2>3 DEF Ids, ServerOps, Stored
  <2>5. pushed' = [pushed EXCEPT ![d] = @ \cup Ids(h.batch)]
    BY <1>5 DEF PushReply, Accepted
  <2>. QED  BY <1>2, <1>3, <2>4, <2>5 DEF AckedDurable
<1>6. pushed' = pushed \/ \E d \in Device : PushReply(d)
  BY NotableSteps DEF WriteAppend, PullAppend, PullCheckpoint, HandlerAppend, storeVars
<1>. QED  BY <1>4, <1>5, <1>6

\* AppendOp adds an op to the server's log only if its id is not there.
LEMMA OnceStep ==
  ASSUME TypeInv, ExactlyOnce, [Next]_vars
  PROVE  ExactlyOnce'
<1>1. CASE serverLog' = serverLog
  BY <1>1 DEF ExactlyOnce
<1>2. ASSUME NEW d \in Device, NEW k \in Attempt, NEW op \in handler[d][k].todo,
             ~Stored(op), serverLog' = Append(serverLog, op)
      PROVE  ExactlyOnce'
  <2>1. serverLog \in Seq(Op) /\ Len(serverLog) \in Nat
    BY DEF TypeInv, TypeOK
  <2> DEFINE n == Len(serverLog)
  <2>2. /\ DOMAIN serverLog = 1 .. n /\ DOMAIN serverLog' = 1 .. n + 1
        /\ \A i \in 1 .. n : serverLog'[i] = serverLog[i]
        /\ serverLog'[n + 1] = op
    BY <1>2, <2>1
  <2>3. \A i \in 1 .. n : serverLog[i].id # op.id
    BY <1>2, <2>2 DEF Stored
  <2>4. \A i \in 1 .. n + 1 : i \in 1 .. n \/ i = n + 1
    BY <2>1
  <2>. QED  BY <2>2, <2>3, <2>4 DEF ExactlyOnce
<1>. QED  BY <1>1, <1>2, ServerLogSources

(***************************************************************************)
(* Checkpoints: within a page, everything before the current position is   *)
(* in the device's log.                                                    *)
(***************************************************************************)

PageCovered ==
  \A d \in Device :
    /\ InPage(sync[d]) =>
         /\ \A i \in 1 .. sync[d].at - 1 : serverLog[i] \in log[d]
         /\ sync[d].pc # "append" => serverLog[sync[d].at] \in log[d]
    /\ sync[d].pc = "checkpoint" => \A i \in 1 .. sync[d].upto : serverLog[i] \in log[d]

\* The Sync s of device e before a step, and t after it.
SyncOutsidePage(t) == ~InPage(t) /\ t.pc # "checkpoint"
SyncKeepsPlace(s, t) ==
  /\ t.at = s.at /\ t.upto = s.upto
  /\ \/ t.pc = s.pc
     \/ InPage(s) /\ InPage(t) /\ s.pc # "append"
SyncOpensPage(e, t) == t = Page(checkpoint[e])
SyncTakes(e, s, t) ==
  /\ InPage(s) /\ t.pc = "load" /\ t.at = s.at /\ t.upto = s.upto
  /\ serverLog[s.at] \in log'[e]
SyncAdvances(e, s, t) ==
  /\ InPage(s) /\ t = Advance(s)
  /\ s.pc = "append" => serverLog[s.at].id \in Ids(log[e])

SyncChange(e, s, t) ==
  \/ SyncOutsidePage(t) \/ SyncKeepsPlace(s, t) \/ SyncOpensPage(e, t)
  \/ SyncTakes(e, s, t) \/ SyncAdvances(e, s, t)

\* Every step leaves each Sync in one of these relations to what it was.
LEMMA SyncChanges ==
  ASSUME TypeInv, [Next]_vars, NEW e \in Device
  PROVE  SyncChange(e, sync[e], sync'[e])
<1> DEFINE s == sync[e]
           t == sync'[e]
<1>1. sync \in [Device -> Sync] /\ s \in Sync /\ log \in [Device -> SUBSET Op]
  BY DEF TypeInv, TypeOK
<1>2. CASE t = s
  BY <1>2 DEF SyncChange, SyncKeepsPlace
<1>3. NoSync.pc = "idle"
  BY DEF NoSync
<1>4. ASSUME NEW d \in Device, SyncBegin(d)
      PROVE  SyncChange(e, s, t)
  <2>1. PICK x \in {[NoSync EXCEPT !.pc = "pull"], [NoSync EXCEPT !.pc = "pushing"]} :
          sync' = [sync EXCEPT ![d] = x]
    BY <1>4 DEF SyncBegin
  <2>2. x.pc \in {"pull", "pushing"}
    BY <2>1 DEF NoSync
  <2>. QED  BY <1>1, <1>2, <2>1, <2>2 DEF SyncChange, SyncOutsidePage, InPage
<1>5. ASSUME NEW d \in Device, NEW x, sync' = [sync EXCEPT ![d] = x],
             x.pc \in {"idle", "pull", "pushing"}
      PROVE  SyncChange(e, s, t)
  BY <1>1, <1>2, <1>5 DEF SyncChange, SyncOutsidePage, InPage
<1>6. ASSUME NEW d \in Device,
             PushReply(d) \/ PushReplyLost(d) \/ PullFails(d) \/ Stop(d) \/ PullCheckpoint(d)
      PROVE  SyncChange(e, s, t)
  <2>1. PICK x \in {NoSync, [NoSync EXCEPT !.pc = "pull"]} : sync' = [sync EXCEPT ![d] = x]
    BY <1>6 DEF PushReply, PushReplyLost, PullFails, Stop, PullCheckpoint
  <2>2. x.pc \in {"idle", "pull"}
    BY <2>1 DEF NoSync
  <2>. QED  BY <1>5, <2>1, <2>2
<1>7. ASSUME NEW d \in Device, NEW left, sync[d].pc = "pushing",
             Resend(d, left) \/ GiveUp(d, left)
      PROVE  SyncChange(e, s, t)
  <2>1. CASE Resend(d, left)
    BY <1>1, <1>2, <1>7, <2>1 DEF Resend, Sync, SyncChange, SyncOutsidePage, InPage
  <2>2. CASE GiveUp(d, left)
    BY <1>3, <1>5, <2>2 DEF GiveUp
  <2>. QED  BY <1>7, <2>1, <2>2
<1>8. ASSUME NEW d \in Device, PushFailed(d) \/ PushTimeout(d)
      PROVE  SyncChange(e, s, t)
  BY <1>7, <1>8 DEF PushFailed, PushTimeout
<1>9. ASSUME NEW d \in Device, PullPage(d)
      PROVE  SyncChange(e, s, t)
  BY <1>1, <1>2, <1>9 DEF PullPage, SyncChange, SyncOpensPage
<1>10. ASSUME NEW d \in Device, PullAppend(d)
       PROVE  SyncChange(e, s, t)
  <2>1. InPage(sync[d]) /\ sync[d].pc = "append"
    BY <1>10 DEF PullAppend, InPage
  <2>2. CASE /\ serverLog[sync[d].at].id \in Ids(log[d])
             /\ sync' = [sync EXCEPT ![d] = Advance(sync[d])]
    BY <1>1, <1>2, <2>1, <2>2 DEF SyncChange, SyncAdvances
  <2>3. CASE /\ sync' = [sync EXCEPT ![d].pc = "load"]
             /\ log' = [log EXCEPT ![d] = @ \cup {serverLog[sync[d].at]}]
    <3>1. CASE e = d
      <4>1. t.pc = "load" /\ t.at = s.at /\ t.upto = s.upto
        BY <1>1, <2>3, <3>1 DEF Sync
      <4>2. serverLog[s.at] \in log'[e]
        BY <1>1, <2>3, <3>1
      <4>. QED  BY <2>1, <3>1, <4>1, <4>2 DEF SyncChange, SyncTakes
    <3>2. CASE e # d
      BY <1>1, <1>2, <2>3, <3>2
    <3>. QED  BY <3>1, <3>2
  <2>. QED  BY <1>10, <2>2, <2>3 DEF PullAppend
<1>11. ASSUME NEW d \in Device, PullLoad(d) \/ PullSave(d) \/ PullAudit(d)
       PROVE  SyncChange(e, s, t)
  <2>1. InPage(sync[d]) /\ sync[d].pc # "append"
    BY <1>11 DEF PullLoad, PullSave, PullAudit, InPage
  <2>2. PICK x : /\ sync' = [sync EXCEPT ![d] = x]
                 /\ \/ x = Advance(sync[d])
                    \/ x.at = sync[d].at /\ x.upto = sync[d].upto /\ InPage(x)
    <3>1. CASE PullLoad(d)
      <4> DEFINE x == [sync[d] EXCEPT !.pc = "save",
                                      !.snap = rec[d][serverLog[sync[d].at].record]]
      <4>1. x.at = sync[d].at /\ x.upto = sync[d].upto /\ x.pc = "save"
        BY <1>1 DEF Sync
      <4>. QED  BY <3>1, <4>1 DEF PullLoad, InPage
    <3>2. CASE PullSave(d)
      <4> DEFINE x == [sync[d] EXCEPT !.pc = "audit"]
      <4>1. x.at = sync[d].at /\ x.upto = sync[d].upto /\ x.pc = "audit"
        BY <1>1 DEF Sync
      <4>. QED  BY <3>2, <4>1 DEF PullSave, InPage
    <3>3. CASE PullAudit(d)
      BY <3>3 DEF PullAudit
    <3>. QED  BY <1>11, <3>1, <3>2, <3>3
  <2>. QED  BY <1>1, <1>2, <2>1, <2>2 DEF SyncChange, SyncAdvances, SyncKeepsPlace
<1>12. ASSUME NEW d \in Device, WriteBegin(d) \/ WriteStep(d) \/ WriteFails(d)
       PROVE  SyncChange(e, s, t)
  BY <1>2, <1>12 DEF WriteBegin, WriteStep, WriteAppend, WriteSave, WriteFails
<1>13. ASSUME NEW d \in Device, NEW k \in Attempt, HandlerStep(d, k) \/ HandlerFails(d, k)
       PROVE  SyncChange(e, s, t)
  BY <1>2, <1>13 DEF HandlerStep, HandlerAppend, HandlerLoad, HandlerSave, HandlerAudit,
       HandlerEnds, HandlerFails
<1>14. CASE Next
  BY <1>4, <1>6, <1>8, <1>9, <1>10, <1>11, <1>12, <1>13, <1>14
     DEF Next, SyncStep, FaultStep
<1>15. CASE UNCHANGED vars
  BY <1>2, <1>15 DEF vars
<1>. QED  BY <1>14, <1>15

\* An op whose id is in a device's log is itself there.
LEMMA SameIdSameOp ==
  ASSUME TypeInv, OpsIdentified, NEW d \in Device, NEW i \in DOMAIN serverLog,
         serverLog[i].id \in Ids(log[d])
  PROVE  serverLog[i] \in log[d]
<1> DEFINE op == serverLog[i]
<1>1. PICK o \in log[d] : o.id = op.id
  BY DEF Ids
<1>2. op \in Op /\ o \in Op
  BY DEF TypeInv, TypeOK
<1>3. op \in log[op.device] /\ op.device \in Device
  BY <1>2 DEF OpsIdentified, Op
<1>4. op.id[1] = op.device
  BY <1>3 DEF OpsIdentified
<1>5. o.id[1] = o.device /\ o \in log[o.device]
  BY DEF OpsIdentified
<1>6. o = op
  BY <1>1, <1>3, <1>4, <1>5 DEF OpsIdentified
<1>. QED  BY <1>6

\* The pages, and the checkpoints they turn into.
LEMMA CoverStep ==
  ASSUME TypeInv, OpsIdentified, PageCovered, CheckpointCovers, [Next]_vars
  PROVE  PageCovered' /\ CheckpointCovers'
<1>1. LogsGrow /\ TypeInv'
  BY StepGrows, TypeStep
<1>2. /\ serverLog \in Seq(Op) /\ Len(serverLog) \in Nat
      /\ checkpoint \in [Device -> Nat] /\ sync \in [Device -> Sync]
      /\ \A d \in Device : /\ checkpoint[d] <= Len(serverLog)
                           /\ sync[d].upto <= Len(serverLog)
  BY DEF TypeInv, TypeOK
\* What a device holds of the server's log, it goes on holding.
<1>3. ASSUME NEW d \in Device, NEW i \in 1 .. Len(serverLog), serverLog[i] \in log[d]
      PROVE  serverLog'[i] \in log'[d]
  BY <1>1, <1>2, <1>3 DEF LogsGrow
<1>4. ASSUME NEW d \in Device
      PROVE  /\ InPage(sync'[d]) =>
                  /\ \A i \in 1 .. sync'[d].at - 1 : serverLog'[i] \in log'[d]
                  /\ sync'[d].pc # "append" => serverLog'[sync'[d].at] \in log'[d]
             /\ sync'[d].pc = "checkpoint" =>
                  \A i \in 1 .. sync'[d].upto : serverLog'[i] \in log'[d]
  <2> DEFINE s == sync[d]
             t == sync'[d]
  <2>1. SyncChange(d, s, t)
    BY SyncChanges
  <2>2. /\ s \in Sync /\ s.at \in Nat /\ s.upto \in Nat /\ s.upto <= Len(serverLog)
        /\ InPage(s) => s.at \in 1 .. s.upto
    BY <1>2 DEF TypeInv, PageInLog, Sync
  <2>3. /\ InPage(s) => /\ \A i \in 1 .. s.at - 1 : serverLog[i] \in log[d]
                        /\ s.pc # "append" => serverLog[s.at] \in log[d]
        /\ s.pc = "checkpoint" => \A i \in 1 .. s.upto : serverLog[i] \in log[d]
    BY DEF PageCovered
  <2> HIDE DEF s, t
  <2>4. InPage(s) => /\ \A i \in 1 .. s.at - 1 : serverLog'[i] \in log'[d]
                     /\ s.pc # "append" => serverLog'[s.at] \in log'[d]
    <3>. SUFFICES ASSUME InPage(s)
                  PROVE  /\ \A i \in 1 .. s.at - 1 : serverLog'[i] \in log'[d]
                         /\ s.pc # "append" => serverLog'[s.at] \in log'[d]
      OBVIOUS
    <3>1. /\ 1 .. s.at - 1 \subseteq 1 .. Len(serverLog)
          /\ s.at \in 1 .. Len(serverLog)
      BY <1>2, <2>2
    <3>. QED  BY <1>3, <2>3, <3>1
  <2>5. s.pc = "checkpoint" => \A i \in 1 .. s.upto : serverLog'[i] \in log'[d]
    BY <1>2, <1>3, <2>2, <2>3
  <2>6. CASE SyncOutsidePage(t)
    BY <2>6 DEF SyncOutsidePage, t
  <2>7. CASE SyncKeepsPlace(s, t)
    BY <2>4, <2>5, <2>7 DEF SyncKeepsPlace, InPage, t
  <2>8. CASE SyncOpensPage(d, t)
    <3> DEFINE c == checkpoint[d]
    <3>1. /\ t.at = c + 1 /\ t.upto = PageEnd(c) /\ PageEnd(c) \in Nat
          /\ c \in Nat
          /\ \/ t.pc = "append"
             \/ t.pc = "checkpoint" /\ PageEnd(c) <= c
      BY <1>2, <2>8, PageType DEF SyncOpensPage
    <3>2. \A i \in 1 .. c : serverLog'[i] \in log'[d]
      BY <1>2, <1>3 DEF CheckpointCovers
    <3>. QED  BY <3>1, <3>2 DEF InPage, t
  <2>9. CASE SyncTakes(d, s, t)
    <3>1. serverLog'[s.at] \in log'[d]
      <4>1. s.at \in DOMAIN serverLog
        BY <1>2, <2>2, <2>9 DEF SyncTakes
      <4>. QED  BY <1>1, <2>9, <4>1 DEF SyncTakes, LogsGrow
    <3>. QED  BY <2>4, <2>9, <3>1 DEF SyncTakes, t
  <2>10. CASE SyncAdvances(d, s, t)
    <3>1. InPage(s) /\ s.at \in 1 .. s.upto /\ s.at \in DOMAIN serverLog
      BY <1>2, <2>2, <2>10 DEF SyncAdvances
    <3>2. serverLog[s.at] \in log[d]
      BY <2>3, <2>10, <3>1, SameIdSameOp DEF SyncAdvances
    <3>3. serverLog'[s.at] \in log'[d]
      BY <1>2, <1>3, <3>1, <3>2
    <3>4. \A i \in 1 .. s.at : serverLog'[i] \in log'[d]
      <4>1. \A i \in 1 .. s.at : i \in 1 .. s.at - 1 \/ i = s.at
        BY <2>2
      <4>. QED  BY <2>4, <3>1, <3>3, <4>1
    <3>5. /\ t.at = s.at + 1 /\ t.upto = s.upto
          /\ t.pc = "append" \/ (t.pc = "checkpoint" /\ ~(s.at < s.upto))
      BY <2>2, <2>10, AdvanceType DEF SyncAdvances
    <3>6. \A i \in 1 .. t.at - 1 : serverLog'[i] \in log'[d]
      BY <2>2, <3>4, <3>5
    <3>7. t.pc = "checkpoint" => \A i \in 1 .. t.upto : serverLog'[i] \in log'[d]
      BY <2>2, <3>1, <3>4, <3>5
    <3>. QED  BY <3>5, <3>6, <3>7 DEF InPage, t
  <2>. QED  BY <2>1, <2>6, <2>7, <2>8, <2>9, <2>10 DEF SyncChange
<1>5. CheckpointCovers'
  <2>1. CASE checkpoint' = checkpoint
    BY <1>2, <1>3, <2>1 DEF CheckpointCovers
  <2>2. ASSUME NEW d \in Device, PullCheckpoint(d)
        PROVE  CheckpointCovers'
    <3>1. /\ sync[d].pc = "checkpoint"
          /\ checkpoint' = [checkpoint EXCEPT ![d] = sync[d].upto]
      BY <2>2 DEF PullCheckpoint, NextCheckpoint
    <3>2. \A i \in 1 .. sync[d].upto : serverLog[i] \in log[d]
      BY <3>1 DEF PageCovered
    <3>3. sync[d].upto \in Nat /\ sync[d].upto <= Len(serverLog)
      BY <1>2 DEF Sync
    <3>4. ASSUME NEW e \in Device, NEW i \in 1 .. checkpoint'[e]
          PROVE  serverLog'[i] \in log'[e]
      BY <1>2, <1>3, <3>1, <3>2, <3>3 DEF CheckpointCovers
    <3>. QED  BY <3>4 DEF CheckpointCovers
  <2>3. checkpoint' = checkpoint \/ \E d \in Device : PullCheckpoint(d)
    BY NotableSteps DEF WriteAppend, PushReply, PullAppend, HandlerAppend, storeVars
  <2>. QED  BY <2>1, <2>2, <2>3
<1>. QED  BY <1>4, <1>5 DEF PageCovered

-----------------------------------------------------------------------------
(***************************************************************************)
(* The inductive invariant, and what follows.                              *)
(***************************************************************************)

LogInv == /\ TypeInv /\ OpsIdentified /\ HandledStored /\ PageCovered
          /\ AckedDurable /\ ExactlyOnce /\ CheckpointCovers

LEMMA LogInit == Init => LogInv
<1> SUFFICES ASSUME Init PROVE LogInv
  OBVIOUS
<1>1. TypeInv /\ OpsIdentified
  BY TypeInit, IdentifiedInit
<1>2. HandledStored
  BY DEF Init, HandledStored, FreeHandler, Working, InHand
<1>3. PageCovered /\ CheckpointCovers
  BY DEF Init, PageCovered, CheckpointCovers, NoSync, InPage
<1>4. AckedDurable /\ ExactlyOnce
  BY DEF Init, AckedDurable, ExactlyOnce
<1>. QED  BY <1>1, <1>2, <1>3, <1>4 DEF LogInv

LEMMA LogStep == LogInv /\ [Next]_vars => LogInv'
<1> SUFFICES ASSUME LogInv, [Next]_vars PROVE LogInv'
  OBVIOUS
<1>1. /\ TypeInv /\ OpsIdentified /\ HandledStored /\ PageCovered
      /\ AckedDurable /\ ExactlyOnce /\ CheckpointCovers
  BY DEF LogInv
<1>. QED  BY <1>1, TypeStep, IdentifiedStep, HandledStoredStep, CoverStep, AckedStep, OnceStep DEF LogInv

\* An op that a device will not push again is in the server's log, for any
\* retries, late handlers and failures (handlePush, MarkPushed).
THEOREM AckedDurableAlways == Spec => []AckedDurable
<1>1. LogInv => AckedDurable
  BY DEF LogInv
<1>. QED  BY <1>1, LogInit, LogStep, PTL DEF Spec

\* The server's log holds no op twice (AppendOp).
THEOREM ExactlyOnceAlways == Spec => []ExactlyOnce
<1>1. LogInv => ExactlyOnce
  BY DEF LogInv
<1>. QED  BY <1>1, LogInit, LogStep, PTL DEF Spec

\* A device holds everything up to its checkpoint, so that a pull that starts
\* there misses nothing (OpsSince, setCheckpoint).
THEOREM CheckpointCoversAlways == Spec => []CheckpointCovers
<1>1. LogInv => CheckpointCovers
  BY DEF LogInv
<1>. QED  BY <1>1, LogInit, LogStep, PTL DEF Spec

=============================================================================
