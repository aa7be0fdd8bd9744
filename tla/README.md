# SyncForge in TLA+

A model of SyncForge's offline-first synchronization: the clients' local stores and `Sync`, the
server's push and pull handlers, the clocks, vectors and conflict resolution they share, and the
registration and authentication of a device. TLC checks it on small instances; TLAPS proves what
matters most for every instance.

## 1. The system

| Component | State | Operations | Interacts with |
|---|---|---|---|
| Hybrid logical clock (`internal/hlc`) | last timestamp, in memory | `Now`, `Observe`, `Compare` | every local write, every pulled op |
| Version vectors (`internal/vector`) | none, values | `Increment`, `Compare`, `Merge` | resolution, local writes |
| Conflict resolution (`internal/conflict`) | none, a function | `Resolve` | local writes, push handler, pull loop |
| Ops and records (`internal/oplog`, `internal/record`) | none, types | `Validate` | everything |
| Store (`internal/storage/sqlite`) | oplog, records, conflicts, devices, server counter, kv | `AppendOp`, `OpsSince`, `UnpushedOps`, `MarkPushed`, `GetRecord`, `PutRecord`, `RecordConflict`, `GetKV`/`SetKV`, `CreateDevice` | one instance per client, one on the server |
| Client SDK (`pkg/client`) | store, clock, checkpoint, outbox | `Put`, `Delete`, `Sync` (push, then pull page by page), `Open`, `Close`, `Register` | the server by HTTP, with retries |
| Server (`internal/server`) | store | `handlePush`, `handlePull`, `handleRegisterDevice`, `requireAuth`, read-only endpoints | clients |
| Retry schedule (`pkg/client/retry.go`) | none | `normalized`, `backoff` | every request |
| Wire format, commands, demo | none | copies, flags | - |

**What is hard.** A database call is a transaction of its own and nothing larger is. `handlePush`,
the pull loop and `applyLocalWrite` each log an op in one call, read the record in another, write it
back in a third and record a conflict in a fourth. Handlers of different devices, and of several
attempts of one push (a client that times out sends the request again while the first handler is
still running), interleave between any two of those calls; each of the three may fail or stop there;
ops reach the replicas in different orders; the wall clocks disagree and jump; the clock's state does
not survive `Close`. A registration makes one database call at each end and is still not atomic: the
server replaces a token before the client knows the new one, a request that the client has given up
may replace it later, and a Sync goes on with the token it has read.

**What makes it correct.** An acknowledged op is stored, once, in the order its device wrote it; a
checkpoint passes nothing the device does not hold; a replica's record is a function of the ops it
holds and not of their order; the clock never contradicts causality; an overwritten write leaves an
audit row; and Sync, called again and again, brings every op everywhere. A device that registers when
it is refused ends with the server's token.

## 2. The modules

| Module | What it is | Models |
|---|---|---|
| `Vector` | version vectors as functions on the devices | `internal/vector` |
| `HLC` | timestamps, their order, `Now` and `Observe` with the counter's width | `internal/hlc` |
| `Conflict` | the types Op and Record, and `Resolve` | `internal/conflict`, `oplog`, `record` |
| `SyncForge` | the core: clients, server, network, faults, one action per database call | `pkg/client`, `internal/server/sync.go`, `internal/storage/sqlite` |
| `Replication` | the properties of `SyncForge` | |
| `MCSyncForge` | the wall clocks and quotas that the configurations choose from | |
| `SharedLog` | what the logs promise, as a specification of its own: devices write, the server puts the writes in one sequence, devices read it from the front | the two `oplog` tables together |
| `Retry` | the retry schedule in the width of a Duration | `pkg/client/retry.go` |
| `Session` | a device and its token: `Register`, the requests of `Sync`, `handleRegisterDevice`, `requireAuth`, and its properties | `internal/server/auth.go`, `devices.go`, `Client.Register`, `doJSON` |
| `MCSession` | retry policies for the configurations | |
| `Clock` | one device's clock among arbitrary remote timestamps, reopened at any moment | `internal/hlc` as `pkg/client` uses it |
| `SyncForgeProofs`, `LogProofs`, `OrderProofs`, `RecordProofs`, `ConvergenceProofs` | theorems about `SyncForge`, each module on the one before it: types; the logs; the refinement and the causal order; what the devices' records know and show; conflict rows, the server's records and convergence | |
| `SharedLogProofs`, `ClockProofs`, `SessionProofs` | theorems about `SharedLog`, `Clock` and `Session` | |

`SyncForge` extends `Conflict`, which extends `Vector` and `HLC`; `Clock` extends `HLC` alone;
`Session` extends `Retry`. `Replication` instantiates `SharedLog`. `SyncForge` and `Session` meet in
one place: a request of `SyncForge` is one that `Session` admits. Both have the retries of `doJSON`.

### State and code

| Variable | In the code |
|---|---|
| `serverLog` | rows of the server's `oplog`; `server_seq` is the position, so `server_counter` is its length |
| `serverRec`, `serverAudit` | the server's `records` and `conflicts` |
| `handler[d][k]` | the goroutine running `handlePush` for device d's k-th attempt: the batch, the ops still to do, the record it has loaded |
| `log`, `rec`, `audit` | a client's `oplog`, `records`, `conflicts` |
| `pushed`, `checkpoint` | the column `pushed`, the key `last_checkpoint` |
| `written` | how many ops the device has appended; the number of an op |
| `clock` | `Client.clock.last` |
| `sync`, `write` | the locals of a running `Sync` or `Put`/`Delete` |
| `faults` | how many faults have happened (environment) |

### Actions and code

| Actions | Code |
|---|---|
| `WriteBegin`, `WriteAppend`, `WriteSave`, `WriteFails` | `applyLocalWrite`: `GetRecord`; `clock.Now` and `AppendOp`; `Resolve` and `PutRecord`; an error of any of them |
| `SyncBegin` | `UnpushedOps` and the first request, or straight to the pull |
| `PushReply`, `PushReplyLost` | the 200 response and `MarkPushed`, or its error |
| `PushFailed`, `PushTimeout` | a 5xx response, a network error or timeout: `doJSON` sends again or gives up. After a timeout the old handler goes on |
| `HandlerAppend`, `HandlerLoad`, `HandlerSave`, `HandlerAudit` | one op of `handlePush`: `AppendOp`, `GetRecord`, `Resolve` and `PutRecord`, `RecordConflict` |
| `HandlerFails`, `HandlerEnds` | an error or a stop of the handler; the end of one nobody waits for |
| `PullPage` | `handlePull`, and its response |
| `PullAppend`, `PullLoad`, `PullSave`, `PullAudit`, `PullCheckpoint`, `PullFails` | the pull loop: `Observe` and `AppendOp`, `GetRecord`, `Resolve` and `PutRecord`, `RecordConflict`, `setCheckpoint`; an error of any of them |
| `Stop` | the process ends and `Open` starts another on the same database |

Memory operations join the database call next to them: no other goroutine sees the difference. A
request that is answered before the client stops waiting is one step of client and server, which
loses no behaviour because a lost, late or repeated one is modelled as a timeout.

The session:

| Variable of `Session` | In the code |
|---|---|
| `row`, `issued` | `devices.token_hash` of the device's row (0: no row); how many tokens `newDeviceToken` has made, a token being its number |
| `handler[k]` | the goroutine running `handleRegisterDevice` for a request: before `CreateDevice`, answered with its token, failed |
| `held`, `policy` | the key `device_token`; `retryPolicy` |
| `reg`, `request` | the locals of a running `Register`; those of a running `Sync`: its token and the attempts of its request |
| `refused`, `rotations` | the application: the last Sync returned 401; how often it registered without need |
| `confirmed`, `overtaken`, `faults` | history: the last Register returned nil; the row was last written for a request nobody waited for; faults so far |

| Actions of `Session` | Code |
|---|---|
| `RegisterBegin`, `RegisterRetries` | `Register`, and `doJSON` sending its request the first time or again |
| `RegisterAnswered`, `RegisterSaves` | the 201 response; `SetKV` of the token |
| `RegisterFailed`, `RegisterLost`, `RegisterAbandoned`, `RegisterEnds` | a 5xx; a network error with nothing left on the server, or a response cut short; one that leaves the handler at work; the end of the context, or an error of `SetKV` |
| `CreateDevice`, `CreateFails`, `HandlerEnds` | `handleRegisterDevice` with the upsert of `CreateDevice`, its error, the end of a handler nobody waits for |
| `SyncBegin`, `SyncServed`, `SyncRefused`, `SyncFailed`, `SyncRetries`, `SyncEnds` | `requireToken`; `requireAuth` and `DeviceByTokenHash` for each request of a Sync: served, 401, 5xx or network error; the next attempt; the end of the context |
| `Stop` | the process ends and `Open` starts another on the same database |

### The refinement

`SharedLog` has neither requests nor handlers nor pages. `Replication!Logs` maps to it:

| `SharedLog` | `SyncForge` | | Action | Steps of `SyncForge` |
|---|---|---|---|---|
| `wrote` | `written` | | `Write` | `WriteAppend` |
| `shared` | the ids of `serverLog`, in its order | | `Share` | `HandlerAppend` of an op that is new to the server |
| `copy` | the ids of `log` | | `Acknowledge` | `PushReply` |
| `acked` | `pushed` | | `Fetch` | `PullAppend` of an op that is new to the device |
| `place` | `checkpoint` | | `MovePlace` | `PullCheckpoint` |

Every other step leaves all five alone. A push of several ops is several steps `Share`, and each has
to take the first write of the device that is missing, whichever attempt it belongs to; so does
`Fetch` of the sequence, whatever a Sync that was given up left behind; `Acknowledge` may only take
what is in the sequence, and `MovePlace` only pass what the device holds.

### Abstractions

A record is a (collection, record id) pair and its value is the id of the op that won: two payloads
are equal when the ops are. An op's uuid is a pair of its device and a fresh number. Device ids are
numbers in the order of their strings. The rows of a device's own ops are read back in the order of
those numbers, the order of the AUTOINCREMENT key; the rest of a client's log is a set because
nothing reads its order. Conflict rows are a set, without their time stamps. In `SyncForge` devices
are registered and authenticated. A server that stops is a stop of each of its handlers: it keeps
nothing else outside its database.

`Session` has one device, because `CreateDevice` touches no row but its own and `requireAuth` looks
up one token; tokens are numbers because 32 random bytes are unique; and the device makes one
`Register` call at a time, next to a `Sync`. The length of a wait does not matter to `Session`, only
how many there are; `Retry` has the lengths.

### Faults

`FaultKinds` says which may happen and `MaxFaults` how many: `timeout` (a push attempt given up),
`error` (a push handler fails between two ops), `abort` (it fails or stops within an op), `pullfail`,
`fail` (a local database call), `restart` (Close and Open between calls), `crash` (in the middle).
Those of `Session` are `error` (a 5xx), `lost` (a request or response that leaves nothing at work),
`abandon` (the client gives up a request, or stops, that the server still has), `fail` (`SetKV`) and
`stop` (a context done, or the client closed).

## 3. What is checked

One record is enough for every property but the order of the logs: records share nothing except the
logs, whose treatment does not look at the record. Two devices and three writes give concurrent ops,
an update of a device's own op, an outbox of two ops and a push that meets a pull; the third device
of `three_devices` gives three pairwise concurrent writes and a merged vector that a third meets. A
page of one op makes every pull a sequence of pages. Two attempts put two handlers of one device next
to each other. `LogicalMod = 64` in the core keeps the counters clear of the wrap.

| Run | Shows | Bounds |
|---|---|---|
| `all_faults` | the logs: `AckedDurable`, `ExactlyOnce`, `CheckpointCovers`, `SessionOrder`, `CausalLog`, `CopiesInOrder`, and that they are one (`ImplementsSharedLog`); types | 2 devices, 2 + 1 writes, 2 attempts, page 1, one fault of any kind |
| `records` | `DeviceRecords`, `ServerRecords`, `StampsFollowKnowledge`, `CounterNamesWrite`, `AckedApplied`, `LosersAudited`, `ServerLosersAudited` | 2 + 1 puts or deletes, 2 attempts, one wall clock that jumps, one timeout, error or failed pull, one op in hand at a time on the server |
| `three_devices` | the records of all four replicas, that they agree in the end (`ReplicasConverge`), the timestamps behind them (`StampsFollowKnowledge`), and that no record goes back | 3 devices, 1 write each, disagreeing clocks, no fault, one op in hand |
| `delivery` | `EveryOpDelivered` | 1 + 1 writes, which may happen during a Sync, 2 attempts, page 1, one fault of any kind |
| `clock` | `NeverBehind`, `SortsAfterAllSeen`, `CatchesUp` | any remote timestamps with 6 readings and 20 counters, 3 nodes, any number of reopenings |
| `session` | `OnlyLateRotates`, `ScheduleExact`, `AdmittedForGood`; types and numbers of attempts | 3 policies of one to three attempts, 3 registration requests on the server at once, 2 registrations without need, 2 faults of any kind, Durations of 7 bits |

"One op in hand" is `SerialPush`: no handler begins an op while another is between `AppendOp` and the
end of that op. In `delivery`, a page of one op and a fault leave pushes and pulls half done for later
ones to finish. In `clock`, six readings and twenty counters let the wall clock tie with what is
known, fall behind it and pass it; a clock whose counter is at its last value can only be reopened.

In `session`, three requests at once and two faults give a request that was given up, the retry that
overtakes it and a further registration, or a response that is lost after the token was replaced; two
registrations without need let one meet a Sync and its own stale requests. The policies have a value
below 1, defaults, a MaxDelay that no doubling meets, and one at half of the range of a Duration:
`Roomy` says that a MaxDelay is no greater, which is 146 years. Above that, doubling can overflow and
Int63n panic.

**Properties.** `AckedDurable`: no acknowledgement is ahead of the store. `ExactlyOnce`: an op id is
in the server's log once. `CheckpointCovers`: everything at or before a checkpoint is in the
device's log. `SessionOrder`: the server logs a device's ops without gaps, in order. `CausalLog`: an
op comes after all the writes its vector counts. `DeviceRecords`, `ServerRecords`: a record is the
greatest op by HLC of those its replica holds, with the join of their vectors. `ReplicasConverge`:
when every replica has every op and nothing is in progress, all show the same values.
`RecordsNeverGoBack`: no write to the records table loses knowledge or replaces a winner by a lesser
one. `StampsFollowKnowledge`: an op whose vector counts another has the greater timestamp, so that
the vectors' rule and the timestamps' rule of `Resolve` agree and a counter names one op.
`CounterNamesWrite`: no two ops of a device on a record have the same counter. `AckedApplied`: the
server's record knows every op the server has acknowledged.
`LosersAudited`, `ServerLosersAudited`: an op that is neither the winner nor in its past is in the
past of an op that a conflict row names as loser. `CopiesInOrder`: a device that holds a write of
another, at any moment, holds the earlier ones. `ImplementsSharedLog`: the refinement above.
`OnlyLateRotates`: the token of a `Register` that returned nil is the server's, unless the row was
written for a request that the client had given up. `ScheduleExact`: the longest wait before retry n
is BaseDelay doubled n times and capped, computed without overflow. `AdmittedForGood`: in the end
the device has the server's token and keeps it.

**Fairness.** `FairSpec` assumes that goroutines are scheduled, both the client's and the server's,
and that the application calls Sync again and again: weak fairness of `SyncStep`, `WriteStep` and
`HandlerStep`, per device and attempt. It assumes nothing of writes and faults, whose number is
bounded: `EveryOpDelivered` speaks of what follows the last of them. `HandlerEnds` belongs to
`HandlerStep` because Go's server ends a handler whose client has gone.

That of `Session` assumes the same of goroutines and of Sync (`RegisterStep`, `SyncStep`,
`HandlerStep`), and that the application registers when it has to, without a token or after a 401
(`Needed`). A Sync has any number of requests. Nothing is assumed of faults and of registrations
without need.

### Where code and documentation differ

These runs check a statement of the documentation and produce a counterexample.

| Run | Statement | What happens |
|---|---|---|
| `concurrent_pushes` | `ReplicasConverge` (README.md:17) | two handlers load the same record, and one's PutRecord overwrites the other's |
| `push_abort` | `AckedApplied` (internal/server/sync.go:15) | a push fails after AppendOp; its retry is acknowledged, and the op never reaches a record |
| `pull_interrupted` | `SkipsOnlyApplied` (pkg/client/sync.go:97) | a pull fails after AppendOp; the next one skips the op |
| `write_interrupted` | `CounterNamesWrite` (pkg/client/client.go:193) | a Put fails after AppendOp; the next one gives another op the same vector |
| `restart_diverges` | `ClientsConverge` (docs/ARCHITECTURE.md:24) | a restarted device with a slow wall clock updates a value with an older timestamp; the outcome then depends on the order |
| `late_registration` | `RegisterSafeToRetry` (pkg/client/client.go:122-124) | a registration given up by the client reaches the database after its retry, and replaces the token that `Register` has returned; Sync is refused until the application registers again |

`restart_diverges` also shows what becomes of docs/ARCHITECTURE.md:63-64, that the clock cannot tick
backwards: the clock that `Open` makes knows nothing of the log, and ticks behind it.

These runs delimit the ones that pass. `DeviceRecords` is checked without stops and database errors
of the client, because of `pull_interrupted`, `write_interrupted` and `restart_diverges`;
`ServerRecords` with `SerialPush` and without `abort`, because of `concurrent_pushes` and
`push_abort`. Section 4 draws the line more exactly: every formula of the table is proved of the
behaviours that have none of the steps its counterexamples are made of. The logs need no such restriction: `AckedDurable`, `ExactlyOnce`,
`CheckpointCovers`, `SessionOrder`, `CopiesInOrder`, `CausalLog` and the refinement are proved under
every fault, with shared clients too, and `delivery` is checked there. `OnlyLateRotates` is what
remains of `RegisterSafeToRetry` for every policy and fault.

## 4. What is proved

The theorems hold for any set of devices, records, wall clock readings, quotas, attempts, page size
and faults, with pushes serialized or not and clients shared or not. Their assumptions are the named
`ASSUME`s of the modules: device ids are positive numbers, attempts and page size are positive; for
sessions, any policies whose MaxDelay leaves room to double.

The theorems about records have conditions of their own, because section 3 shows that their claims
are not true of every behaviour. Each condition excludes one thing and is stated of states or steps,
so that everything else (timeouts, retries, late handlers, failing requests, errors at other calls)
is still there:

| Condition | Says | Without it |
|---|---|---|
| `Exclusive` | no local write has read the record that a pull is about to save | with `SharedClient = TRUE`, two devices and three writes, TLC finds `ClientsConverge` violated by a Put and a pull that save over each other (no run: no document says that a client may be shared) |
| `Whole` | no error or stop of a client falls between its `AppendOp` and `PutRecord` | `pull_interrupted`, `write_interrupted` |
| `RowsWritten` | nor between `PutRecord` and `RecordConflict` of a pull | the row is never written |
| `Later` | an op that a device writes is later than all it holds | `restart_diverges` |
| `ServerExclusive` | no two handlers have read one record that both are about to save | `concurrent_pushes` |
| `ServerWhole`, `ServerRowsWritten` | the same two of a handler | `push_abort`; the row is never written |

`Exclusive`, `Whole` and `Later` are the conditions of the *clients*, `ServerExclusive` and
`ServerWhole` those of the *server* in the table below. Who meets them is proved too, from the
constants: `CalmClients` (one call at a time, no database error, no crash in a call; Close and Open
are allowed), `CalmServer` (one op in hand at a time, not stopped within one), and, for `Later`, no
end of a process while no logical counter is at its last value, at which the clock's promise ends
(`CountersHaveRoom`; in the runs no behaviour has as many events as `LogicalMod = 64`). Restarts
matter to which value wins and to nothing else: what the records know, what was acknowledged and the
conflict rows do not depend on `Later`.

| Theorem | States |
|---|---|
| `SyncForgeProofs!TypeCorrect` | `Spec => []TypeOK` |
| `LogProofs!AckedDurableAlways` | `Spec => []AckedDurable` |
| `LogProofs!ExactlyOnceAlways` | `Spec => []ExactlyOnce` |
| `LogProofs!CheckpointCoversAlways` | `Spec => []CheckpointCovers` |
| `OrderProofs!SharedLogImplemented` | `Spec => ImplementsSharedLog` |
| `SharedLogProofs!ContiguousAlways`, `InOrderAlways` | in `SharedLog`, `Spec => []Contiguous` and `Spec => []InOrder` |
| `OrderProofs!SessionOrderAlways` | `Spec => []SessionOrder` |
| `OrderProofs!CopiesInOrderAlways` | `Spec => []CopiesInOrder` |
| `OrderProofs!CausalLogAlways` | `Spec => []CausalLog` |
| `SessionProofs!SessionTypeCorrect` | `Spec => []SessionTypeOK` (of `Session`) |
| `SessionProofs!OnlyLateRotatesAlways` | `Spec => []OnlyLateRotates` (of `Session`) |
| `SessionProofs!SafeToRetryIfAwaited` | without requests given up while the server has them: `Spec => []RegisterSafeToRetry` |
| `SessionProofs!ScheduleExactAlways` | `Spec => []ScheduleExact` (of `Session`) |
| `RecordProofs!CounterNamesWriteAlways` | `Spec /\ []Exclusive /\ [][Whole]_vars => []CounterNamesWrite` |
| `RecordProofs!SkipsOnlyAppliedAlways` | `Spec /\ []Exclusive /\ [][Whole]_vars => []SkipsOnlyApplied` |
| `RecordProofs!StampsFollowKnowledgeAlways` | clients: `... => []StampsFollowKnowledge` |
| `RecordProofs!DeviceRecordsAlways` | clients: `... => []DeviceRecords` |
| `ConvergenceProofs!ClientsConvergeAlways` | clients: `... => []ClientsConverge` |
| `ConvergenceProofs!LosersAuditedAlways` | `Exclusive`, `Whole`, `RowsWritten`: `... => []LosersAudited` |
| `ConvergenceProofs!AckedAppliedAlways` | `Spec /\ []ServerExclusive /\ [][ServerWhole]_vars => []AckedApplied` |
| `ConvergenceProofs!ServerRecordsAlways` | clients and server: `... => []ServerRecords` |
| `ConvergenceProofs!ReplicasConvergeAlways` | clients and server: `... => []ReplicasConverge` |
| `ConvergenceProofs!RecordsNeverGoBackAlways` | clients and server: `... => RecordsNeverGoBack` |
| `ConvergenceProofs!ServerLosersAuditedAlways` | all but `Later`, with `ServerRowsWritten`: `... => []ServerLosersAudited` |
| `RecordProofs!LaterWithoutStops` | without the end of a process: `Spec /\ []CountersHaveRoom => [][Later]_vars` |
| `RecordProofs!CalmClientsExclusive` | calm clients: `Spec => []Exclusive /\ [][Whole]_vars` |
| `ConvergenceProofs!CalmServerExclusive` | calm server: `Spec => []ServerExclusive /\ [][ServerWhole]_vars /\ [][ServerRowsWritten]_vars` |
| `ConvergenceProofs!CalmAudits` | calm clients and server: `Spec => []LosersAudited /\ []ServerLosersAudited /\ []AckedApplied` |
| `ConvergenceProofs!CalmConverges` | the same without restarts: `Spec /\ []CountersHaveRoom =>` records resolved, converging, never going back |
| `RecordProofs!ResolveKeepsResolved` | one more op resolved into the record of a set of ops gives the record of the larger set, where timestamps follow knowledge |
| `RecordProofs!ResolveJoins` | one more op resolved makes the record's vector the join of all, whatever the timestamps |
| `RecordProofs!SameOpsSameRecords` | devices with the same ops have the same records, where `DeviceRecords` holds |
| `RecordProofs!ServerAgrees` | so do a device and the server, where `ServerRecords` holds too |
| `ClockProofs!ClockNeverBehind` | `ClockSpec => []NeverBehind` |
| `ClockProofs!ClockSortsAfterAllSeen` | `ClockSpec => SortsAfterAllSeen` |
| `ClockProofs!ClockCatchesUp` | `ClockSpec => CatchesUp` |

*Types.* `TypeOK` is not inductive: a Sync indexes the server's log with its place in the page, so
`TypeInv` adds `PageInLog`, that the place lies in the page. `TypeOK` itself says that pages and
checkpoints end within the log.

*The logs.* `LogInv` is inductive and implies all three. `OpsIdentified`: every copy of an op, in any
log or request, is in its author's log, numbered no higher than what the author has written, and ids
are unique within a log; without it the pull's skip, which compares ids, could skip a different op,
and `IsNext`, which compares numbers, could pick two. `HandledStored`: the ops a handler is done with
are stored, and so is the one in hand, so that an answer lists nothing else; this gives
`AckedDurable`. `PageCovered`: what precedes the place in a page is in the device's log, which turns
into `CheckpointCovers` when the page ends. `ExactlyOnce` needs only the check in `AppendOp`. The
lemmas `NotableSteps`, `HandlerChanges`, `SyncChanges`, `StepGrows` and `ServerLogSources` say once
what any step may do to a handler, a Sync and the logs; the proofs of the conjuncts go by their cases.

*The refinement.* `RefInv` adds to `LogInv` what the order of the sequence rests on. `OwnComplete`: a
device holds all it has written. `RequestsClosed`: a write that precedes one of a request, of the same
device, is stored or in the request too; the outbox leaves out only what was acknowledged, which
`AckedDurable` says is stored. With `HandledStored`, the op a handler appends is then the device's
first that is missing, whatever other attempts have done. `PagesAhead`: a page ends no earlier than
the checkpoint it began at. What `SharedLog` promises is proved there, without requests and pages:
`Contiguous`, because a write is shared after the earlier ones, and `InOrder`, because a sequence
with that property is read from the front. `SessionOrder` and `CopiesInOrder` follow through the
mapping, `CopiesInOrder` also for the moments within a page, which no checkpoint speaks of.

*The causal order.* `CausalInv` adds to `RefInv` where knowledge comes from. `RecordsCovered`: the
writes that a record counts are in the device's log, and so are those counted by a record that a pull
or a local write has read and not yet saved; with a shared client that reading may be out of date, but
it still counts only what is there. `OwnCovered`: the same of each op that the device writes, its own
earlier writes under smaller numbers. `ForeignStored`: what a device holds of others came from the
server. When a handler appends an op, the foreign writes that it counts are therefore stored, and the
writes of its own device precede it, which the refinement's `EarlierStored` says are stored too.

*The session.* A call waits only while its policy has an attempt left (`CallWithin`), which with
`SomeAttempt` bounds the requests by the policy. `TokenInv` follows the token of the current call from
the response on its way to the client, through the call that saves it, to `held`: at each of these it
is the server's, or the row was last written for a request nobody waited for. A retry of the call
itself begins with no response on its way, so that no request of its own replaces the token behind it.
If the client gives nothing up that is still at work, every handler about to call `CreateDevice` is
one that a call waits for (`NoneLeftBehind`), `overtaken` stays false, and the token is the server's.

*The retry schedule.* `Longest` loops through a recursive function, and no induction theorem applies
(see section 5). Its values are therefore pinned down one round at a time: a schedule of n rounds exists
and has the recursive equation (`ScheduleExists`, `LongestSchedule`), and the powers of two are what
doubling makes them (`PowersOfTwo`, by counting subsets). Induction on the round is by the
least round that breaks the claim (`LeastNumber`): as long as BaseDelay * 2^i is below the cap the
loop has computed it, and from then on it stays at a delay that is no smaller than the cap and, by
`Roomy`, has not overflowed (`DelaysExact`). The lemma `LongestExact` says so for every n; the run
checks n up to 7.

*The records.* `Resolved` describes a record by the set of ops behind it, and `ResolvedUnique` shows
that it describes only one: the winner is unique because timestamps are never each after the other,
the vector because a least upper bound is. `ResolveKeepsResolved` goes through the outcomes of
`Resolve`: where the vectors are ordered, `WellStamped` (`StampsFollowKnowledge` for a set of ops)
makes the newer op the later one too, so that fast-forwarding picks what the greatest-HLC rule would;
where they are concurrent the winner stays above all others because the order of timestamps is
transitive, and the merged vector is the join.

At most one op of a local write and one of a pull are stored and not yet applied (`Pending`);
`Applied` are the others, and `Fresh` says that what has been read of a record is the record. The
record has two halves, and each has its invariant.

`KnowInv` is about what it knows: each record is `Joined` from the applied ops, that is, its vector
is the join of theirs. `ResolveJoins` keeps this whatever the timestamps. A new op counts itself as
the next after everything its record counts, and what a counter stands for is in its author's log
(`OwnCovered`). When a device appends an op it has applied all its earlier ones on the record, since
`Whole` let none of its writes break off and a pull has only ops of others in hand; the counter is
new: `CounterNamesWrite`.
`VectorsClosed`, that an op's vector includes those of the ops it counts, turns comparing counters
into comparing vectors, and `Signed` that an op counts itself. `SkipsOnlyApplied` is then immediate:
an op in the log that no pull has in hand is applied.

`LaterInv` is about the clock: it is behind nothing the device holds, because every pulled op is
observed before it is appended. It gives `Later`, and it is what a restart breaks.

`ResolvedInv` joins the two. `StampsFollowKnowledge` is kept by `WriteAppend`, the only step that
makes an op: the new op counts only what the device holds, all of which is earlier by `Later`, and
nobody counts the new op yet. With it a save is `ResolveKeepsResolved`, and the records are `Resolved`
from the applied ops.

The server has the same invariants with the op that a handler has in hand in place of a device's
(`ServerPending`). `HeldStored` says that such an op is in the log, and `ServerFresh` that it is in
the hands of one handler only, though attempts of one push carry the same ops: the first to append
an op is the only one that `AppendOp` tells so, and the others skip it. With `ServerExclusive` what
that handler has read of the record is still the record when it saves. An acknowledged op is stored
(`AckedDurable`) and in nobody's hand when nothing is in progress, so it is in the join:
`AckedApplied`, which needs nothing of the clients. `ReplicaInv` adds the winner (`ServerResolved`).
Replicas that hold every op have resolved the same set, and `ResolvedUnique` makes their records
equal: `ClientsConverge` and `ReplicasConverge`. `EveryOpDelivered` says that replicas come to hold
every op. `RecordsNeverGoBack` follows because a set of applied ops only grows, and the greatest of
more ops is no lesser.

An audit row is written after the record, so that between the two calls the loser is in no row:
`Lost` counts the row that is due (`DueLoser`, `ServerDue`) with those that are there, and
`AuditInOrder` says that every applied op is the winner, or counted by it or by a lost op (`TracedTo`).
An op that `Resolve` fast-forwards over is counted by the one that replaces it; one that loses a
conflict becomes lost itself, with all that it traced to. None of this compares timestamps, so the
rows are complete even where `Later` fails. The row itself is then written from the op in hand, in
the next step (`RowDue`). A local write never conflicts with the record it was made on
(`OwnWritesNeverConflict`), which is why `applyLocalWrite` needs no rows.

*The clock.* The order of timestamps is irreflexive, transitive and total; `Now` and `Observe` return
something greater than the clock and the remote timestamp for any reading (`NowAfter`,
`ObserveAfter`), as long as the uint32 counters do not wrap (`Room`). At the wrap they do not. `seen` starts afresh at
`Open` and `ever` does not, so the first two theorems speak of one session of the client and the
third of what survives between sessions: anything newer than all the device has ever seen puts the
clock level with it.

## 5. What is only model-checked, and what is not modelled

Only checked: liveness under fairness (`EveryOpDelivered`, `AdmittedForGood`), which is out of the
prover's reach, and that the six counterexamples exist. Out of its reach are also the induction
theorems of the library, whose parameter is an operator; where a proof is by induction on a number
it picks the least exception instead. The conditions of section 4 are not runs of their own: TLC
checks each claim where the constants rule the excluded steps out (`records`, `three_devices`).

Not modelled: the wire format, which copies fields; the route table; pulls restricted to one
collection, which `Sync` never makes; read-only endpoints; the command line programs; what is left of the records when
`Put` and `Sync` of one client overlap, and the audit row that is lost when `RecordConflict` fails,
both in no passing run; vectors and logs beyond their ranges (uint64, int64).

## 6. Plan

1. Done: the core, its log and record properties, the clock, sessions, the retry schedule, the
   shared log and its refinement, and proofs of every safety property that a run checks.
2. A replica as a set of ops whose record is the greatest of those on it, implemented by the devices:
   `Applied` of the proofs is the mapping.
3. A shared client: what concurrent `Put` and `Sync` on one record do to it. On different records,
   `Exclusive` holds and the theorems apply.
4. `RecordConflict` failing on its own: which audit rows a retry brings back.
5. Partial pulls (`collection`) and checkpoints shared between them.
