# Veyra in TLA+

Veyra is a proxy panel. A **panel** process keeps users, nodes and inbounds in
SQLite and serves the operator's pages; on every proxy host a **node** process
runs up to two proxy cores (sing-box in process, Xray as a child) and keeps one
WebSocket to the panel. Configurations and user lists go down that connection,
traffic reports go up it. This directory models the parts of the two programs
where order, failure and repetition decide whether they are right; TLC checks
the models on small instances, and TLAPS proves what is listed under *Proofs*
for every instance.

    tlc  -workers 2 -config StatsReport.cfg StatsReport.tla
    tlapm StatsReportProofs.tla

## Inventory

| Component | State it keeps | Operations | Correct when |
|---|---|---|---|
| **Traffic books** `node/internal/engine/stats.go` | per core: baseline, pending reading, carry, carrySent, generation | `delta`, `skip`, `commit`, `retire` | every byte is in exactly one acknowledged report, whatever is replaced between a reading and its acknowledgement |
| **Report path** `node/internal/link/link.go` | epoch, sequence, outbox (one report waiting), what this session agreed | `report` every 30 s, read loop `handle`, `session`, `Run` (redial) | a report is resent until acknowledged and never overlaps the next; a panel without numbering is still served |
| **Hub** `panel/internal/hub/hub.go` | connection per node, pending change set, coalescing timer | `serve`, `dispatch`, `UsersChanged`/`ConfigChanged`, `flush`, `pushTo` | every edit reaches every connected node, in order, and soon |
| **Billing** `panel/internal/store/traffic.go`, `service/traffic.go` | per node: last epoch and number; per user: usage, remainders | `RecordTraffic(Report)`, `AddTraffic(Report)` | a report is billed once, to the last thousandth of a byte, to those the node serves; crossing a limit tells the nodes |
| **Accounts** `service/service.go`, `service/reset.go`, `store/users.go` | quota, expiry, usage, reset day, last reset | create, edit, toggle, renew, reset, minute sweep | usage is wiped exactly when due; downtime is caught up; nodes follow |
| **Engine** `node/internal/engine/engine.go`, `xray.go` | running instances, applied revision, current users, users hash | `ApplyConfig`, `UpdateUsers`, `Close`, `supervise` | a bad configuration leaves the node serving the old one, and it says which one that is |
| **Address limits** `engine/iplimit.go`, `xray.go` | per user: addresses seen, since when; the rules believed to be in Xray | `setLimits`, `enforce`, `forget`, `setBlocks` | at most the allowed addresses; who came first keeps the place; both cores come to refuse the same ones; unlock rules survive |
| **Panel move** `node/internal/link/move.go`, `web/panel_domain.go`, `acme.go` | the panel's names: unit, `panel.env`, saved change, process; the node's panel URL in memory and file | change, retire, upgrade, `FinishDomainMove`, `redirectIfMoved`, `movePanel` | a change survives; a name keeps its job until retired; everything ends on the new name |
| **Inbounds, relays, hopping** `service/service.go`, `relay.go`, `hopping.go`, `node_push.go` | inbounds (node, port, tag, enabled), relay pairs, port ranges | create, edit, enable, delete, `NodeConfig` | no two listeners on one port; every node whose configuration changes is told |
| **Unlock routing** `service/unlock.go` | which nodes lend their exit for which services | save, delete, set rules, `NodeConfig` | a site leaves through an exit that is there, or straight |
| **Login** `service/auth.go`, `totp.go`, `web/session.go`, `ratelimit` | password hash, TOTP secret and last code, recovery codes, session generation, buckets | login, enrol, logout | a code works once; logging out ends every session |
| **Subscriptions** `panel/internal/sub`, `singbox` | none | render | formatting only |
| **Store** `panel/internal/store` | SQLite, one writer | statements and transactions | atomicity the services rely on |

How they interact: a service call writes the store, then calls the hub's
notifier; the hub's flush, later and in another goroutine, asks the service to
build what to push from the store as it is *then*; the node's read loop hands it
to the engine, which may replace a core; replacing a core closes its books; the
node's report goroutine reads the books and sends; the panel's goroutine for the
connection commits the report and may notify the hub, because a user crossed a
limit. The minute scheduler changes accounts and notifies the hub. An edit of a
node, inbound, relay or exit changes the configurations of other nodes, which
the service must name to the hub. A change of the panel's own name restarts the
panel, moves the records that name it, and reaches nodes over the channel they
opened to the old name.

What makes it hard: four goroutines per connection on the two sides, with the
state handed between them under several locks (`stateMu`, the engine's, `pendMu`,
`pushMu`); connections that are replaced before the old one is known to be dead;
a report whose acknowledgement is lost; cores that are replaced or die while a
report is in flight; either process restarting between any two steps; panels and
nodes of different versions; a scheduler working on snapshots of rows that
operators edit.

## Plan

In the order in which they matter to an operator: money first (what a user is
billed), then access (who is served), then configuration, then the rest.

| # | Module | Models | State |
|---|---|---|---|
| 1 | `Counters` | the books of one core, as pure operators | done, lemmas proved |
| 2 | `Ledger` | what metering promises, abstractly | done |
| 3 | `StatsReport` | the report path on both sides; implements `Ledger` | done |
| 4 | `HubPush` | how an edit reaches a node | done |
| 5 | `Accounts` | one account's life on the panel | done |
| 6 | `StatsReportProofs`, `HubPushProofs`, `EngineApplyProofs`, `NodeConfigsProofs`, `AddressLimitProofs`, `LoginProofs`, `PanelMoveProofs`, `BillingProofs` | theorems on 1 to 4 and 7 to 12 | done: types, safety and the refinement; see *Proofs* |
| 7 | `EngineApply` | `ApplyConfig` of both cores, rollback, applied revision, `UpdateUsers`, `supervise` | done |
| 8 | `NodeConfigs` | nodes, inbounds, relays, hopping and unlock routing: who must be told of an edit, and conflicts of ports | done |
| 9 | `AddressLimit` | places of addresses, grace, limit and unlock rules in Xray | done |
| 10 | `Login` | one-time codes, recovery codes, session generations, the first account | done |
| 11 | `PanelMove` | the panel's names, and a node following them | done |
| 12 | `Billing` | rates, remainders, the filter of `billable`, the inbounds an account is limited to, against exact fractions | done |

Composition: `StatsReport` extends `Counters` and instantiates `Ledger`.
`EngineApply` stands beside them: it opens up what `StatsReport` calls `ApplySingbox`,
`ApplyXray`, `StartXray` and `XrayExit`, and what `HubPush` calls `HandleConfig` and
`HandleUsers`; its `RetiredOnce` is what lets `StatsReport` close the books of a core once per
instance. `NodeConfigs` opens up what `HubPush` calls `WriteConfig`, an edit that tells one node:
it shows that the right nodes are told, and `HubPush` that one that is told catches up; its
`pending` is the hub's pending set. `AddressLimit` opens up the address rules that `EngineApply`
leaves out of `startLocked` and `updateUsers`; its `StartLocked`, `XrayExits` and `Supervise` are
that module's, seen from the rules. `PanelMove` uses `MovePanelHost` as one write per record;
whom that tells is in `NodeConfigs`. `Billing` opens up what `StatsReport` calls the commit
(`DispatchStats`, `AddTraffic`) and what `Accounts` calls `AddTraffic` and `Push`, for several accounts and
nodes; the numbers by which a repeat is told are one flag there and are in `StatsReport`.

Theorems worth proving next: the types of `Accounts` and that its usage is wiped only when due; `StatsReport` with
`{"legacy", "tick_before_welcome"}` instead of no circumstance.

## What is modelled

### Counters (stats.go)

A counters value is a record of five numbers for one user and one direction (the
code keeps maps of them and treats every key alike). A nil map is `NoReading`,
an absent entry 0. `sub`, `retire`, `delta`, `skip` and `commit` are the methods
of the same names; `Measured` is what `delta` returns.

### StatsReport (link.go, stats.go, hub.go, store/traffic.go)

One user, one direction, one node. The actors and their steps:

* the cores: `Meter`, `ApplySingbox`, `ApplyXray`, `XrayExit`, `StartXray`. A
  core that goes leaves one last reading (anything between the highest reading
  so far and its counter), or none.
* the report goroutine (`rpc`): `TickReads` → `XrayTotals` → `SingboxDelta` →
  `XrayDelta` are `Engine.Stats` in the order in which it takes and releases
  the engine's lock; the number, the outbox and the send are part of
  `XrayDelta`. `TickResends` and `TickSendsOldWay` are the two branches of
  `reportStats` with a report waiting; `WriteUnnumbered` and `ReportSettles` the
  old protocol.
* the read loop (`hpc`): `HandleWelcome`, `HandleOk`, then `HandlerSettles`
  (`StatsReported` runs after the lock that emptied the outbox is released).
* the panel's goroutine for the connection: `PanelReads`, `DispatchHello`,
  `DispatchStats`, `DispatchFails`; `DispatchOrphan` is a frame it had already
  read when its connection died.
* connections and processes: `Drop`, `Connect`, `PanelRestart`, `NodeCrash`.

`AddTraffic` is the whole transaction. `lost` and `resent` are history
variables: bytes no reading can show any more (counted after the last reading of
an instance, or held only by a process that crashed), and bytes sent once more
without a number to a panel that does not number reports.

`Circumstances` names what is outside the expected timing. The timer ticks every
30 s; the handler of an ok, the answer to a hello and a frame in the panel's
hand take milliseconds. Without the circumstances a tick overtakes none of the
three, and no core dies *unread* with a report in flight. Each exclusion is
lifted by a run of its own or described under *What the runs found*.

### HubPush (hub.go, link.go, engine.go)

One node. `WriteUsers`/`WriteConfig` are the writes of service calls, `Notify`
the notification that follows each; `schedule`, `Elapse`, `FlushTakes` and
`FlushPushes` the coalescing and the flush with the two locks it takes one after
the other; a push is a record that goes through `PushLocks` (`pushMu`),
`PushBuilds` (the database is read) and `PushSends`, for the configuration and
then the users. Connections are numbered; `registered` is the hub's map,
`serving` the goroutines. A timer restarted after it has fired, before its flush
has taken `pendMu`, goes on as a stray: the model keeps it. Time is a clock of
the coalescing window only.

`PushFails` is an error of `pushTo` at any step past its start: the database cannot be read, or the
wait for `pushMu` outlasts its deadline. `flush` and `serve` log it; what was pending has been
cleared by then and the connection stays up. `unsent` is history: the parts (configuration,
users) such a push left out on the connection there is, until a later push builds the part
(`MakesUpFor`) or another connection begins.

### Accounts (service.go, reset.go, store/users.go, models.go)

One account in minutes. An edit is `EditReads` (the form), `EditWrites` and
`EditTouches` (two statements); a renewal and a manual reset are one transaction
each; the sweep reads (`SweepReads`) and then acts (`SweepActs`) on its
snapshot. `served` is what a connected node lets in. The calendar is periodic:
a month has `Month` minutes and a reset day with its clock is one of them. The
scheduler is started before the panel listens, and its first pass is taken to
precede the first call.

### EngineApply (engine.go, xray.go, link.go)

One node's engine. `sb` is `Engine` itself (the instance running, the part it was
given, `applyErr`, the users on the inbounds and in the statistics, the hash of the
list in place), `x` is `xrayCore` with the processes it started, numbered as they are
started: `alive` ones have not exited, `watched` ones have a goroutine waiting for them.
Each action is one critical section of `e.mu` or `xray.mu`, or a stretch between two:

* a configuration (`ApplyConfig`): `ReceiveConfig` with the test Xray makes of its
  part, `ApplySingbox` with the three ways a swap can fail, `ApplyXray`, and `Answer`,
  which sets the revision and sends the state frame;
* a user list (`UpdateUsers`): `ReceiveUsers`, `UpdateSingbox`, `UpdateXray`, the two
  halves under their own locks, each of which may stop half way;
* a welcome from another address (`HandleWelcome`, the restart it causes), `Close`;
* Xray on its own: `XrayExits`, then `Supervise` and `Retry`, the goroutine that
  waits for the process and the loop that starts another. `Retry` may run between any
  two steps of a handler.

Parts of configurations are model values; `Unparsable` and `Refused` are those a
core does not take. A user whose credential changes is another user.

### AddressLimit (iplimit.go, xray.go, xrayapi.go)

One node. `seen` is the limiter's map, kept in the order of first sight (which is all
the code uses the times for) with the age since last sight; `enforce` is
`Refreshed`, `Dropped` and `Beyond` one after the other. A poll is `PollReads` (sing-box's
connections), `PollEnforces` (Xray's, and the verdict), `PollCloses`, then `setBlocks` call by
call: outdated rules removed, unlock rules taken out (`TakeOut`), limit rules added
(`AddMissing`), unlock rules put back (`PutBack`). Each call may be answered, fail, or meet the
deadline all of them share; the calls that put rules back have their own. `rules` is Xray's list,
in order; `unlock` and `blocked` what the node believes of it. Xray exits and is replaced at any
step, and clients come and go. Users alike, so one of them; ages beyond the grace period are alike.

### NodeConfigs (service.go, relay.go, hopping.go, unlock.go, node_push.go and the forms)

The rows of nodes, inbounds, exits and rules; one action per call of the service, with the
checks it makes (`checkRelay`, `checkHopConflicts`, `portsTaken`, `checkExit`), the tags it derives or
rewrites (`deriveInboundTag`, `Retagged`) and the nodes it tells (`Tell`). `Config(n)` is
`NodeConfig` with `NodeXrayConfig`: listeners of its own, relays held open for others, exits
served, outbounds and rules. `Push` sends what the rows say at that moment; a node that connects is
pushed to. What a page's form does before the call (defaults, parsing) is in the
`...Forms` disjuncts as the choice of arguments. As in `Accounts` and `Billing`, a push that is
under way succeeds; what one that fails leaves out is in `HubPush`.

### Login (auth.go, totp.go, session.go, server.go, handlers_auth.go, handlers_totp.go)

Requests that run side by side, each a record with what it has read: `/setup`, a
login with or without a second step, the second factor switched on, off or its codes renewed, a
logout. Reads and writes are separate steps except under `totpMu`, which is a variable. A cookie
is its generation; `sessionGen` is the server's copy and `gen` the database's. `-set-admin` writes
two settings, one after the other, from another process. `spent`, `again`, `claims` and `revoked`
are history.

### PanelMove (panel_domain.go, acme.go, server.go, main.go, hub.go, move.go)

`saved`, `unit` and `panelEnv` are the three places that say what the panel is called;
`domains` is what the running process was started with, and is what the forms count from, as in the
code. `ResolveDomains` and `changeDomains` are the functions of these names; `NodeNames` and
`LinkNames` are what `Handler` lets through for a host. `links` holds names on which links were handed
out, `wanted` the names last asked for.

`FinishDomainMove` is a process with the states `waiting` (for a certificate), the record it moves,
`read` and `save`. Each of its steps may fail as in the code. The links cert.pem and key.pem are replaced
one after the other, and an error on the way is only logged (`relink_fails`). An error of `MovePanelHost`,
which may come before or after a record is written, or of the last save, ends the goroutine
(`failed`) until another process starts. What is saved is read over a copy of the names the
process began with: a read that fails leaves these (`finish_unread`), and so does, for each
field, a value that is empty and therefore not in the JSON (`leaves_out`). The setting may
also be unreadable when a process starts (`start_unread`).

The node's `movePanel` is `NodeProbes`, `NodeWrites` and `NodeMoves`; `conn` is the name its connection
dialed. `unmoved` is history: this connection will not be told to move (again), because the push at its
hello failed before `redirectIfMoved`, or because a move it was told of failed on the node.

### Billing (store/traffic.go, service/traffic.go, store/users.go, handlers_access.go)

The rows of users (`account`), of `user_inbounds` (`ticked`), of inbounds (`status`) and the nodes' `rate`.
A report goes through `ReadInbounds`, `ReadUsers` and `ReadRestrictions`, the three statements of
`nodeUserIDs`, the last with `Billable` (the filter); then `AddTraffic`, one transaction, or `Repeat`; then
`Acknowledge` (`crossedLimits`, the ok). `Billed` is the arithmetic, in thousandths of a byte. Each step may
meet an error of the database, the ok may be lost, the panel may stop. The page of allowed inbounds is
`SetAccessReads` (the check) and `SetAccessWrites` (the transaction). Numbers of rows are SQLite's:
the largest and one. Upload and download are billed alike, and one stands for both. A node that
numbers its reports keeps one until it is acknowledged; one of `Unnumbered` forgets it with the handler.
An account is active or not by its quota; expiry and switching off are in `Accounts`. A push is one
step (`HubPush`). `charge`, `wanted`, `owed` and `steady` are history: what was billed at the rates of the
day, what was last ticked, bytes carried and not billed, and the pairs of an inbound and an account that
nothing has touched since the start.

## Runs

| Run | States | What it shows |
|---|---|---|
| `stats_report` | 510 thousand | types; no byte billed twice; none lost; an acknowledgement settles what the report carried; the path implements `Ledger` |
| `stats_legacy` | 406 thousand | with panels that number reports and panels that do not, exchanged for each other: billed at most once but for what is resent the old way; every report is settled in the end |
| `hub_push` | 1.4 million | nothing forgotten, nothing put back, and convergence, but for what a push that failed has left out; nothing held beyond the cap and one window |
| `accounts` | 488 thousand | usage wiped only when due; downtime caught up; nodes follow the account |
| `engine_apply` | 185 thousand | a list that would be skipped is in place on both cores; one Xray at most, none after the end; books closed once per process; what is reported up to date is served; Xray returns |
| `address_limit` | 423 thousand | the limit and unlock rules stand in order and the latter come back; a verdict does not flap; both cores come to refuse exactly the addresses over the limit; a place that is free is found |
| `node_configs` | 298 thousand | every node whose configuration an edit changes is told; what one forwards another accepts; hop ranges keep apart |
| `login` | 679 thousand | a code is accepted once; a finished logout ends the sessions before it; the first account is claimed once and whole |
| `panel_move` | 212 thousand | a change is what the panel comes up on; no name in use stops working; every record, the certificate and the node arrive |
| `billing` | 2.9 million | two nodes report, one of which does not number its reports, through edits, deletions, changes of rate, errors and restarts: billed exact to the thousandth; nothing carried is dropped; who reaches the quota is withdrawn from both; nobody may use what is not ticked |
| `stats_ok_race`, `panel_links` | until the first violation | see *What the runs found* |

Four more configurations each admit one circumstance and are not part of the table: `RelayLoop.cfg` (of `NodeConfigs`, violating
`NoLoop`), `PanelReread.cfg` and `PanelUnread.cfg` (of `PanelMove`, violating `ChangeSticks`) and `PanelRelink.cfg` (violating
`Arrives`). They reproduce what is said of these under *What the runs found*: TLC ends each with a trace within a minute.

`TypeOK` is a property of the runs where it says more than types: of `StatsReport` and `EngineApply`, whose proofs
rest on it, of `NodeConfigs` (tags are not shared) and of `PanelMove` (cert.pem and key.pem go to a certificate there is).
Those of `HubPush`, `Login` and `Billing` are proved and no run's property; `Accounts` and `AddressLimit` state theirs for a reader.

### Bounds, and why they are enough

* `StatsReport`: two bytes (one can be in a report while the other is in
  neither), one replacement of a core (before, during and after a report), two
  node processes (two epochs), two reports per process (one acknowledged, one
  repeated), one frame queued in each half plus one in the panel's hand, one
  fault that is a dropped connection, a panel restart, a failed commit or a failed
  Xray reading. The legacy run trades the second epoch and the second byte for a second fault: it
  needs a panel of one kind replaced by the other and back.
* `HubPush`: two edits of the users and one of the configuration (an edit during the flush of another, of the
  same kind or not), one fault, one frame on the way (every send may have to wait; a longer queue
  admits no other order of frames). The window is two ticks and the cap three (the code's are 100 ms
  and 1 s): three notifications restart a timer that has advanced, and the last finds the cap reached; one
  between a timer's firing and its flush leaves a stray.
* `Accounts`: months of two minutes over three minutes (a boundary passes within
  and between months), a quota of one byte, two calls, one fault. Two calls are
  needed for every combination of turning a schedule off and on.
* `EngineApply`: four frames (a configuration, a list, a configuration that fails and
  the same list again), two faults (a swap or a start fails and so does the way back, or Xray exits
  and the first start after it fails), two sing-box parts that decode and one that does
  not, one Xray part that is taken and one that is refused, two users. `XrayReturns` is stated of the
  first four processes. Deadlock is not checked because `Close` ends the node.
* `AddressLimit`: one user, two addresses and limits of none and one (the least with somebody
  over the limit), two unlock rules (one may be out while the other is in), one call, two
  faults (a call fails and so does the next, or Xray is replaced), a grace of less than a tick.
* `NodeConfigs`: three nodes (one edits, one relays, one sends through an exit) and an identifier
  for a fourth; three ports and one hop range; two calls from a database in which they are
  related, one fault. `RelayLoop.cfg` leaves out the fourth node, the hop range and the fault: the two calls
  are the relay and the address.
* `Login`: two requests at a time and three in all, two periods of codes, two secrets at most, one
  fault, one command.
* `PanelMove`: three names, so a third can follow a move from the first to the second; three
  changes or retirements, one upgrade, one fault. The configurations that admit a circumstance have one change
  or two, no upgrade, and the one fault of which they speak, or none (`PanelReread.cfg`).
* `Billing`: a quota of one byte and two bytes, so that a report crosses it and another follows; the default
  rate and one of a half (a report leaves a fraction, and two carry), two nodes with one inbound each,
  two accounts and a number for a third, two events (calls and faults together: an edit on each side of a
  step, or an edit and a failure). `MaxDelta` stands for 2^40.
* Every counter that would grow for ever is cut by one of these constants in the
  guard of the action that raises it.

### Fairness

`StatsReport`: weak fairness of every goroutine and timer (Go's
scheduler runs what is runnable, timers fire), of redialling (`Run` loops with a
back-off for ever) and of the panel reading its connections. `HubPush` needs less: while any goroutine or timer of
the two programs can go on, one of them does; once edits and faults have stopped, there is only so much left to
do. Nothing makes
traffic, edits, faults or crashes happen. Faults are bounded, which is what
"once the network is good" means for a liveness property.
`Accounts`: the scheduler's loop, the statements of a call under way, the hub and
redialling; `Minute` is not fair, so `NodesFollow` holds for an account at any
moment the clock may be stopped at, which is stronger than with time passing.

`EngineApply`: only the goroutine that watches Xray and its loop of starts; no frame
has to arrive and no handler under way has to finish for Xray to return.

`AddressLimit`: the poll's goroutine, redialling and the clock by which addresses are
forgotten; clients and Xray are not fair. `PanelMove`: systemd's restarts, the goroutines of
both programs, the certificate authority, and an administrator who points a name at the server after
skipping the check. `Billing`, `NodeConfigs` and `Login` state no liveness.

### What the runs found

* **`stats_ok_race`** — the read loop empties the outbox under `stateMu` and
  settles the books after releasing it. A tick of the report goroutine between
  the two takes a reading against the old baseline and the overlap is billed
  twice, which the comment at `link.go:153` says cannot happen. It takes a timer to
  fire within microseconds.
* **`panel_links`** — a subscription domain added on the settings page, the panel's name being
  left, takes `/sub/` off the panel's name at the restart. `docs/en/maintenance.md:88`
  recommends this very page because the old links keep working.
* **`PanelReread.cfg`** — `FinishDomainMove` decodes the saved change over a copy of its own names
  (`panel_domain.go:390`), and an empty field is left out of the JSON (`panel_domain.go:31`). A change saved
  since, which empties a field and keeps the panel's name, is filled up again and saved back:
  a subscription domain that was given up returns, and so do names that were retired, although the comment at
  `panel_domain.go:388` says such a change must not be lost. A form restarts the panel two
  seconds later, so the certificate has to arrive within these.
* **`PanelUnread.cfg`** — in the same window, an error of the read is ignored (`panel_domain.go:391`) and what
  the process began with is saved over any newer change that keeps the panel's name.
* **`PanelRelink.cfg`** — an error of `relinkNodeCertificate` is only logged (`panel_domain.go:379`) and the move is
  noted as done. The node on the panel's server keeps the old certificate, where `docs/en/guide.md:300`
  has it move to the new one.
* **`RelayLoop.cfg`** — `checkRelay` compares addresses when an inbound is saved; editing a node's
  address afterwards, by hand or through `MovePanelHost`, asks nobody. A relay node given the address of the
  node it forwards to forwards a port to itself, which the comment at `relay.go:34` says
  `checkRelay` rejects.

Also seen while modelling, with no line of the repository promising otherwise,
or found beside the two above, and so admitted by a circumstance instead of asserted:

* `unread_in_flight` (StatsReport): if a core dies unread while a report in flight holds carry and
  part of its counter, `carrySent` exceeds `carry`, `sub` reads the negative difference as a
  reset, and the carry is billed again.
* In `HubPush` a flush between a connection's registration and its hello sends a configuration
  before the welcome, against the comment at `hub.go:285`; `NothingForgotten` shows that the
  hello repairs it.
* In `Accounts` a renewal in the minute between an expiry and the sweep keeps the old usage
  (`reset.go:137`). In `EngineApply` a part sing-box cannot decode is refused without an
  error in the state frame that follows, and an Xray that fails after sing-box was
  replaced leaves a new part under the old revision.
* `late` (AddressLimit): a limit rule Xray applies after the deadline is not recorded and
  never removed.
* `reused_id` (NodeConfigs): a new node takes the number of a deleted one with the rules that are left of it.
  Outside what is checked: an inbound is not checked against relays on its port, nor a disabled one when
  it is enabled again, so that one node may be given two listeners on a port.
* A push that fails (HubPush) is not tried again. If it was at its second part, the configuration has gone
  without its users, and the node's listeners have none until something else is pushed. A move
  the node should be told of waits for the next connection (`unmoved`).
* `slow_logout`, `command_and_form` (Login): `bumpSessionGen` adds one to what is stored and remembers the sum
  in two steps, so a logout may be overtaken by another; a logout that begins while an overtaken one is still to
  finish has the generation remembered put back, and cookies that were ended are accepted again; `-set-admin` beside `/setup` mixes a name and a password. Outside
  the model: a secret parked by a request that had seen the second factor off can replace the
  confirmed one.
* `PanelMove`: `panel_as_sub`, the panel's old name taken for the subscriptions stops carrying the node
  channel, and nodes on it are cut off; `same_process`, a second change by a process
  that began with records to move counts from a `MoveHostFrom` that is out of date, and the
  records stay on the name in between; `after_upgrade`, `ResolveDomains` keeps the old
  `FlagDomain` when the unit has caught up, so that the next change is dropped at the restart;
  `env_behind`, the same after a `panel.env` that could not be written; `at_once` and
  `before_restart`, a form sent between `FinishDomainMove`'s reading and writing, or in the
  two seconds before a restart, is lost or undoes the other; `retires_early`, the page counts only
  nodes that are connected; `start_unread`, a setting that cannot be read when the panel starts is logged
  (`main.go:84`) and the names of the flags are used, which after a change are the old ones. After an
  error of `MovePanelHost` the records that are left stay on the old name until the panel is started again.
* `exit_nodes` (NodeConfigs): turning off, moving or deleting a node that serves an exit tells the nodes it
  relays with, not the nodes that send sites to the exit. They go on sending them to a node that is off,
  where `unlock.go:643` has them go straight out, until they are pushed to for another reason.
* `last_tick` (Billing): when the last inbound an account is limited to is deleted (or its node is), its row goes
  by the cascade, and no rows mean every inbound. `docs/en/guide.md:118` says "only the ticked inbounds", and
  the page refuses to save none.
* `outage` (Billing): a figure above 2^40 bytes is left out of a report that is acknowledged. The comment at
  `service/traffic.go:108` takes a report to cover thirty seconds; after an outage of the panel it covers
  the outage.
* In `Billing` a row deleted between `billable` and the transaction, and created again with its number (SQLite's
  largest and one), is billed for its predecessor; an account created under the name of a deleted one is
  billed for what nodes still hold under the name; and an unnumbered report with one deleted user is lost for
  all of its users.
* `late_frame`: a report read from a dead connection and committed only after the
  node has restarted and reported under a new epoch puts the recorded epoch back,
  and a resend of the newer report is billed again.
* `races`, `crash_in_call` (Accounts): an edit writes the row and stamps the cycle
  in two statements, and the sweep decides on a snapshot; interleaved, or stopped
  between the two, usage can be wiped that should not be.
* In `EngineApply` a list that arrives while sing-box is down is refused before Xray is
  reached, which goes on with the old one, and a restart for a new address whose start
  fails leaves Xray down until the next configuration; `XrayReturns` says only what
  it can (`p \in x.stopping`).
* `sweep_fails`: a sweep whose statement fails after `expiriesPassed` has advanced
  its clock does not push the expiry it had found.

## Proofs

`StatsReportProofs` starts with the books, for all readings: `DeltaMeasures` (settling what
`delta` measured takes exactly that off what is owed), `RetireKeeps` (replacing
an instance keeps what the report in flight settles, and loses only what was
counted after the last reading), `CommitSettles` (an acknowledgement takes off
what was sent), with the lemma that `delta` keeps the books balanced.

It goes on to `TypeCorrect`, `Spec => []TypeOK`, for every value of the
bounds and under every circumstance, from `BoundsAssumption` alone. The proof is
one lemma per group of actions over one lemma per kind of data (counters,
frames, queues); `TypeOK` is inductive as it stands.

Its second half, for every value of the bounds, from `BoundsAssumption` and
the expected timing (`Circumstances = {}`, the assumption `stats_report` is run
under; three of the excluded circumstances are shown above to break the results):
`BilledOnce` (`AtMostOnce`), `NothingForgotten` (`NothingLost`),
`SettlesTheReport` (`SettlesWhatWasSent`) and `Implements` (the refinement of
`Ledger`). None of the four is inductive; `IInv` is, and each of its parts is
there because the one before it needs it:

* `AccountInv` is the goal in terms of `Adrift = Used - billed - Held`, the bytes
  nobody will bill any more: never negative, never more than `lost`. An ok that
  settles keeps `Adrift` only if it settles what was billed, hence
* `SettleInv`: the books would settle exactly the amount of the report waiting.
  To stay true while a report is being measured it needs
* `ReportInv`: while the report goroutine measures, no report waits and none is
  being settled, and what Xray answered lies between its baseline and its counter
  if its instance is still the same. The lemmas on the books turn this into
  arithmetic with the help of
* `BooksInv`: baseline, pending reading and counter are in order for each core, and
  no more carry is marked as sent than there is.
* A commit on the panel bills exactly once because of `NumberInv`: whatever report
  is on its way is recorded already or *is* the one waiting; it holds across
  reconnections because of `SessionInv` (both ends agree on numbering before a report
  is sent), and across restarts because of
* `OrphanInv`: a report of an earlier process that the panel still has in hand is
  recorded or made of bytes adrift, there is one such report at most, and the new
  process has sent nothing yet.

TLC checked `IInv` as an invariant of `StatsReport.cfg` before it was proved. The
proof is one lemma per action (`...Keeps`), over lemmas saying what is held
(`HeldNow`), what retiring a core does to the sums (`RetireEffect`) and what a
commit does to each part (`RecordKeeps`, `BequestKeeps`). `Inductive` puts them
together and the four results follow from it.

`EngineApplyProofs`, for every set of parts and users and every bound, from
`PartsAssumption`: `TypeCorrect` (`TypeOK`), `SkippingSafe` (`SkippingIsSafe`), `NoStray`
(`NoStrayXray`), `BooksClosedOnce` (`RetiredOnce`) and `ReportedIsServed`
(`UpToDateIsServed`). The inductive invariant adds to them what each needs of the steps in
between: `Tidy`, that the process known was started and is the only one alive; `Skips`, which
unlike `SkippingIsSafe` also holds of an instance that is down; `HalfInv`, that between the two
halves of a user list sing-box has it and no list is in place; `ServedInv`, what
holds of the revision at each point of `ApplyConfig`; `ClosedInv`, that no handler runs after
`Close`. The proof is one lemma per action over lemmas on `Stopped`, `Started`, `Instance`
and `SwapFails`.

`BillingProofs`, for every set of nodes, inbounds, names, rates and quotas and every bound, from
`BillingAssumption`: `BillingIsExact` (`ExactlyBilled`), under both circumstances. `Exact` strengthens it to
rows that are not there and adds the types that the division needs (`BilledExact`: quotient and remainder
together are what was to be billed). `TicksAreKept` (`OnlyTicked`), assuming that `"last_tick"` is not a
circumstance: `Ticks` adds that a row ticked stands for what was asked for, that rows name
inbounds that are there, and that a form being saved never holds an empty pick; so that `ticked` is empty
only for who was given everything. Without the assumption TLC finds it violated (`last_tick` above).

Three more of `Billing`. `TypeCorrect` (`TypeOK`) adds to `Exact` what handlers, forms, tables and nodes hold.
`NodesFollow` (`UsersFollow`) needs one fact besides itself, `CrossedLast`: only a handler that has billed a report
and not acknowledged it holds a crossing nobody has been told of. Both hold under every circumstance.
`NothingIsDropped` (`NothingDropped`), assuming that `"outage"` is not a circumstance: what the handler of a
numbered report has read of a steady account at each of its stages (`Handled`) is what lets it be billed for all the
report says; `SteadyAllowed` says who is steady is there and allowed, `Bounded` that no figure is over
the bound, which is where the assumption enters.

`HubPushProofs`, for any numbers of edits and faults, any length of the queue and any window:
`EditsArrive` (`NothingForgotten`), `HoldingEnds` (`HeldBriefly`), `NeverBack` (`NoStepBack`) and `TypeCorrect`.
Pushes may fail at any step: what they leave out is in `unsent`, and each result is proved for everything else.
`NothingForgotten` speaks of a hub that has come to rest; the invariant has to say at every moment *who* still
owes the node what it does not have (`Owed`): a call that has not notified, a change pending or taken, a push that
has yet to read the database, a push or frame that holds what the database says now, or else a push that failed and left the part in `unsent`; and a configuration that
drops users only if the list follows it, or was left out likewise (`Relisted`). A frame counts only because none behind it is older:
`UsersInOrder` and `ConfigsInOrder`, for which one push at a time is past its lock (`OneAtATime`), over the
connection the node has (`Linked`), and the configuration never goes without the users (`Shape`). `Timing` bounds the
age of a timer that runs together with what is left of it.

`LoginProofs`, for any numbers of requests, codes, secrets, commands and faults: three arguments over one
type invariant (`Typed`, which has totpMu held by exactly the request between its two steps).
`GoodForOne` (`SpentOnce`) under every circumstance: codes accepted are behind `lastStep` or gone from what is
left (`Spent`), and what the holder of totpMu has read is still right, but for a reset from the command line
(`StillRight`). `LogoutEnds` (`LogoutRevokes`), unless `"slow_logout"`: logouts that have not written yet have read the same
generation, and the generation each will reach is past every cookie a logout ends (`LogoutsPass`). `ClaimedOnce`
(`OneClaim`), unless `"command_and_form"`: without a password there is no name, no claim and no command under way
(`Claimed`). `TypeCorrect` says also that the generation remembered is never ahead of the stored one, and so
needs the assumption of `LogoutEnds`.

`PanelMoveProofs`, for any names and any numbers of changes, upgrades and faults. The argument is about
`ResolveDomains`, what the panel *would* come up on at every moment. `TypeCorrect` (`TypeOK`) holds under every
circumstance. `ChangeHolds` (`ChangeSticks`): the disk resolves to the names last asked for, panel.env says what
the unit says or what was asked for, and a process that is not about to restart has what the disk has but for
`MoveHostFrom`, which `FinishDomainMove` clears (`Sticks`). It assumes `InTurn`: none of `at_once`, `before_restart`, `leaves_out`,
`env_behind`, `after_upgrade`, `start_unread`, `finish_unread`, each of which is described above as losing
a change; reads may fail otherwise, when they would have said what the process knows, and so may every other
step of the finisher. `RereadTyped` is the lemma that what is read over other names is names again. `NamesKeepWorking` (`KeepsItsJob`): every
name in use is served both by what the disk resolves to and by what runs (`KeepsNames`), where names in use
include one the node has tried and not written yet; and a panel that is about to restart and leave names has the
node on the one that stays, which needs `NodeSteady`, how the node's memory, file and connection agree. It
assumes `Considerate`: no circumstance but `same_process` and `relink_fails`, which the run excludes and this theorem
does not.

`NodeConfigsProofs`, for any nodes, addresses, names, ports, hop ranges and bounds, from `ConfigAssumption`; the
rows it starts with are those of `Init`, what calls make of them is not bounded. `IInv` is what `TypeOK`
lacks to be inductive: sets of rows are finite, no inbound is relayed by its own node, an exit names a node there
has been. `TypeCorrect` (`TypeOK`) rests on `FreeNumberFacts`: `FreeNumber` finds a number that is not taken, and
the n-th one is not the m-th; `RetaggedFacts` makes of it that the inbounds of a renamed node get tags no one has.
`RangesStayApart` (`HopsApart`) comes from `Edited`: every call keeps the ports of each
row or has checked the one it writes. `NoneUntold` (`NobodyUntold`) is one lemma per call over `SameConfig`, which
says on which rows a configuration depends; `BothEndsAgree` (`ForwardsMeet`) then follows from the state alone.
`TypeCorrect` and `RangesStayApart` hold under every circumstance, the other
two unless `"exit_nodes"` or `"reused_id"`, which are described under *What the runs found*.

`AddressLimitProofs`, for any users, addresses, limits, numbers of unlock rules, calls and faults, and under either
circumstance: `RulesKeepStanding` (`RulesStand`). What makes `setBlocks` right is that a call fails either because
Xray is gone, and its rules with it, or because the deadline has passed, and then every later call of the poll fails
too. So a limit rule is added only when no unlock rule stands (`Whereabouts`, at `"block"`). Putting back may stop at the
first unlock rule that is refused, because the rules not taken out are the last ones (`LastLeft`) even if a
removal that missed its deadline is carried out. `Removed` and `Added` say what Xray's two calls do to the list;
`Ranks`, that the elements of a finite set of numbers can be counted off in order, is what `Removed` rests on.

`PlacesKept` (`KeepsPlace`) has an invariant of its own (`PInv`): a user's addresses are remembered once each. Refreshing
leaves every address at its position, not older (`RefreshedFacts`); dropping leaves those that stay in their order, so at
the same position or an earlier one (`DroppedFacts`). An address within the limit is therefore within it afterwards
and, being remembered once, nowhere beyond it (`Enforced`). Limits may change and users be forgotten
between any two polls.

Each of these invariants was checked by TLC on the instance of its run before it was proved.

Only model-checked: `StatsReport` under any circumstance, all of `Accounts` so far, and everything about
liveness (TLAPS does not reason about fairness).

## Not modelled

The components of the inventory the plan has not reached are listed with their
status and reason in `PROJECT.json`. Left out for good: rendering of
subscriptions and pages, parsing of forms, schema migration, certificate
issuance, the installers, logging. Within the modules that exist: several users
and nodes (every operation treats them alike; `StatsReport` and `HubPush` say
why one stands for all), the online report, the daily history and the monthly traffic of nodes,
the real calendar; calls of the service that overlap (`NodeConfigs`), the rate limiter,
CSRF tokens and the expiry of cookies (`Login`), nodes without an environment file and units
edited by hand (`PanelMove`), and addresses seen by an Xray that is hanging (`AddressLimit`).
