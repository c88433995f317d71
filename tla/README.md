# smokeng: models and proofs

TLA+ models of smokeng, the latency monitor in this repository: TLC checks them
on small instances, TLAPS proves the results that should hold for every size.
Paths below are relative to the repository; `file.go:12` is a line of it.

    tlc  -workers 2 -config MCAgentDelivery.cfg MCAgentDelivery.tla
    tlapm AgentDeliveryProofs.tla

`PROJECT.json` says which configuration belongs to which module and what each
run is for, maps every definition to the lines it stands for, and lists the
hazards of the code at their lines with the properties that watch them.

- [1. The system](#1-the-system)
- [2. The models](#2-the-models)
- [3. The runs, their bounds and what they show](#3-the-runs-their-bounds-and-what-they-show)
- [4. Fairness](#4-fairness)
- [5. What is proved](#5-what-is-proved)
- [6. Disagreements between the code and what it says](#6-disagreements-between-the-code-and-what-it-says)
- [7. What is not modelled](#7-what-is-not-modelled)
- [8. Plan](#8-plan)

## 1. The system

One master process serves the API and the web interface, keeps everything in one
SQLite database, and probes the targets assigned to `local`. Remote agents run
the same prober against a database of their own and push what they measure.

| component | state it keeps | operations | talks to |
|---|---|---|---|
| **probe engine** `internal/probe/engine.go` | running loops by target, sockets by family and DSCP, a bounded channel of results | `reload` every 30 s, `runTarget` per target, a goroutine per finished bucket, `writer`, teardown | tree (read), sockets, store (write), alert manager (`Observe`, `Reload`) |
| **ping sockets** `internal/probe/socket.go` | sequence number, transmit counter, tables from both to pings | `send`, `recvLoop`, `errQueueLoop`, `forget`, `close` | kernel; collectors |
| **collector** `internal/probe/scheduler.go` | per ping: sent, received, kernel stamps, errors | `markSent`, `onRX`, `onTXKernel`, `onICMPError`, `finalize` | engine |
| **alert evaluation** `internal/alert/alert.go` | streak, firing, since, acknowledgement per (rule, target, agent) | `Evaluate` | manager |
| **alert manager** `internal/alert/manager.go` | rules by target, states, silences, in memory and in the database | `Observe`, `Reload`, `Repeat`, `Acknowledge`, `AddSilence`, `RemoveSilence` | store, delivery queue |
| **delivery queue** `internal/alert/notify.go` | bounded channel, counters | `Notify`, worker, `Close` | webhook |
| **agent** `internal/agent/agent.go` | its database as an outbox, a mirror of its targets | `pull`, `mirror`, `push`, `Drain` | master over HTTP |
| **ingest** `internal/api/ingest.go` | decode slots | `handleIngest`, `handleAgentPaths`, `handleAgentTargets` | admission, wire, store |
| **admission** `internal/ingest/sign.go`, `limit.go` | nonces seen, request budgets per agent | `Check`, `admit` | store (keys) |
| **wire format** `internal/ingest/batch.go`, `frame.go`, `internal/store/enc` | none | screen, decode, check rows; encode and decode blobs | ingest, store |
| **enrolment** `internal/store/enrol.go`, `internal/agent/enrol.go` | one-use tokens, agents; the id a host saved | mint, redeem, revoke, add, rename, disable, remove | store |
| **target tree** `internal/tree` | none: a checked snapshot of rows | `New`, `Resolve`, `Path` | everything that reads targets |
| **target transactions** `internal/store/targets_tx.go`, `internal/api/targets.go` | targets, counters of ids, grants | create, update, move, delete | tree, scope |
| **limits** `internal/tree/limits.go` | none: what the tree may cost, compared before and after | `CheckLimits`, `CheckTreeLimits` with every change | target transactions, import |
| **authorisation** `internal/auth`, `internal/api/scope.go` | cookies of logins under way and of sessions; grants | login, callback, logout, a scope per request | identity provider, store, tree |
| **import** `internal/config` | none | `Apply`: read, plan, check, write row by row, delete; SmokePing's files converted | store |
| **retention** `cmd/smokeng/retention.go` | none | prune in slices | store |
| **resolver cache** `internal/probe/dnscache` | last answer per name | `Lookup`, background refresh | resolver |
| **path tracing** `internal/probe/trace`, `runTracer` | last path per target | trace, record if changed | store |
| **shape metrics, series, reports** | buffers and baselines; none | pure computation over samples | manager, API |
| **API, metrics, web interface** | counters | routing, rendering | browser |

### Where it is hard, and what makes each part correct

*Delivery.* A row lives in the agent's outbox until the master has answered for
it. Requests are lost, late, or handled twice; either side may die between any
two steps; the agent's clock may be ahead; a target may be unassigned in between;
a row may be measured twice with other contents after a restart. Correct means:
no row disappears from both sides, what is deleted was settled, what the master
holds is never rewritten nor from its future, no row blocks the others unless a
batch is too large to be read, and a clean shutdown leaves nothing behind.

*Alerting.* The streak-and-flag state of a rule has to mean what the
documentation says in terms of the series: so many bad intervals in a row, gaps
not bridged. Around it, a writer, a reload, a repeat and an operator's calls
share memory under a lock they let go of before every database call. Correct
means: no evaluation is lost to a reload, nor to a restart unless its save failed,
every transition is in the log unless its insert failed, an alert firing outside a
silence is logged and announced in the end, an acknowledgement is of one episode.
Those calls fail and are only reported, so what else a failure may cost is part of
the question.

*Delivery queue.* Bounded, many producers, one consumer, closed with a grace
period: nothing is lost unaccounted, order holds, closing ends.

*Engine.* Loops are cancelled, not awaited, when settings change; panics end one
loop; buckets outlive loops; teardown has to happen in the one order that loses
nothing and closes nothing still in use.

*Sockets.* Sequence numbers and counters are used again; replies may be late or
doubled; kernel stamps are matched by two counters kept apart, across a send that
is not under the lock. Correct means: a ping never gets another's reply or stamp,
and the end of a bucket takes only its own entries with it.

*Tree.* Everybody reads the whole tree and refuses one that is not well formed, so
a single bad write stops everything. Requests are serialised with their checks;
an import is not. Limits on what a target and the whole tree may cost came after
trees that exceed them, so they hold a change only to what it makes worse:
correct means that no sequence of edits ends above a limit and above the start.

*Mirror.* An agent writes the master's tree, flattened, into its own, row by row,
while targets are moved, renamed, assigned and unassigned, and pulls fail. Two
paths may become one name, which the schema refuses. Correct means: in the end the
agent probes what it is assigned and nothing else; and a pull that stops half way has
stopped nothing that is still wanted.

*Enrolment and admission.* A token is redeemed over a network that loses answers, by
a host that may die before it has saved its id; agents are removed while their
rows are on the way. Correct means: one token, one agent; one id, one host, for
ever. A signed request may be repeated by the network while the clocks differ, the
cache is swept and handlers overlap. Correct means: it is let in once.

*Paths.* A tracer compares with the last path recorded and records in two steps, and
may be replaced by another in between; the agent sends what is not confirmed and
forgets all but the latest. Correct means: every mark on the master is a change of
the route, and the last one is the route.

*History.* Rows and their extra series are in two tables, replaced live, written late
by agents, pruned in slices by a sweep that goes by settings it read at its start,
and read in two statements. Correct means: a series is of the row it lies beside,
no slice reaches into what is kept, and what is past the horizon goes, once the tree
can be read and as long as its target has a host.

*Buckets.* A lookup before the first ping that may take seconds, send times by two
modes, two clocks, a wall clock that is stepped, a timeout that may pass the interval's
end, an end that is fixed beforehand, a shutdown in the middle. Correct means: a
measurement is what happened, or says it may not be.

*A batch.* One damaged or impossible row must neither stop the other rows nor be
refused by the database for ever after the master has let it in.

*Access.* Sessions outlive changes to groups, grants and the tree; several logins run
in several tabs. Correct means: what a request may do is warranted when it is made.

*Resolver cache.* Expired addresses are served while one goroutine refreshes them, and
first lookups race. Correct means: none is served for longer than a query takes.

*SmokePing's files.* Included files, continued values, sections and depths decide which
host a line belongs to. Correct means: each arrives or is warned about.

## 2. The models

| module | what it models | against |
|---|---|---|
| `Delivery` | what delivery promises: a row, once measured, is buffered or settled, and what is stored stays | - |
| `AgentDelivery` | the engine's results and writer, the outbox, the push loop, HTTP, the master's handlers, both processes' failures | implements `Delivery` with `buffered <- outbox` |
| `AgentMirror` | an agent's pull of its targets into its own tree | the master's tree |
| `PathLog` | tracers, the agent's path table, its pushes, the master's log | the route |
| `Enrolment` | tokens, agents, the ids hosts save, submissions under them | - |
| `Admission` | skew, nonces, sweeps, budgets | a list of all verdicts |
| `WireBatch` | a submission's messages and rows to blobs and back | what was sent |
| `AlertState` | one rule's state and `EvaluateValue`, as operators | used by the next two |
| `Hysteresis` | one rule over one series, with the whole history beside it | reference: the history alone |
| `AlertManager` | the manager's goroutines, memory and database | `states` against a copy advanced by measurements alone |
| `DeliveryQueue` | `Queue` of `notify.go` | - |
| `ProbeEngine` | the engine inside the server | - |
| `Bucket` | one bucket: send times, stamps, clock steps, truncation, the measurement | what happened to each ping |
| `PingSocket` | one socket, the pings of several collectors, the kernel's counter | - |
| `ResolverCache` | the cache for one name and family | - |
| `Trees` | rows that name their parents: what is above one, where its settings come from | used by the next two |
| `TargetTree` | rows of targets, requests and imports over them, grants | - |
| `TreeLimits` | changes held to the limits, legacy trees | the tree before the limits |
| `Access` | logins, sessions, groups, grants, scopes | the provider, grants and tree as they are |
| `SmokePing` | reading, parsing and converting an installation | its host lines |
| `History` | measurements and series, writers, a reader, the sweep | the strictest retention since the sweep began |
| `MCServices`, `MCParts`, `MCProbing` | modules that share nothing, one of which runs in each behaviour | - |

A module named `MC...` gives a module its instance for TLC; `...Proofs` holds
theorems about it: `ReadingProofs` those about `Hysteresis`, `WireBatch` and `SmokePing`,
`ServiceProofs` those about `History`, `PathLog`, `DeliveryQueue` and `AgentMirror`, `PartProofs` those about `Admission`, `ResolverCache`, `Enrolment`,
`Access` and `Bucket`, `TargetTreeProofs` those about `TargetTree` and `TreeLimits`. `MCServices`, `MCParts` and `MCProbing` put
modules that look at no common state side by side: a variable chosen at the start says which of them runs, and the
others stand still. The states are the sum of the modules' states, not their
product, and each module's properties are checked as if it ran alone.

**Reading `AgentDelivery` against the code.** `results` and `Flush` are
`engine.go`'s channel and writer; `outbox` is the agent's `measurements` with
`submitted = 0`. The push loop's `pc` is the position in `pushMeasurements`
(`agent.go:294-358`): `loop` reads the pending rows and sends, `sent` waits,
`confirmed` and `discarding` clear the outbox after 200 and after 400. A request
given up on stays in `net` and may still be handled: that is what makes duplicates.
A handler is a record that moves through decode slot, row checks (`CheckRows`,
against the assignment and the clock) and `Ingest`, one transaction in which the
first write wins. `Crash` and `MasterRestart` drop what is in memory. `ahead` is
how far the agent's clock leads; `decodes` whether the master's build understands
the batches of this agent's. A row of an interval in `Bulky` has many samples, and of
those no more than `MaxBulky` fit into a body: a batch with more is answered 401, by the
limit and not by the signature (`TooLarge`; `ingest.go:33-37`), and the agent, which
drops nothing but what is answered 400 or 200, sends it again (`agent.go:341`). The legal
settings reach that: a row may have 1000 samples of 4 bytes, for IRTT with three
series of as many, and 2000 such rows are several times the 8 MiB. That the buffer cannot be read
or a batch not encoded or signed (`PrepareFails`) passes in the model, by the bound on
faults; a row that damage to the disk has made unreadable blocks the outbox as a batch
too large does.

**`Hysteresis` and `AlertManager`.** A measurement is reduced to `match`, `miss`
or `unusable` (no replies, or not trusted); a threshold and its operator are what
decides between the first two and play no other part. In the manager a goroutine's
record has a `pc` for each stretch between two database calls: the observer
evaluates under the lock, then saves, then records, then filters by silences, then
posts. A reload reads rules, states and silences one by one and installs them in a
last step. `live` advances with measurements only: a reload that loses or revives
something would make `states` differ from it. Every save, insert, read and post may
fail (`Fault`), as does a save with a deleted rule in it, by its foreign key, and the
code goes on: `unsaved` are the rules whose last save failed, `dropped` the transitions
whose last insert did. A failure passes: a tree that `tree.New` refuses for good
would stop reloads for good, which no property speaks of. A receiver is taken to be
configured.

**`DeliveryQueue`.** `Notify`'s two `select`s are two steps (`Put`, `Evict`), and
between them other producers and the worker may act, as they may in Go.

**`ProbeEngine`.** A loop is a record with the target, the settings it was started
with, whether it was cancelled and where it stands; a `finalizer` is the goroutine
of one bucket. `Signal` cancels everything; the engine's own `pc` goes through
the teardown of `engine.go:106-124`.

**`PingSocket`.** `Allocate` is the locked part of `send`, `Transmit` and
`SendFails` what the kernel does, `Latch` the return. Kernel stamps carry the
kernel's `tskey`; the code's counter is matched to it. Time is the order of
events: a stamp fits a ping when it lies between its `markSent` and its reply, which
is the check `finalize` makes (`scheduler.go:353-372`).

**`Trees`, `TargetTree`.** A table of rows, not a tree. What is above a row is the least
set with the row in it that holds its members' parents (`Above`), which is what walking
up from parent to parent ends with, cycles included, and can be reasoned about. A
row's path (`PathOf`) is the names of what is above it, by depth; an import finds rows
by path (`ByPath`) and gives those it adds synthetic ids for the check, others when they
are written (`Synthetic`, `LaidOut`). `IsTree` is `tree.New` in named
parts (`OneRoot`, `RootIsComplete`, `ReachesRoot`, `SiblingsDiffer`, `Fits`), and
`Constraints` what the schema refuses by itself. Two settings stand for all:
the interval and the load (pings times gap), which has to fit. A request reads,
checks and writes in one step, because `ChangeTargets` holds the write lock over
all three; the scope is computed from the same rows. An import is many steps:
`StartImport` reads, plans and checks, `WriteRow` and `DeleteRow` each write one
row in a transaction, and anything may come in between. The file in the instance
has no rules, grants or groups of its own. `TreeAssumption` says what the schema and
the parser see to: the initial rows are numbered from zero, a path of the file is a
sequence of names, and not an empty one.

**`AgentMirror`.** The master's tree is a function from ids to a path and whether the
target is this agent's; `pull.names` is the answer to one `pull`, taken at one moment
and written row by row (`MirrorRow`), then the rest disabled one by one. A row whose
name is another's fails the pull, as the `UNIQUE` constraint does. `NameClash` is
the situation in which that happens; see finding 5. `DisableRow` writes a row as it was
read and does not ask whether its name is free; that it always is belongs to
`PullsKeepTheirAnswer`.

**`PathLog`.** A tracer is `Trace`, `Compare` and `RecordPath`, with anything in
between; there are two, the one in force and one it replaced. Rows are numbered by
their second, and the numbers rise: a wall clock that is set back (`engine.go:636`) is
not covered. `lost` says that the master dropped a change (a target unassigned),
after which nothing can be promised. What the two properties say of a route is
subject to the bound on traces.

**`Enrolment`.** A host stands for its key. `madeBy` and `keptAs` are ghosts: which
agent each token made, and which host measured what is stored under each id.

**`Admission`.** A handler's reading of the clock may be `Late` ticks old when it gets
the cache's lock, as it reads the time before it checks the signature. `verdicts` is a ghost.

**`WireBatch`.** The rows are enumerated in the instance (`Streams`), the widths of the
integers are the constant `Wrap`, twice what a sample may be at least, and a blob read back
may have been damaged. A list put in order is one of its rearrangements that ascends
(`Sorted`), whichever way `slices.Sort` comes to it. The sums of a blob are a recursive
function, in a word that begins at zero or, for a series of differences, at half of `Wrap`
below it (`DecodeBlob`).

**`Bucket`.** Every reading of the clock is a pair, wall and monotonic; a kernel stamp
has only the first. A bucket begins with the lookup of the address (`AddressKnown`,
`engine.go:345-390`), which may outlast the time of any ping and the bucket; the collector,
and with it its first reading of the clocks, is made after. A sleep is set by the wall
clock when it begins and is over at once if its time is past (`Alarm`, `sleepUntil`), so
pings held up are sent together, and the end, `FinalizeAt`, does not move with them. The
wall clock is stepped and slewed between any two ticks. A burst has to fit into its
interval, as `validateTiming` asks (`Timed`), a timeout need not. ICMP errors, which
only say why a ping was lost (`onICMPError`), are left out.

**`TreeLimits`.** A tree is a table of rows again, with the settings a load is made of;
what a request makes has to pass `tree.New` (`IsPlanned`) and the limits. A target's
pings are counted over `PerTicks`, so that shares and rates are whole numbers and the
comparisons those of the code's fractions; `legacy` is the tree as the limits found it.

**`Access`.** A login is the number of its state, nonce and verifier; cookies are per
browser. `held` is a ghost: when each user last had each group.

**`SmokePing`.** A file is a sequence of lines, each a record of its kind; reading,
parsing by lines and conversion follow `smokeping.go` in that order. `branch` is the
parser's `stack`; a node is put down when the next begins (`Completed`, the code's
`flush`). What a value and its continuation come to (`Joined`), and the name of a node's
second target (`Second`, the code's `-v6`), are constants; of the latter only that two
names never get one second name is assumed. `told` is a ghost: what each line said of
the node it stands under.

**`History`.** A cell of `table` is the number of the write its row is of, and
`seriesOf` the same of its series, so a series of another write is seen. `strictest`
is a ghost: the shortest horizon in force since the sweep listed its targets. A sweep may
fail to list the targets (`ListFails`), finds no tree while `unsound`, which is what an
import cut short leaves (finding 4; `ImportEnds`), and leaves out a target whose host a
patch took away (`SetHost`, `hosted`; `retention.go:54`). Its rows stay, whatever its retention says,
until it has a host again; and as long as the stored rows are no tree nothing is pruned.

**`ResolverCache`.** `queries` are the resolutions under way; one by a first lookup
carries its caller, the refresh is `Refresher`. `demand` is a ghost: the first
lookup that found the entry expired and has not been answered by a refresh.

## 3. The runs, their bounds and what they show

| run | checks | bounds, and why they suffice |
|---|---|---|
| `delivery` | `NothingVanishes`, `CleanShutdownLeavesNothing`, `StoredNotFromTheFuture`, and that it implements `Delivery` (`PromiseKept`) | two keys, two contents, batches of one row, all of which fit, one decode slot, two requests at a time, one failure of any kind, a clock right or ahead. Two requests make the late duplicate and the full decode slot happen; two contents the rewritten row; batches of one the loop's second round. About 1.3 million states under symmetry of nonces and contents |
| `services` | of `AgentDelivery`: `OutboxDrains`; of the queue: `OnlyTheOldestGoes`, `CloseReturns`; of the mirror: `MirrorConverges`, `PullsKeepTheirAnswer`; of the paths: `MarksAreChanges`, `MasterLearnsThePath`; of the history: `SeriesAreOfTheirRow`, `NothingYoungIsPruned`, `SweepsCatchUp` | delivery as above with one content, no clock ahead, and of the two rows one whose batch is too large; two producers with a batch more than the queue holds; three targets of three paths of which two come to one name, four edits and a lost pull; two routes, three changes of them, four traces, two failures; one target, two writers, a slice longer than the horizon, one of: an edit of it, a host taken away, a tree made unsound; a failed listing, slice or restart |
| `parts` | `FiresByTheHistory`, `AckMutesOneEpisode`; `EditsKeepTheTree`, `ImportReachesTheFile`, `EditorKeepsToScope`; `AnAgentIsOneHost`; `AdmittedOnce`; `ExpiredIsRefreshed`; `AccessIsWarranted`; `OnlyLegacyExceeds`; `ARowCostsItself`; `HostsAreAccountedFor` | histories of five measurements at three times, so that a rule fires twice; a target under a target, two requests and one import that changes, keeps, creates and deletes; two hosts, tokens and agents; three checks of two requests, a cache that is swept while a nonce is in it and after; TTLs below, within and above the clamp, four lookups by two callers; two users, two groups, a move and an edit of a grant; three nodes over a limit and one to add; any two rows of any kind in a batch; every three lines behind two beginnings, with a file that includes the first |
| `alerts` | `ReloadLosesNoProgress`, `OnlyFailedInsertsAreMissing`, `RestartLosesNothing`, `FiringIsReannounced`, `SilencesConverge` | one rule, one silence (there from the start or not), three measurements, and at any steps of a reload, a repeat and a write any two of: an acknowledgement, an edit, a failed call, a crash |
| `engine` | `OneLoopPerTarget`, `SocketOutlivesItsUsers`, `ShutdownFlushes`, `TreeIsFollowed`, `SignalEndsIt` | one target (loops of different targets share nothing but socket, channel and writer), two settings, three loops, one edit, panic and failed write, one place in the channel |
| `sockets` | `ReplyFindsItsPing`, `ForgottenLeavesNothing`, `AloneStampsAreOwn`; of the bucket: `MeasuresWhatHappened` | three pings of two collectors with two sequence numbers, so one number is used twice; one failure of any kind. Two pings, a lookup of up to three ticks in a bucket of two and a timeout of one, so that both, one or none is held up, past its time or past the interval, and a step of the clock, as large as slew can hide, between any two of the stamps; in spread mode only, the modes differing in send times alone and the theorem (section 5) holding for both |
| `alerts_acked`, `alerts_sync`, `sockets_stamp`, `tree_import`, `mirror`, `read` | what section 6 says | the fewest of everything that shows it |

Every run but the ones that are meant to find a violation ends with no error.
Deadlock is checked in `delivery` and `alerts`. It is not in `engine` (the process
exits), `sockets` (the socket is closed, or every ping and the bucket are done), `services` and
`parts`: a queue is closed for good, a batch and an import of files are done
once, and what goes on for ever in the code (edits, requests, the clock) meets its
bound in the model.

Each checked property is also shown to be able to fail: `PROJECT.json` names for
each of them a faulty variant of one definition (a dropped guard, a check left
out, a reset missing) under which TLC finds it violated. The variants stand next
to the definitions they vary.

The instances are small in the data; every action of a module is taken in some run, and
no bound keeps a guard or an error path of the modelled functions from being reached.
What a module leaves out of its functions is said with it in section 2 or in section 7.

## 4. Fairness

Only the runtime is taken to be fair, never the environment. Weak fairness is
given to what a running process does by itself: the push ticker, the client's
30 s timeout, goroutines that have something to do, the engine's and the
manager's tickers, a delivery that its own timeout ends. Nobody has to edit,
acknowledge, restart, or send a signal, and the network and disks need neither
fail nor work again except where a property says so in its premise:

- `OutboxDrains` assumes that restarts stop and that the clocks come to agree:
  every restart drops the request in flight, and a request outside the skew is
  turned away with its rows still wanted. That requests arrive in the end
  (`RequestArrives`) is the least a network can do for anything to be delivered;
  losses are bounded by the number of failures. Where the batch that is next is too
  large nothing is promised (`Wedged`): the code sends it for ever.
- `FiringIsReannounced` assumes that the alert fires and no silence covers it
  from some point on.
- `SilencesConverge` rests on the bound on edits: operators stop.
- `CloseReturns`, `SignalEndsIt` assume nothing beyond the runtime.
- `MirrorConverges` has the agent's pull go on (`MirrorFairness`); pulls are lost as
  often as the bound says, and edits of the tree stop with theirs.
- `MasterLearnsThePath` has the tracer in force trace and the push loop push
  (`PathFairness`), each by its timer; the replaced tracer is owed nothing. The
  property lets the bound on traces off.
- `SweepsCatchUp` has the sweep go on (`HistoryFairness`): a single loop on a timer,
  which no failure ends. It assumes that the stored rows come to be a tree again, and
  speaks of the targets that have a host.

In `MCServices` the same conditions are stated once more with the service that runs,
so that a module standing still is not asked to step.

## 5. What is proved

For every value of the constants, under the named `ASSUME` of the module:

| theorem | says |
|---|---|
| `AgentDeliveryProofs!TypeCorrect` | `AgentDelivery` keeps its types |
| `!NoRowVanishes`, `!ForgetsOnlySettled`, `!CleanShutdown` | the three safety invariants of delivery |
| `!HistoryStands`, `!NothingFromTheFuture` | what the master stored is never rewritten, and is of no interval its clock has not reached |
| `!Implements` | `AgentDelivery` implements `Delivery` |
| `ReadingProofs!TypeCorrect`, `!FiringIsOfTheHistory`, `!AckIsOfOneEpisode` | a rule fires exactly by the history; an acknowledgement mutes the episode it was given for only |
| `!RowsCostThemselves` | rows that can be are stored and read back as sent, whatever the others of the batch are; a damaged blob is an error or a distribution |
| `!HostsArrive` | a host of an installation arrives as it was described, with the probe said nearest above it, or is warned about |
| `PingSocketProofs!RepliesAreOnlyOwn`, `!NoReplyIsLost`, `!RepliesFindTheirPings`, `!NothingIsLeft` | a ping records its own reply only; no reply read in time is lost; both; a forgotten bucket leaves nothing |
| `!AloneAreTimedByTheirOwn` | a ping whose send no other overlapped is timed by its own transmit stamp or by none |
| `ProbeEngineProofs!OneLoopMeasures`, `!SocketsOutlive`, `!NothingLeftInThePipeline` | one goroutine measures a target; sockets outlive their users; the teardown leaves nothing, and rules see what was stored, all of it |
| `AlertManagerProofs!TransitionsAreLogged`, `!ReloadKeepsProgress`, `!RestartsResume` | no transition is missing from the log but by the failure of its own insert; a reload changes no rule's standing; a restart resumes every rule where it stood, but where the last save of it failed |
| `TargetTreeProofs!TreeIsKept`, `!ImportsReachTheFile`, `!EditorsKeepToScope` | a request leaves a tree, and so does an import nothing came between; such an import makes of the tree what the file says; an editor touches nothing outside its grants |
| `!OnlyTheLegacyExceeds` | whatever is past a limit was there before the limit, and at least as bad |
| `PartProofs!RequestsAreAdmittedOnce` | a signed request is let in once |
| `!TheExpiredIsRefreshed` | an expired address is replaced, or that has failed, within one query |
| `!AgentsStayOneHost` | a token makes one agent, an id is one host's |
| `!AccessStaysWarranted` | what a session may do is warranted by groups, grants and tree |
| `!BucketsMeasureWhatHappened` | a measurement is what happened to the pings, or says that the clock was stepped, whatever the clock, the lookup and the shutdown do; of losses, where the lookup did not outlast the interval |
| `ServiceProofs!SeriesBelongToTheirRows`, `!PruningSparesTheYoung` | a series is of its row; a slice takes only what every retention since the sweep began lets go |
| `!PathLogMarksAreChanges` | each row of the master's path log differs from the one before |
| `!QueueLosesOnlyTheOldest` | every batch is in the channel, in the worker's hands or counted, once, and in order |
| `!MirrorsKeepTheirAnswer` | a complete pull leaves what its answer said, no pull stops what is still wanted, no two rows have one name |

**Delivery.** `NothingVanishes` is not inductive: that clearing the outbox is safe
rests on the answer being justified, which rests on what the handler held. The
invariant `DeliveryInv` adds four parts: `SafeToForget` (what the push loop is about to
delete is settled), `RowsWereWritten` (every row anywhere was once committed to the
outbox), `AnswersAreJustified` (a 200 or 400 in flight, on
the connection of the request waited on, means every row of that request is
settled), and `DrainIsAlone` (once the engine has flushed, the rows pending are
those of the last request or fewer). `Implements` maps `outbox` to `buffered`
and shows of every step that it is a step of `Delivery` or a stutter; it needs
`SafeToForget` where the outbox is cleared. `HorizonInv` adds to
`StoredNotFromTheFuture` that what a handler has kept is within the horizon still when
its transaction runs, which is later: the master's clock does not go back in the model.

**Hysteresis.** The promise is about runs in the history, the code keeps a number.
`StreakIsTheRun` links them: the streak is the length of the longest run that
ends the history and argues for the other state. From it and from `FiredAt`
growing with the history one measurement at a time (`FiredAtGrows`) the theorem
follows by cases on what the measurement does.

**Inductions.** The library's induction takes a predicate as its parameter, which the
provers cannot be given; its sets can. That a set with zero in it, and with each number the
next, is of all numbers (`AllNumbers`) follows from the well-founded order of the naturals,
by which every set of them has a least (`SetsHaveALeast`). With it the recursive functions of
the two models are shown to exist and to be what their definitions say (`SumsAre`,
`ProbesUpToAre`), and so what they compute is proved for inputs of any length.

**A batch.** `WireInv` says, by stage, what has become of the rows before the cursor: each
that is kept is taken at its rank among the kept (`KeptAreTaken`), none behind the cursor
refuses the batch (`NoneRefuses`), and what was counted and reserved is what was opened
(`RowsAreCounted`). That nothing which was taken fails to encode is that any list can be put in order
(`SortedIsInOrder`, by inserting one more, `OneMoreIsInserted`); that it reads back so is
`EncodedIsReadBack`, and of damaged blobs `DecodedIsADistribution`, for which a sum
that passed the check must not have wrapped (`WithinTheWord`: this is where a word holds twice
the greatest sample).

**SmokePing's files.** The property compares the result with the lines, the parser
keeps a stack and a list. `ImportInv` links them: the branch is one (each node's path is the
start of the next one's, `BranchIsOne`) and all of it but its end is put down
(`AboveAreNodes`), a parent comes before its nodes (`ParentsComeFirst`), what a node
has for a key was told of it and the reverse (`KeysAreTold`, `ToldAreKeys`, `TopIsTold`), and
the nodes converted so far have arrived and are left alone by those that follow
(`NodesAreHandled`; `ConvertKeeps` is where the exception for second names is needed, and
`SecondsDiffer` for the rest). That the probe worked out in the order of the file is the one
said nearest above (`ProbeIsTheOneSaid`) is an induction over depth: what a node does not
say comes down from its parent, by then worked out and not changed since (`ProbeComesDown`,
`SaidComesDown`).

**Sockets.** That no reply is lost is not inductive: it rests on `OutstandingHolds`,
by which a ping that is neither answered nor refused, and whose number no other
ping has had, still holds its entry in the table when its reply comes. That the
number allocated is one of the table's needs the least element of a set of
naturals (`LeastIsIn`). Stamps need an invariant of their own, `StampInv`. As long as the counters have not
drifted apart, and while no send is failing, the code's is ahead of the kernel's by just
the pings that have their number and are not yet in the kernel (`CountersAgree`, a
cardinality that each step of a send moves by one). A ping alone in its send is the only
one, so the kernel's next key is its counter (`AloneIsNext`), the key it gets is, and no
other stamp has it (`AloneHasItsKey`). Two sends that overlap are both marked
(`TwoOverlap`), which is what the exception is for.

**Engine.** `TeardownOrder` is the chain of the shutdown: the writer stops only when
the loops and finalizers have ended, flushes only when the channel is empty, and
the engine returns only then; `SocketsKnown` is what `connFor`'s check under the
lock gives, `EvidenceStored` that stored and evaluated differ by the batch in the
writer's hands. `OneLoopPerTarget` needs `MapNamesOwnLoops` (the map names, for a
target, one of its own loops); the step that takes work is the reload
(`ReloadStep`), which numbers the loops it starts.

**Alert manager.** `LogInv`: what is not in the log is in the observer's hands, and
only before it records, or its insert failed. `RestartInv`: what is in memory is stored,
or is in the writer's hands as memory has it (`InHandIsInMemory`), or was in a save that
failed (`StoredIsInMemory`), and what a reload has read of a rule memory does not know is
what is stored (`ReadIsStored`), so that installing it changes nothing. Failed saves
heal: the next that succeeds with the rule in it takes it out of `unsaved`. The run has
one rule, the theorem any number; all that changed together is saved in one transaction,
which the absence of one rule fails for all.

**Admission.** `Spent` says why what was admitted cannot be again: its nonce is in the
cache with the time it was let in; or that was longer ago than nonces are kept; or
its stamp was ahead by all that is allowed, less how late a handler is. A sweep
moves a request from the first to the second, and by the second a stamp in range
must be of the third (`Overdue`, where `2 * MaxSkew <= NonceTTL` is used). The
exception is thus exact: with handlers that are never late it is empty.

**Resolver cache.** That no first lookup undoes a refresh is the chain `FirstEndEarly`
(a lookup under way ends before the entry expires, as a query takes less than the
shortest TTL), `RefreshedIsExpired` and `RefreshesAlone`: while an entry is refreshed
nothing else is under way (`RefreshIsLast`). `DemandIsMet` names the query that
answers.

**History.** `SweepIsLenient`: whatever is still to be swept has a horizon at least as
long as the strictest since, a clock not ahead of the wall's, and a slice that ends
by the cutoff. That a slice has an end at all needs the least of a set of naturals
(`LeastIsIn`), as above.

**Tree.** What is above a node is a least set, so what the code does by walking up is
proved without an induction over data: a set of rows that has the root and every row
whose parent it has is all of a tree (`TreeInduction`), and from that follow that there
is no cycle (`NoCycles`), where a setting comes from (`OwnSetting`, `ParentsSetting`) and
that no two nodes have one path (`PathsDiffer`, by `OneAtEachDepth`). Rows that are
mapped into a tree so that parents and settings agree are a tree (`EmbeddedIsTree`):
that is how the plan, checked under synthetic ids, is one still under those the
database gives (`RelaidIsTree`). `TreeInv` is the types, that an import which nothing
has come between has the rows it began with, less what it deleted and with what it wrote
(`ImportUnderWay`: `Follows`, and `ImportOK` of its plan, whether or not anything came
between), that no deleted id is a row's again (`NothingComesBack`), and that the rows are a tree
unless an import is at work, was raced or was cut short (`AtRestATree`). What an editor
may not do follows from the step alone (`EditorsStep`): a request looks at its scope and
writes in one transaction.

**Limits.** A tree that passes `Worsens` against another that goes no further than the
legacy goes no further itself (`PassedGoesNoFurther`): being no worse is an order on
loads, and what is no worse than a load within the limits is within them
(`NoWorseIsAnOrder`), for a timeout because shares of an interval compare as the
fractions do (`LoadsAreNumbers`). A deletion, which the code does not check, leaves
every node that stays what was above it and all its settings (`LeftAsTheyWere`,
`PrunedSettings`), and of the pings a subset.

**Enrolment.** `TokensSpent` (a token that made an agent is spent, and made one), `OwnIds`
(an id a host saved, or that is on its way to it, is its own key's) and `Claimed` (what
is kept under an id, or admitted and about to be, is of one host, and of the one whose
key is there), on numbers that are never given twice (`Numbered`).

**Access.** What a request sees is computed from the session's claims and the grants and
tree of that moment; the invariant is about the cookies: the login a session or a state
is of began in that browser (`OwnLogins`), what the provider says is true of now
(`HeldNow`), and a session's groups were held no longer before its end than a session
lives (`HeldThen`).

**Buckets.** Each note of a ping is the reading of the clocks at its moment
(`PingsAreNoted`), and the wall clock's part of it is ahead by something between the
least and the most it has been since the collector's start (`ReadAt`). So any two of them
differ by the time between them give or take what the clock wandered, which
is why a sample holds however large the steps are. What a measurement without the
flag may have seen is in `ClockIsKnown`: no step, and the clock wandered no
more than slew allows; or one, which is then no larger than what `clockStepped` tolerates and the slew
that hides it, so the clock wandered by at most twice that. Two may undo each other, and of them the
property says nothing. That a ping counted as lost had its timeout needs the end of the bucket
to be a timeout after the last of the sends, which it is when the lookup was over by the interval's end
(`LookedUpInTime`).

**Paths.** `LatestKept` (the agent's table has its newest row), `NothingIsLost` (what was
recorded is the master's, or pending with the agent), `FromTheOldest` (what the master
has, it has from the first on) and `EachIsAChange`, of both tables together; a
submission on its way is of rows the table keeps (`BatchIsTheTable`).

**Delivery queue.** The channel is the tail of all that entered (`ChannelHoldsTheRest`),
each of which entered once (`EachEntersOnce`); what is before the tail is in the worker's
hands or counted (`WhatLeftIsCounted`), and from that follows the order
(`TakenInOrder`). Whoever dropped the last to enter has the next in hand
(`TheLastIsKept`); the worker goes only when nothing handed over before the close is left
(`WorkerLeavesNothing`).

**Mirror.** What a pull leaves follows from where it is: the agent's tree is the one it
read, but for the rows written as wanted (`Upserted`) and those disabled (`Disabled`).
With `NamesDiffer` that is inductive (`MirrorInv`): a row that is disabled was in the
tree when it was read, still has the name it had, and so takes nobody's.

*Model-checked only.* Liveness under fairness is out of the prover's reach:
`OutboxDrains`, `CloseReturns`, `MirrorConverges`, `MasterLearnsThePath`,
`SweepsCatchUp`, `FiringIsReannounced`, `SilencesConverge`, `TreeIsFollowed`,
`SignalEndsIt`. They have the runs' bounds. Every invariant and action property of a
passing run is a theorem.

## 6. Disagreements between the code and what it says

Six runs end in a violation, each of a sentence of the repository's:

1. `alerts_acked`: an acknowledgement is saved from a copy taken under the lock,
   after the lock is let go (`manager.go:376-379`). If the alert resolves and is
   saved first, the copy is written last; after a restart the alert fires again
   from the database, though `store/alerts.go:131-133` says it must not.
2. `alerts_sync`: `Repeat` delivers a list of what fired when it looked
   (`manager.go:286`); if the alert resolves and is announced in between, the
   receiver's last word is that it fires, though `docs/alerting.md:184` says that
   receivers "stay in sync".
3. `sockets_stamp`: two sends on one socket may reach the kernel in the other order
   than they took their counters, and each ping gets the other's transmit stamp.
   The bounds check said to catch drift "whatever caused it"
   (`scheduler.go:363-364`) does not: both stamps fit.
4. `tree_import`: an import validates the last tree and writes the ones before it
   (`config.go:410-422`). Shortening the root's interval along with the targets
   that need it leaves, after the first row, rows that `tree.New` refuses: for a
   moment, or for good if the import stops there.
5. `mirror`: `mirror` writes the assigned rows one by one and returns at the first the
   local schema refuses (`agent.go:264-266`), before the loop that disables the rest.
   Two paths of the master's that come to one name, or a name still held by a target
   that was unassigned, stop every pull at the same row, and "Anything no longer
   assigned stops being probed" (`agent.go:268`) does not come true.
6. `read`: a range is read in two statements with no transaction around both
   (`sqlite.go:557`, `601`). A row written with its series in between has its series
   read and itself not, and the read fails with "has no measurement", which the
   comment takes for "a broken invariant" (`sqlite.go:620-622`) that the database does
   not have.

Four more are known and have no run; the properties except them by name:

- An import of SmokePing's files in which a host is asked for on both families and
  another node has the name the second gets (`smokeping.go:521`, the path with `-v6`)
  keeps one of the two and warns of nothing, and so does one in which a node is begun
  twice with another host, though an import that "quietly loses configuration is worse
  than one that refuses it out loud" (`smokeping.go:39-40`). `HostsAreAccountedFor`
  excepts both (`ClashesByFamily`, `IsRepeated`).
- A batch of 2000 rows with enough samples is over the master's 8 MiB, is answered 401
  and is sent for ever, with everything behind it kept (`agent.go:341`), though the
  batch's size is said to be "Well below the master's body limit" (`agent.go:62`) and the
  limit "orders of magnitude above any honest agent" (`ingest.go:19-20`). `OutboxDrains`
  excepts it (`Wedged`); without the exception TLC shows the loop of push, 401 and push.
- Pings that a slow lookup held up past the interval are sent at once and, the end being
  fixed, counted as lost with less than their timeout (`engine.go:345`, `396`), though "A
  probe that was never given its full timeout has not been shown to be lost, so it is
  not counted as attempted" (`scheduler.go:117-121`). Nothing bounds the lookup but its
  queries' timeouts of five seconds each, and an interval may be shorter.
  `MeasuresWhatHappened` excepts it (`LookedUpInTime`).
- A target whose host was set to null keeps its rows for ever (`retention.go:54`), though
  the comment there means groups by it, which "hold no measurements of their own".
  `SweepsCatchUp` excepts it (`hosted`), and a tree that cannot be read.

## 7. What is not modelled

- Which of several rules on the way to the root applies (`NearestRuleNode`).
  `AlertManager` takes the answer, that a rule is overridden or disabled, as an edit, and
  keeps an alert that fires then firing (`manager.go:297`). Whether it should end
  nothing in the repository says: its hazard is listed with no property.
- Shape metrics and baselines (`internal/shape`, `alert/shape.go`): a divergence of two
  quantile functions, numerical work that a model on integers would only restate.
- Series, availability and reports: computations on what `History` keeps; they change
  no state.
- Other probes than ping (DNS, TCP, HTTP, IRTT): one request and one answer each by way
  of a library, reported to the same collector.
- Routing, headers, rate limits on logins, metrics, the web interface: input and
  output, or counters nothing reads back.
- Wire and text formats: Arrow's layout is one Boolean, TOML's syntax, packets and
  control messages are reduced to the fields the code reads, signatures of requests
  and cookies are taken as unforgeable.
- Replies that answer no ping of this process (`socket.go:357-369` turns away those with a
  token that is not the ping's): a reply in `PingSocket` is to one of its pings.
- Migrations (DDL run once) and `synchronous=NORMAL`, with which a power cut can undo
  commits the master has answered for: the crash in the models is the process's, and
  with the machine's `NothingVanishes` would not hold.
- A shutdown of the HTTP server that outlasts its five seconds (`main.go:440` returns at
  once, before the engine's last flush): no property speaks of what it loses.

Within the modelled parts: rules and grants of an imported file, and the disabling of
what it leaves out, are not in `TargetTree`; the sending of a traceroute's probes is not
in `PathLog`, where a trace is the route at its time; the choice of a socket by its
DSCP value is not in `ProbeEngine`; names a viewer must not see in an answer are not in
`Access`.

## 8. Plan

1. *Done*: delivery; mirror; enrolment, admission, wire format; paths; alert evaluation,
   manager, queue; engine, buckets, sockets; resolver cache; tree, limits, requests and
   imports; access; history and retention; SmokePing's files. Proofs of what section 5
   lists.
2. Rule inheritance: rules on groups, `NearestRuleNode` and their overriding, composed
   with `AlertManager`'s reload, for the hazard at `manager.go:297`.
3. The shutdown past its deadline (`main.go:440`), with `ProbeEngine`.
4. Pure operators against references: percentiles, availability over intervals, columns
   of ranges.
5. Proofs: that `DeliveryQueue` is a bounded queue that drops its head, as a refinement.
