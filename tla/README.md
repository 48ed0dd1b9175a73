# A verification development for csb

`csb` stands up CUBRID HA clusters in containers, injects conditions into them,
moves roles between their nodes and keeps a record of what happened. This
directory holds TLA+ models of it, the TLC runs that check them on small
instances, and theorems that TLAPS checks for every instance.

Several `csb` processes may run against one cluster. There is no lock and no
daemon: the state of the system is what the containers do, what lies in the
nodes' directories on the host, and a few JSON files. Each command reads some of
it, acts on the nodes one `exec` at a time, and may be killed, or lose an `exec`
to its `--timeout`, between any two of them. Whatever it started in a container
runs on. That is where the models look.

## 1. Inventory

Paths are under `src/internal/`.

| Component | State it keeps | Operations | Hard behaviour | What makes it correct |
|---|---|---|---|---|
| **assembly** (`assembly/assembly.go`, `cli/cluster.go` `up`, `down`) | the databases in the nodes' directories; heartbeat, server role, broker of each node; nothing of its own | `CreateDB`, `Seed`, `StartHeartbeat`, `WaitServing`, `CompletePromotion`, `StartBroker`, `Down`, `State` | interrupted and overlapping builds; a heartbeat start that blocks on its peers; a promotion that stalls; roles read node by node | nothing starts on half a database; no live database is overwritten; a forced promotion loses nothing; `serving` means serving; every wait ends |
| **fault** (`fault/fault.go`, `cli/inspect.go`, `backend/driver.go` reachability) | `faults.json`; routes, rules, qdiscs, stopped processes, file modes in the nodes | `Partition`, `Lag`, `Contend`, `PingUnavailable`, `Quiesce`, `Resume`, `Clear` | partial failure between peers; kill between effect and record; lost update of `faults.json`; the same condition twice; pids that are stale | what is in force is on record; what is on record is in force; clearing one condition lifts no other; `clear` reverses all |
| **role change** (`cli/ha.go`) | none; a quiesce held across it | `takeMasterAway`, `completeStalled`, `promote`, `failback` | a heartbeat stop that outlives the wait for it; a promotion the engine leaves half way, judged by one exec and completed by another; a rejoin whose execs fail unnoticed | what is completed was safe; what is reported is true; a shut door is on record; a move ends |
| **rebuild, resync** (`assembly/rebuild.go`, `cli/inspect.go`, `inspect/diff.go`) | the slave's database, its backup, its copied log | `cmdHaResync`, `CompareTables`, `RebuildSlave`, `CopyActiveLog`, `cmdNodeStart` | cut off between removing the old database and restoring the new; a choice made on one reading, a repair on another; rows counted while they move | no database is removed before there is a whole backup; `rebuilt` is true; nobody is rebuilt without a difference; a rebuilt node joins |
| **record** (`record/*.go`) | `events.ndjson`, `offsets.json`, the document | `Append`, `Read`, `Harvest`, `SnapshotDescribe`, `Build` | crash between append and offsets; rotation; a line without its newline; two harvests; entries that arrive long after their time | each log line is recorded once and none is skipped; a role change is put down to the command before it |
| **scenario** (`cli/scenario.go`) | the run it is at, what failed | `validate`, `points`, `dispatchArgs`, `runStep`, `roleChangeWithin`, `met` | roles that move between two nodes' readings; an argv that means something else once the runner's flags are in it; failures half way through a sweep | a green result is true; a sweep is whole; nothing is left standing; the evidence is kept |
| **cluster life** (`cli/cluster.go` `create`, `destroy`) | containers, network, directories, `describe.json` | `cmdClusterCreate`, `createFrom`, `standUp`, `destroyOne`, `destroyByLabel` | failure between any two steps; two backends; `destroy` without `--purge` and `create` again | what destroy says it removed is gone; a label reaches only what was given it; the record carries the topology that stood |
| **topology** (`topology/`, `cli/cluster.go` `fromArtifact`) | none | `Resolve`, `PerNode`, `SpellPerNode`, `ParseCTPConf`, `CTPSets` | values per node, artifacts of an earlier csb, renames | what is built is what an engine can be started with |
| **inspect** (`inspect/inspect.go`) | none | `Read`, `Serving`, `Check` | roles read node by node | - |
| **selector** (`selector/`), **watch** (`cli/watch.go`) | none; the last samples | the grammar; `stageTrack.observe` | - | - |
| **run, backend, store, CLI** (`run/`, `backend/`, `store/`, `cli/app.go`, ...) | none | argument vectors, `--timeout`, output | an expired `--timeout` reads as an exit status of -1 | - |

How they interact: every command goes through `app.go`'s `dispatch`, which sets
the `--timeout` all execs are bound to. `create` ends in `assembly.Up`; `up` is
`assembly.Up` again. `failback` and `resync` quiesce the cluster through `fault`,
so `faults.json` ties them to `clear` and `resume`. `resync` and a scenario's
role changes call into assembly. The record reads `faults.json` to say what was
in force, and `harvest` reads the logs the nodes write to the host. A scenario
is a list of commands given to the same `dispatch`, and ends in `record show`
and `cluster destroy`.

`PROJECT.json` lists the hazards, each at its line and with the properties that
guard against it.

## 2. Modules

| Module | Models | State | Builds on |
|---|---|---|---|
| `Stages` | what assembly promises: *defined, seeded, forming, serving*, one rung at a time | `stage` | - |
| `Assembly` | `up` and `down` of one cluster, by any number of processes | files of each database, createdb, heartbeat, server role, applier lag, broker; each process's place in `Up` | implements `Stages` |
| `Faults` | conditions, `clear`, `quiesce`, `resume` and `faults.json` | how often each effect is in force, pids, the file, each process's place | - |
| `Roles` | `ha promote` and `ha failback`, by any number of processes | heartbeat, server role, applier, broker and door of each node; whether a quiesce is on record; each process's command | - |
| `Resync` | `ha resync`, `RebuildSlave`, `CompareTables`, `node start`, and `cluster up` on what they leave | database, backup, server, heartbeat, applier's position, queue and failures of each node; each process's place in its command | - |
| `Scenario` | `scenario run`: a file refused, unrolled and walked | what the runner keeps; the clusters standing; the roles, and the role changes logged and recorded | - |
| `Topology` | what the options of a create, a CTP conf or an artifact become | - (operators) | - |
| `Record` | the record of a cluster and its harvest | entries, offsets, logs with rotation and partial lines, each reader's place | - |
| `Lifecycle` | create, create --from, up, destroy by name and label, record show and export | directories, artifacts, containers and networks on two backends, each process's command | composes `Record` and `Topology` |
| `MC_*` | values, scenes and constraints for TLC | | |
| `AssemblyProofs`, `FaultsProofs` and `BalanceProofs`, `RolesProofs`, `ResyncProofs`, `ScenarioProofs`, `RecordProofs` and `LifecycleProofs` | theorems | | |

### Assembly

`db[n][f]` is file `f` of the database in node `n`'s `/db`: `absent`, `open`
(createdb is writing it), `torn` (truncated, or copied while it was written) or
`good`. Files are in the order of `Seed`'s glob, which the code does not choose:
`<db>_lgat`, whose existence stands for "this node has the database" in
`CreateDB` and `Seed`, is in the middle, and `databases.txt` comes last. A
process `cli[c]` is where `Up` or `Down` is (`at`), its loop variables (`slot`,
`file`, `started`) and what `WaitServing` remembers (`seen`, `waiting`, `stuck`,
`blocked`).

| Code | Actions |
|---|---|
| `CreateDB` | `BeginUp` (stat, exec), `CreatedbWrites`, `CreatedbFinishes`, `CreatedbFails`, `CreatedbTimesOut` |
| `Seed`, `copyFile` | `SkipSeeded`, `BeginCopy`, `CopyFile`, `CopyFails`, `SeedDone` |
| `StartHeartbeat`, `startServers` | `StartHeartbeat` (one goroutine per node), `HeartbeatsJoined`, `startServers` |
| `WaitServing` | `PollNode`, then one of `PassServing`, `PassIdle`, `PassStalled` |
| `CompletePromotion` | `PromotionUnread`, `PromotionBlocked`, `PromotionSafe`, then `Changemode` in an exec of its own |
| `StartBroker`, `Down` | `StartBroker`, `Down`, a node at a time |
| `ctx.Deadline`, signals | `Late`, `Expire`, `Killed` |
| the engine | `GroupForms`, `Elect`, `Promote`, `Ship`, `Apply` |

`spoiled` is a history variable: a build was cut off (createdb killed, failed
with files left, timed out; a copy stopped at or after `<db>_lgat`) or a second
`up` began while one was building. The code detects neither; the theorems say
what it guarantees otherwise, and `assembly_resume` shows that it does not
guarantee it there.

### Faults

An *effect* is what one exec leaves in a node: `<<kind, node, argument>>`.
`force[e]` counts how often it is in force, because `iptables -A` twice needs
`-D` twice, while a second `ip route add` or `tc qdisc add` is refused and a
second `chmod` changes nothing. A *condition* is what `faults.json` lists: a kind
and the effects it named when it was entered. A verb is `Enter` (the read of
`faults.json`), an `Apply` per effect, `Add`, and the two halves of
`os.WriteFile`: `SaveTruncates`, `SaveWrites`. `Clear` and `Resume` are `Lift`
(the read), then `Keep` or `Reverse` for each condition with an `Undo` per
effect, then the same two halves.

| Code | Actions |
|---|---|
| `fault.Open` | `Enter`, `Lift`; `CannotOpen` when the file is cut short |
| `cmdFaultPartition`, `splitbrain`, `Partition`, `UnreachOn` | `Partition`, `Apply`, `ApplyRefused`, `ApplyFails` |
| `Lag`, `Contend`, `PingUnavailable`, `Quiesce` | the actions of those names, `ReadMode` and `ModeFails` for the `stat` of ping, `SuspendUnheeded` for `kill -STOP` |
| `s.add` | `Add`, `SaveTruncates`, `SaveWrites` |
| `Clear`, `Resume` | `Clear`, `Resume`, `Keep`, `Reverse`, `Undo`, `UndoFails`, `UndoDone` |
| kill, `node stop` and `start` | `Killed`, `Restart` |

`mishaps` is a history variable naming the ways record and world come apart in
the code as it is:

| Mishap | When |
|---|---|
| `refused` | an exec of a verb is refused after an earlier one has worked |
| `failed` | an exec is lost to the `--timeout` or a node that is down |
| `killed` | a verb is killed between effect and record, or anyone while writing |
| `halved` | a clear is killed half way, or a `kill -STOP` did not work: on record, not in force |
| `raced` | a list is written over one that another process has written since |
| `dropped` | a record is dropped with nothing reversed (a quiesce under `clear`) |
| `overwritten` | the mode recorded for ping is the broken one |

Each property names the mishaps under which it is still required; the findings
show that the excused ones do happen and what follows.

### Roles

`server[n]` is the state the heartbeat has registered `n`'s server in, `hb[n]`
its heartbeat: after a `heartbeat stop` it is `deactivated`, and a bare start is
refused until a `service stop` has taken it to `off`. `stopping` holds the nodes
in which a `heartbeat stop` is at work, since `takeMasterAway` sends it from a
goroutine and does not wait for it. A process `cli[c]` is where its command is,
with the locals of `cmdHaPromote` and `cmdHaFailback`: `target`, `current`
(`from`; 0 when a stalled promotion is only finished), the roles it has read in
this pass (`seen`, filled node by node), `stuck`. `clock` is `late` when `--wait`
has run out and `expired` when `--timeout` has.

| Code | Actions |
|---|---|
| the command line, `inspect.Read` | `Begin`, `ReadNode` |
| the checks before a move, `confirm` | `DecideNothing`, `DecideStalled`, `DecideMove`, `Confirm` |
| `takeMasterAway` | `TakeAway`, `IssueStop` (the goroutine), `WatchMoved`, `WatchStalled`, `WatchIdle` |
| `completeStalled`, `PromotionBlocker`, `CompletePromotion` | `Unanswered`, `Blocked`, `Unblocked`, then `Changemode` in an exec of its own |
| `Quiesce`, `Resume` | `Quiesce`, `Quiesced`, `Resume`, `Resumed`: an exec per node, then the record |
| `Injector.Start` on the old master | `ServiceStop`, `HeartbeatStart`, `BrokerStart` |
| the rest of failback | `OpenDoor`, `Verify`, `Insert`, `Select` |
| `--wait`, `--timeout`, a signal | `Late`, `Expire`, `Interrupted` |
| `node kill`, `node start` from elsewhere | `Kill`, `Start` |
| the engine | `Deactivate`, `Register`, `Elect`, `Promote`, `Ship`, `Apply` |

Its `mishaps` are `killed` and `returned` (a node was killed, or put back by
somebody else), `cut` (the process was killed, or lost its execs to
`--timeout`), `overlapped` (a command began while another, or a `heartbeat stop`
left behind, was at work) and `refused` (a quiesce met a broker that does not
run). `promote` and `failback` never ask whether the target is a standby: one
that is out of the group costs the group its only master, and `MoveFinishes`
is stated for a standby as the target.

### Resync

A database is `whole`, `torn`, `gone` (no `<db>_lgat`) or `fresh` (createdb's,
empty), with the tables and the rows it has. Rows have identities in the model so
that a property can speak of losing one; the code, and so every guard, can only
count them. `queue[n]` is what replication still has to bring to `n`,
`position[n]` whether `n`'s log has the page its applier resumes from.

| Code | Actions |
|---|---|
| the command line, `inspect.Read` | `Begin`, `ReadNode` (a node whose commands do not get through reads as one without a server) |
| `cmdHaResync`'s choice | `Choose`, `Path`, `Take`, `Judged` |
| `UserTables`, `CompareTables`, `CompareTable` | `List`, `CountMaster`, `CountSlave`, a table and a side at a time |
| `RebuildSlave` | `Stop`, `Prepare`, `Backup`, `Remove`, `Unlink`, `Fetch`, `Restore`, `Relog`, `Start` |
| the waits after a rebuild | `Back`, `Drain`, each over `ReadNode`s, then the comparison again |
| `cmdNodeStart` | `Start`, `Resolved`, `Joined`, `Relog`, `Rejoined` |
| `cluster up` on the group | `CreateDB`, `Seed`, `StartGroup`, in one step each: `Assembly` has the detail |
| deadlines, `--timeout`, signals | `Late`, `Expire`, `Kill` |
| the engine | `Write`, `Apply`, `Misapply`, `Join`, `Complain`, `Fall`, `Elect` |

`cut` says that the last command ended on a database that is not whole;
`mishaps` names what the commands do not guard against: roles that `moved`,
commands that `overlapped`, a comparison during which rows moved (`unsettled`),
in which the standby could not be asked (`blind`) or the master not count
(`uncounted`).

### Scenario

Text is abstracted to what is asked of it: a token of an argv by its kind, a
`${name}` by whether it is bound, output by the words a step looks for. `Refuse`
and `Begin` are `validate`; `points` is the unrolling, in the order of the code,
with the repeats outermost, and `binding` what the runner makes of it, which puts
the cluster's name over a key `cluster` of the matrix; `Create`, `Run`, `Within`,
`Look`, `WaitMet`, `WaitGoesOn`, `Measure`, `Harvest` and `Destroy` are the steps
of a run. What a step's argv is run against is what `parseInterspersed` makes of
it after `dispatchArgs` has put `--cluster` and `--timeout` in (`Dispatched`), so
a step can name another cluster, or swallow the runner's flag as the value of its
own. What it then does is one of four things: nothing (`Idles`), a role moves
(`Acts`), a cluster is made, this run's again or one of another name (`Builds`),
or taken down, in whole or in part, with or without its record (`Razes`).

Role changes are numbered as the engines log them: `logged` are those still in
the logs, `recorded` those the record holds. Only a harvest moves them from one to
the other, and only while the artifact is there (`described`). A harvest reports
no failure, so it takes what it takes (`InPart`), and `Within` judges by that.
`note` is history: which steps fell short of the file (`lapses`), whether the
group stood still during the last pass of a wait, what could be read at the end of
the last step, which clusters may be left (a run that was kept or would not go,
and 0, one that a step made under another name).

### Topology, Record, Lifecycle

`Topology` holds operators only: the tables of the code appear by the few keys
that stand for their rows, a value by the entries the engine would split it into,
a list by what is at each of its places: a filter (`DBNodes`, `ParseCTPConf`,
`CTPSets`) keeps some places, and what a conf adds stands at earlier places than
what the command line does.

`Record` models a node's master log as lines of two kinds, a time and the words
that follow it, of which the last may still lack its newline, and a file number
that a rotation changes. A harvest is `LoadOffsets`, then per log `OpenFile`,
`ReadLine` for each line and `EndOfFile` - `NoFile` where there is none -, then
`AllRead` and `SaveOffsets`; `DropHarvest` is a kill or a failed append. A log that
is renamed or removed while a harvest has it open is kept in the reader (`held`)
and read to its end, while the node's log is a new one (`Unlink`). If the
directory of the record has been purged meanwhile, the next entry makes it again,
and without one the offsets are lost without a word (`LoseOffsets`). Time is a
small counter.

`Lifecycle` takes each command a change of the disk or of a backend at a time:
`Image`, `EnsureCluster`, `EnsureNetwork`, `WriteDescribe`, `SnapshotDescribe`,
`CreateNode` per node and `Assemble` for `standUp`; `Rm`, `RmNetwork`,
`EmptyDir`, `Purge` for `destroyOne`. A container or a network that will not go
is passed over (`kept`), and the destroy goes on to its purge. A command may run
under a `--cluster` or `CSB_CLUSTER` that is not the cluster it is about
(`session`): its entry goes to that one's record (`Dispatched`), and so does the
snapshot a create takes (`RecordOf`, `SnapshotDescribe`). Two processes may be in the same cluster: a
create that comes to write its artifact may find its directory purged
(`NowhereToWrite`), or, later, make it again. Any step may fail where the code's
may - `EmptyDir` part of the way - or be the last (`Kill`), a machine may lose its containers' processes (`Halt`), and `Engine`
steps of `Record` happen while the containers run.

| Bookkeeping | Says |
|---|---|
| `spoilt[n]` | what befell the record of `n` that the harvest does not guard against: `cut` off, `overlapped`, a line `unended`, a new log that had `outgrown` the old offset, a line `headless` (its time was read by an earlier harvest), `purged` while a harvest of it was under way |
| `strayed` | clusters of which something may stand where their artifact does not say: a create moved a standing one to another backend, was cut off before it wrote where it builds, or built while the cluster was being destroyed (`Crossed`); a purge left something standing |
| `misopened` | clusters whose record does not open with the create that builds first: that one got no container, had its record purged while it was still at its nodes, or was outrun by another create of the name that built before it (`Outrun`); or it ran under another cluster's name, and of the two clusters those whose record was still closed (`Misfiled`) |
| `stood[n]`, `claimed[n]` | the topologies that had a container, in order; the labels a create was given |

## 3. Runs

| Run | Instance | Shows |
|---|---|---|
| `assembly_one` | a pair with broker, and a single; 1 process; 3 files; `StuckLimit` 2; lag up to 1 page; fairness | types; forced promotions are clean; serving is serving; `up` finishes; `State` implements `Stages` |
| `assembly_two` | a pair; 2 processes; `StuckLimit` 1; no lag | seeded is whole, started on whole, no copy under a server |
| `assembly_resume` | as `assembly_one`, no fairness | **violated**: `Resumable`, the comment on `Up` |
| `faults` | 2 nodes; one process over every kind, and two over partitions and lags; 2 conditions; 2 pids | types; in force means owned; on record means in force; cuts two-sided |
| `faults_clear` | 2 nodes, quiesce only | **violated**: `ClearReverses` after quiesce, clear |
| `role_one` | a pair with brokers, from every way it may be found; 1 process, any number of commands; `StuckLimit` 2; lag up to 1 page; 1 event | types; a shut door is on record; what is completed was safe; what is reported is true |
| `role_live` | the same, one command, no events; fairness | a move to a standby finishes; every wait ends |
| `role_doors` | the same, no lag, no events | **violated**: `DoorsReopened` after a `failback --quiesce` whose `--timeout` runs out during the rejoin |
| `scenario` | every argv of up to two tokens; a failover, a measurement, sweeps, repeats, keys and values given twice or overwritten, steps that destroy and create, and every kind of unfit file; each pair of `--keep` and `--purge`; 1 role change on its own; fairness | types; a green result is true; a sweep is whole; nothing is left; the record is whole; a wait was true; it ends |
| `scenario_checked` | the same, no fairness | **violated**: `PassedMeansChecked` by a step with both a command and a wait |
| `resync` | a pair, from every way it may be found apart; 1 process, 2 commands; 1 table, 1 row; 1 fall; fairness | types; what serves is whole; a database is removed only after a backup; `rebuilt` is true; rebuilt for cause; every command ends; a rebuilt node joins |
| `lifecycle` | 2 names of up to 2 nodes and 2 clients, 2 backends, 2 processes; 3 commands, 1 mishap, 1 halt; 2 things said by an engine; 4 ticks | types; recorded once, none skipped; destroyed is gone; only the claimed; servable; the record carries its topology; the trigger is the last command |

**Bounds.** Three files are enough to have one before `<db>_lgat`, itself and one
after; the code treats all others alike. Two nodes are what `Seed` and
`CompletePromotion` distinguish: the master, which is never a copy, and a copy.
More copies repeat the same loop, and the proofs cover any number. `StuckLimit`
is 5 in the code; the counter only has to be able to be below, at and past the
limit. One page of lag tells "drained" from "not". For faults, two conditions are
needed to have one cleared while another stays and to enter the same one twice;
two pids to have one go stale. Two processes are enough for a lost update.
A role move
involves two nodes, the one taken away and the target; a third is read and
otherwise left alone, and the theorems cover any number. One event is enough to
take a node away, or put one back, at each step of a command. Two commands let a
`node start` or an `up` follow a rebuild that was cut off; one row and one table
tell equal from missing, on either side, and each is there or not at the start.
Two tokens are what it takes for a flag to swallow its neighbour, two keys of two
values for a product to differ from a pairing. Three commands are create, destroy
and create again, or create and the two readers of its record; three lines of a
log, with times, are enough for a rotation after a read and for a line read
without its end.

**Constraints.** `Unspoiled` (`assembly_two`) stops TLC from going on from a state
whose history variable excuses every invariant of that run. It never returns, and
the states are still checked once, so no violation is hidden. `Alone` does the
same in `role_one` once two different mishaps have met: each property is then
excused or has been checked where they met. `Once`, an action constraint, ends a
behaviour of `role_live` with its first command: its last state is kept, so that
a command that returns too early is seen.

`Scenes` of `MC_Faults` and of `MC_Lifecycle` split one question in two so that
each fits: in `faults`, one process with every verb, or two with the verbs that
share effects, until a list has been overwritten; in `lifecycle`, one process and
silent engines with the whole of create and destroy (`Quiet`); one cluster created
once whose engines speak and whose record two processes read (`Reading`); that
cluster destroyed while its record is read (`Unmaking`); and one cluster created
and destroyed by two processes at once (`Crossing`). What is lost is their
product; for all properties of `Lifecycle` but `TriggerIsLast` the theorems
have it. `Brief` has a harvest take less than a
tick. `Moving` of `MC_Scenario` lets roles move on their own only in the files
that look at them, and not in those whose steps destroy and create (`Remade`),
which are run without `--keep`. `OneMishap` and `AfterTheCut` of `MC_Resync` keep behaviours
to one kind of mishap and let a second command begin only after one that left a
database broken, or that was the first to move something.

The runs with liveness use no symmetry and no view. `scenario` and `resync` check
theirs under a constraint: what they show of `Ends`, `ResyncEnds` and
`RebuiltJoins` is of the behaviours that stay within it.

**A view**, `Plain`, drops the answer of a finished command, which no property of
`faults` and `lifecycle` reads. `SYMMETRY` is over processes, which no definition
tells apart.

**Fairness** (`LiveSpec`, used by `assembly_one`). Weak fairness of each process's
steps: a process that is not killed is scheduled. Strong fairness of
`PromotionSafe`: reading `db_ha_apply_info` may fail, but not every time, since
`WaitServing` asks again on every pass. Weak fairness of `GroupForms`, `Elect`
and `Apply`: the engine forms a group once every node is started, elects, and
drains what was shipped. None is assumed of `Promote`: that the engine may never
finish a promotion is why `CompletePromotion` exists. None is assumed of time. `kill` is a step without
fairness, so a process may live for ever. `role_live` assumes the same of its
processes and of the engine: a stop that was asked for takes effect
(`Deactivate`), a heartbeat that runs registers a server (`Register`), somebody
is elected and what was shipped is applied, and `db_ha_apply_info`, asked again
and again, is read some time (strong fairness of `Unblocked`). Again nothing is
assumed of `Promote` nor of time. In `scenario` the runner's next step and the
passing of a wait's bound are fair, in `resync` each process's next step, the end
of its waits, and a node's joining when it can: heartbeat tries until stopped.
`resync` assumes nothing of appliers: `Drain` ends by its deadline.

## 4. Theorems

Each holds for every set of topologies and processes and every bound, under the
hypotheses the table names, if any; assumptions
are the named `ASSUME`s of the modules (a topology has at least one node, HA
is off exactly for a single, `Lgat` is one of the files, bounds are naturals).

| Theorem | States |
|---|---|
| `AssemblyProofs!TypeCorrect` | `Spec => []TypeOK` |
| `AssemblyProofs!BuildCorrect` | `Spec => []BuildInv` |
| `AssemblyProofs!SeededCorrect`, `StartedCorrect` | `Spec => []SeededIsWhole`, `Spec => []StartedOnWhole` |
| `AssemblyProofs!NoCopyCorrect` | `Spec => NoCopyUnderServer`, an action property |
| `AssemblyProofs!StagesCorrect` | `Spec => StagesInOrder`: `Assembly` implements `Stages` |
| `AssemblyProofs!ForcedCorrect` | `Spec /\ []Undisturbed => ForcedOnlyClean` |
| `AssemblyProofs!ServingCorrect` | `Spec /\ []Undisturbed /\ [](~spoiled) => ServingIsServing` |
| `AssemblyProofs!ServingAlone` | `Spec => ServingIsServing`, for one process |
| `FaultsProofs!TypeCorrect` | `Spec => []TypeOK` |
| `FaultsProofs!EffectsAreOwned` | `Spec => []Owned` |
| `BalanceProofs!RecordedIsHeld`, `CutsAreBothWays` | `Spec => []Held`, `Spec => []BothWays` |
| `RolesProofs!TypeCorrect` | `Spec => []TypeOK` |
| `RolesProofs!DoorsCorrect` | `Spec => []DoorsOwned` |
| `RolesProofs!ForcedCorrect` | `Spec => ForcedOnlySafe`, an action property |
| `RolesProofs!ReportsCorrect` | `Spec => ReportsAreTrue`, an action property |
| `ResyncProofs!TypeCorrect` | `Spec => []TypeOK` |
| `ResyncProofs!ServedCorrect` | `Spec => []ServedWhole` |
| `ResyncProofs!BackupFirst` | `Spec => KeepsUntilBackup`, an action property |
| `ResyncProofs!SentRightly`, `RebuiltHonestly` | `Spec => RebuiltForCause`, `Spec => RebuiltIsTrue`, action properties |
| `LifecycleProofs!TypesCorrect` | `Spec => []TypeOK` |
| `LifecycleProofs!ServableCorrect` | `Spec => []Servable` |
| `LifecycleProofs!HarvestedOnceCorrect` | `Spec => []HarvestedOnce` |
| `LifecycleProofs!NothingSkippedCorrect` | `Spec => []NothingSkipped` |
| `LifecycleProofs!DestroyedCorrect` | `Spec => []DestroyedIsGone` |
| `LifecycleProofs!ClaimedCorrect` | `Spec => OnlyTheClaimed`, an action property |
| `LifecycleProofs!CarriesCorrect` | `Spec => CarriesItsTopology`, an action property |
| `ScenarioProofs!TypeCorrect` | `Spec => []TypeOK` |
| `ScenarioProofs!VerdictCorrect` | `Spec => []VerdictIsTrue` |
| `ScenarioProofs!NothingLeftCorrect`, `KeptCorrect` | `Spec => []NothingLeft`, `Spec => []KeptIsWhole` |
| `ScenarioProofs!WaitCorrect` | `Spec => WaitTrueIfStill`, an action property |

*The build.* `SeededIsWhole` is not inductive: a copy in progress has written
some files and not others, and a group may be started only because of what a
process remembers, not of what it re-reads. `BuildInv` says what each process
knows. There is one builder (`OneBuilder`). The master's database is absent, or
all `open` while createdb lives, or all `good` (`MasterBuilt`). A process in the
loop knows that all nodes behind its `slot` are whole and that its copy has been
written up to `file` and, from `<db>_lgat` on, not beyond (`LoopAt`). A database
that does not have `<db>_lgat` has nothing after it (`NothingAfterLgat`), which a
copy that tore before `<db>_lgat` leaves true and which makes the next copy start
clean. A process past seeding knows all to be whole (`Resumable`, unless
spoiled). The proof goes by groups of actions: those that move no file
(`Onwards`), the loop (`BuildLoop`, `BuildCopy`), what cuts a build off
(`BuildCutOff`: it spoils or stops short of `<db>_lgat`), and the engine.
`NoCopyUnderServer` follows: only createdb and a copy write files, they run only
while there is a builder, and under `BuildInv` a builder at work excludes a
started group.

*The ladder.* Each step of `Assembly` is a step of `Stages` or a stutter
(`OneRung`). Forming needs `seeded`, which `BuildInv` gives of any heartbeat or
server that is there (`StartedOnWhole`), and no step takes a database away
(`KeepsDB`). By `GroupInv` a group's servers run only under a heartbeat that is
on and at most one of them leads, and a single never has a heartbeat; so a
single goes straight to serving and a master of a group through forming.

*What an up reads.* `WaitServing` acts on nodes it read one after another. `Sees`
says what is left of each reading when it is acted on: a server that was seen is
still there, an active one still active; the node the up waits for still leads;
at `changemode` that node has nothing left to apply and nothing lost, because
the log of a node that leads only drains; and an up that has come to its brokers
leaves a group behind in which somebody is active and everybody is there. The
engine and other ups only add to that. A `down` takes a server away, and
`Undisturbed` excludes just that: a process at a `down` while another waits or
starts its brokers. Without it neither property holds.

That what serves is whole is `StartedOnWhole` as long as nothing is spoiled. A
process that is alone may be killed in a copy and begin again, and no excuse is
needed (`FilesInv`): the master's files are all of one kind (`OnePiece`), a
database without `<db>_lgat` has nothing good from there on (`Headless`), and so
the one a `Seeder` writes to is never whole before its last file and never
served.

*Faults' types.* `TypeOK` needs `Planned`: a process at `mode` or `apply` has a
condition to enter. The content is that no effect is ever taken away more often
than it was put there (`DoneType`) and that every list written to `faults.json`
is one of conditions, whichever process wrote it and whenever it had read it.

*What is in force is owned.* `Owned` says that something accounts for an effect;
what is inductive is how much. `Ledger` says what a process keeps in each phase
(`Stage`): an entering one has the effects of its condition before it in order
and, as long as it is not stale, the file's list as its own; one that writes has
the file's list with its condition behind it, or what its clear has left.
`AtMost` then bounds each `force[e]` by the conditions of the file that name `e`
and the processes that have added it and not yet recorded it, and, for a clear
that is not stale, by what it keeps and has still to reverse. Counting is by
`Cardinality` over positions of lists and over processes, so the proof needs no
bound on either. `GoneIsFree` covers the effects of pids that have gone, and a
file that is cut short has a writer which is not stale. The excuses are what the
counting needs and no more: a clear cut half way (`halved`) may be excused
because it leaves the file saying too much, which owns more, never less.

*What is on record is in force.* The other bound does not hold at every step: two
processes at work can each put back what the other has entered. But such a pair
does not end well, since the first to write leaves the other with a list that is
not the file's, and what that one then writes is `raced`. `AtLeast` therefore has
four cases: somebody works from an old list (`Doomed`), two work (`Crowd`), one
works and what it will write is in force (`FairTo`), or nobody does and the file
is (`FairFile`). `Even` carries both sides of a cut through the execs of either
direction. Two kinds are entered by an exec that is neither refused nor adds up;
`Tries` says that nothing is in force before it, from the mode that has been read
or, by `Apart`, because the pid is new. When all is quiet only the last case is
left, which is `Held` and `BothWays`.

*The doors.* `DoorsOwned` is about shut doors and the record, and a `Resume` that
is half done has opened some and not dropped the record. `DoorsInv` adds that only
one command runs, that its execs work (`InTime`), and that behind a `Resume`'s
slot every door is open (`Reopening`): the step that drops the record then leaves
none shut.

*Completed promotions.* `ForcedOnlySafe` speaks of the moment of `changemode`,
after the position was read by another exec. `ForceInv` says why it still holds:
what a command saw in `to_be_active` stays a candidate unless it is the node the
command takes away, no other stop is at work, and it is never its own target
(`Sure`); a candidate's applier only drains, so 0 pages stay 0 and nothing is
left to lose rows on; and nobody is elected while there is a candidate
(`Unrivalled`), so no other master can have appeared. The proof goes by what a
step may disturb: those of a client that leave the nodes alone (`Undisturbed`),
`changemode`, `ServiceStop`, and the engine's (`Carried`).

*Reports.* `ReportsAreTrue` speaks of a target seen some reads ago, and of a check
that began when it was the master. `Told` says that, of one running command, a
target that was seen active since this pass began still is, and so is one that a
row was written to. Nothing makes an active server anything else but a stop; the
only `heartbeat stop` at work is the one this command sent (`stopping`), and it
is not for its target. What a client may turn to is one of four things (`Turns`),
and a step of it takes no server but its own (`SparesTarget`); the engine takes
only what is being stopped (`NodeReports`).

*What serves.* `TypeOK` of `Resync` says that a command that compares or rebuilds
has two different nodes to do it with; by `Led` it keeps them through the waits
that follow. `ServedWhole` is not inductive: that a torn database is not served
depends on the heartbeat stopped five steps earlier. `WholeInv` says that
without a command nothing is broken unless one ended on it (`cut`); that, unless
two overlapped, there is one command; and what that one may have broken (`Lone`):
its slave's database, from the removal to the restore, with the heartbeat of that
node stopped since before the backup, and a whole backup to restore from. Most
steps begin and end where nothing is broken (`CalmKeeps`); the rebuild's own are
taken one by one (`RebuildingWhole`); the engine breaks nothing and starts
nothing where the heartbeat is stopped (`EngineWhole`).

*What a rebuild takes away and what it promises.* The three action properties
speak of one step and rest on what has happened since the choice. `RebuildInv`
says it of the command that is alone. `Placed`: as long as roles keep still, its
master is one since it was chosen and its slave is down from the stop to the
start. `Backed`: what was backed up is the master's, and has what the two had in
common, but for what the queue still holds; and the steps that find a database
gone follow the one that took it. `Within`: without a second master the slave
gets nothing, from the backup, the queue or the applier, that the master does not
have. `Tallied`: while no row moves, a table that was found to differ does, and
one that was passed over agrees. The code only compares counts. That equal counts
mean equal rows needs `Within` and that rows are of tables that are there
(`TablesHold`): a subset of as many elements is the set (`SameRows`), table by
table. Without `OnlyMaster` it is false: a standby that follows a second master
can have as many rows and others, which TLC shows with three nodes.

*A scenario's verdict.* `VerdictIsTrue` speaks of a report and of steps long gone.
`LapseInv` ties them: a lapse that was judged means that this run has failed or
that one before it has, a run that has failed goes on only to its harvest and
destroy, and a destroy hands the failure on before it begins the next run.
`NothingLeft` needs that, of what stands unexcused, there is at most the cluster
of the run in progress (`StandingInv`): every way out of a run takes it down,
excuses it, or keeps it because it failed; what a step makes under another name
is excused as it is made. `KeptIsWhole` needs that what could be read at the end
of a step is in the logs or the record until the harvest (`KeptInv`): what comes
between only logs more and records more, and a step that takes logs or record
away ends with less to read. A harvest that is whole then takes all the logs
hold, before the destroy. `WaitTrueIfStill` needs that a pass begins at
the first node and that what it has read so far is what the roles are, as long as
it is `still` (`LookInv`).

*Artifacts.* What is on disk is what some create was going to write, so the
invariant (`FitsInv`) speaks of both: every artifact fits its cluster, and so
does the topology each create holds that has not written its own yet. The rest is
about `Topology`. `CreateFits`: from options that are not refused, `Resolve`
answers a topology with as many database nodes as it spells the sync mode for,
with no HA parameter if it is a single, and with no upper-case spelling among
`common`, wherever the assignment came from; it rests on the last of several
assignments being one of them (`AssignedIsGiven`). `FromArtifactFits`: hosts and
labels change no node's kind (`HostedFits`); a rename counts the nodes of the
artifact and resolves as many, with parameters that were not made for it
(`RenamedFits`: a list of another length is refused because the count is the same,
and a group of none, which would be resolved as two, has no list at all); then
the value is spelled (`SpellFits`). `LifecycleAssumption` says what an option or
an artifact from elsewhere is: fields that exist, lists that are lists, nodes
named after their cluster, no upper-case `HA_COPY_SYNC_MODE`, and no HA parameter
in an artifact of a single, also not in one from before `ha_mode` was recorded.
The last matters: a rename carries the parameters past the refusal of `Resolve`.
`FitsInv` also places what it speaks of: a cluster's nodes are among the `Nodes`,
which the assumption gives for as many as `MaxNodes`, the bound of a topology's
size, and so are those that a command in progress has still to create, remove or
harvest. `TypeOK` rests on that, with `DiskInv` (what is kept of a cluster is in
its directory; its work directory holds its own nodes), `WorldInv` (what runs is
there) and `BooksInv`.

*What a destroy leaves.* `DestroyedIsGone` speaks of a purge, many steps after the
destroy read where the cluster stands, and other processes go on meanwhile. Of a
cluster that has not strayed, `LocatedInv` says that what stands is where the
artifact records it, but for the network of a create that is about to write the
artifact there (`Placing`). A destroy therefore sets out from the right place,
and `RazedInv` says, place by place of it, what is still to go: at `rm` every
container is among those it has listed, later none is left, and at `purge` the
work directory is empty. Most steps add nothing to the world (`Lessens`) and keep
both. A create's building steps disturb their own cluster only (`OthersStay`);
if it is being destroyed it strays (`Crossed`), and else no destroy is concerned
(`BuildsThere`). A network that would not go is the destroy's to admit (`kept`), as is a
container. A purge that leaves something standing makes it stray as well, so
`strayed` excuses no more than the code's ways of losing track. A destroy by
label adds only the names whose artifacts have the label, and these have the
labels of the create that wrote them, or none after a rename (`LabelsInv`): what
it finds was claimed, which is `OnlyTheClaimed`. That it still is when its turn
comes is not so (see Findings).

*What an export carries.* `CarriesItsTopology` speaks of the first topology that
got a container and of the `describe` in the record, which was taken before any
container was made and by whichever create came first. `OpenedInv` follows both:
as long as no container was made, the create that opened the record is still at
its nodes, and once one was, the record opened with the topology of the first.
Between the two another create of the same name may build first, or the one
that opened may end without a container, or have the record purged from under it:
then the cluster is `misopened`, and so it is if its create ran under another
name. The proof needs it for these four and for nothing else. A record that is
open is never opened again, so a create that puts its snapshot with another
cluster does no harm there if that one's was. `ReadsNamed` says that a reader reads a cluster that has a name.

*The record.* `RecordInv` is kept by every step of `Record` (`RecordProofs`), for
any number of readers, and by every step of `Lifecycle` because what that does to
the record is one of those steps, an entry of the tool's, or a purge (`Tie`: a
harvest is under way only in a process that is harvesting). Of the logs it says
that what the engine said has its words in one place of one log, put away or not
(`IdsInv`), and that what is known of a file is not of one to come and not
past its end (`FilesInv`), for saved offsets and for those in a reader's hand.
Then, of the record of one cluster (`Kept`): unless two overlapped there is one
harvest of it (`Alone`). Unless it was cut off, overlapped or read what was open,
no id is in the record twice, and a line of a log, or of a file held open, is
recorded only if it is before where that log has been read to: by the saved
offset if nobody harvests, else by the reader (`Once`). Unless a log was outgrown
or the record purged under a harvest, a line before where it has been read to is
recorded (`Whole`); this one needs no `Alone`, since what is recorded stays so
whoever else reads. A file that was put away while a harvest reads it is the
case to mind: its last lines are recorded and counted under a file that is no
longer the log, and the next harvest begins the new one at its start or finds it
outgrown.

**Only model-checked.** `UpFinishes`, `MoveFinishes`, `WaitsEnd`, `ResyncEnds`,
`RebuiltJoins` and `Ends`, because they are liveness. `SweepIsWhole`, whose content
is what a fold over the keys of a matrix computes: induction over them is out of
the prover's reach, and TLC computes it for the files of the run, among them keys
the runner overwrites and values given twice.
Of `Lifecycle`, `TriggerIsLast`, which the run checks in the scenes above: it speaks
of what an export has sorted.

## 5. Findings

1. `up` is not resumable in the sense of its comment: the existence of
   `<db>_lgat` is taken for a finished database (`assembly_resume`).
2. `fault clear` drops the record of a quiesce and leaves the doors shut
   (`faults_clear`).
3. `failback --quiesce` can report and leave a door shut that is on no record:
   `Resume` drops the record whatever its execs came to (`role_doors`).
4. What a scenario's step expects of its command is not looked at when the step
   also waits, and the scenario passes (`scenario_checked`).

`PROJECT.json` quotes the lines that say otherwise.

**Met while modelling, with no run of their own.** The models contain this
behaviour, and the properties name it in what they excuse, or leave it out as
said.

- *fault*: a second ping-unavailable records the broken mode, which clear
  restores last (`fault.go:263`; the mishap `overwritten`). A partition refused
  half way leaves cuts on no record (`fault.go:151`; `refused`), where
  `docs/design/04-faults.md:29` has every condition record its reversal.
- *resync*: the first comparison has no wait for the applier, so lag reads as
  divergence (`inspect.go:1104`). A `--timeout` in the middle of a comparison
  leaves its tables skipped and `resync` answers as if there were nothing to do.
  Of two masters the last read is the master; a slave that replicates from the
  other may have other rows and is `rebuilt` if it has as many (`inspect.go:1051`;
  `RebuiltIsTrue` excuses a second master).
  After a rebuild that stopped with the database removed, `up` seeds the node
  from the live master's volumes, or makes node 1 an empty database
  (`assembly.go:381`, `:423`), which is what `rebuild.go:47` says no to.
- *record*: two harvests at once, or one cut off before its offsets are saved,
  record a line twice (`harvest.go:73`); a last line without its newline is
  counted with one (`:102`) and read again; a rotated log that has outgrown the
  old offset loses its beginning (`:85`); a line whose time was read by an
  earlier harvest gets the present time. A harvest that a purge overtakes makes
  the directory again with the lines it has still to append, or saves an offset
  for lines that went with the record (`record.go:65`, `harvest.go:41`; `purged`).
  RFC3339Nano drops trailing zeros, so two
  times within a second may sort the wrong way round (`record.go:140`): the model
  spells a time as the record does (`Spelled`), and `TriggerIsLast` excuses two
  times that differ only in digits one of them does not spell (`Apart`).
- *life*: `destroy --label key=` matches every cluster without the key
  (`cluster.go:960`): the runs' selectors have a value. It finds its names once
  and takes them down one after another (`:983`), also one that another process
  has made anew meanwhile without the label, where the repository's
  `README.md:261` has "what it created and nothing else". A rename in `create
  --from` drops backend, labels, database and kind of network (`:203`;
  `strayed`). A create of a name that stands on another backend, or a kill
  between network and artifact, leaves what the next destroy does not look for
  (`strayed`), and so does `--purge` after a container that would not go.
  The entry `dispatch` makes creates the directory of a misspelt name
  (`app.go:171`). `CSB_CLUSTER=b csb cluster create --name a` puts its entry and
  its snapshot into the record of `b` (`app.go:167`, `cluster.go:420`), where the
  comment at `cluster.go:418` has "The record opens here, and it keeps the artifact
  as it stood at that moment": `a`'s export then carries whatever `describe` says
  by then, and `b`'s, if its record had not opened, the topology of `a`
  (`misopened`). A `network rm` that fails is passed over (`driver.go:458`):
  destroy reports and purges with the network still there.
- *scenario*: a status that cannot be read counts as no master and no standby; a
  matrix key with no values makes a sweep of no runs, which passes. `validate`
  refuses neither a key named `repeat`, which is shadowed, nor one named
  `cluster`, which the runner overwrites (`scenario.go:443`): its values only add
  runs that are all the same (`SweepIsWhole` says of both what is left). `harvest`
  drops every error (`registry.go:286`), so `role_change_within` may pass on a
  record that lacks the slow change (`unread`). `broker_set` is not validated;
  a trailing flag that wants a value takes the runner's `--cluster`.

## 6. Plan

What is above is done. Next, in this order:

1. **Roles**: an abstract specification of a move
   (one writable node at a time, and which one it is) that `Roles` implements as
   long as nothing is overlapped.
2. **Lifecycle**: `TriggerIsLast` as a theorem. It needs that a line's time is the
   engine's, as an invariant of the record, and what sorting answers (`Read`),
   which is a choice by cardinality and no recursion.

## 7. Not modelled

`WriteConfig` and the content of configuration files; the contents of databases
beyond whole or not, and the rows that `Resync` tells apart; output, notes, HTML
and JSON rendering; the diagnoses of `Serving` and `Check`, which change nothing;
the selector grammar; `watch`; argument vectors of docker, podman and tailscale;
`failcount`, which changes data and keeps no record; the arithmetic of a
scenario's measurement points; the reading of a torn `faults.json` as "no faults"
by `describe` and the record. A `faults.json` that outlives its cluster would
need `Faults` and `Lifecycle` in one instance, which is past what TLC finishes. The engine itself is external: it is modelled as
far as `csb`'s decisions depend on its answers, and more freely than it behaves
(an applier may lose rows at any time, an election may be won by either node).

## 8. Running

    tlc -workers 2 -config MC_Assembly_two.cfg MC_Assembly
    tlapm AssemblyProofs.tla
