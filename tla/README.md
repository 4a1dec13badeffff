# Yeto: TLA+ models and proofs

Yeto trains one model on several islands of machines at once. A Rust program,
the **syncer** (`syncer/src`), holds the global parameters, cut into fragments.
Learners (`yeto/`, Python) train locally and exchange fragments with it: for
every outer step `t` the syncer pulls the fragment of that step from the
learners, merges the deltas they push, and broadcasts the new version. This
directory models that protocol, model-checks it with TLC on small instances,
and proves its main invariants with TLAPS for every value of the constants.

The modules are written from the source. `PROJECT.json` gives, for every
definition that models code, the lines it stands for.

## 1. The system

### 1.1 Inventory

| Part | State | Operations | What is hard about it | Properties that matter |
|---|---|---|---|---|
| Schedule (`shard.rs`, `state.rs`) | shard range, `global_step`, `versions` | `fragment_for_step`, `step_after`, `last_step`, `expected_version` | fragments that shards do not divide, a last partial sweep | one owner per step; versions are a round-robin cut; the shards together are the unsharded run |
| Round scheduler (`server.rs`, `scheduler`) | in-flight, computing and ready rounds, `busy_fragments`, `next_t`, `next_commit_t` | launch, route a push, complete, restart, commit, publish, finish | rounds of a pipeline overlap and finish in any order; attempts are retried | commits fit, in order; one vote per learner; attempts stay apart; termination |
| Registry (`server.rs`, `RegistryState`) | `groups`, `current`, `closing` | register, unregister, drain, `disconnect_handled` | a learner reconnects while pushes of its old generation are queued | its slot moves only after the old generation was drained |
| Late carry (`LateCarry`) | `queued`, `anchors`, `gathered` | queue, attach, release an anchor | one delta can arrive as a late push and as the answer to a retry | every delta counts once, within the lag |
| Checkpoint (`state.rs`, `PendingPublish`) | the file, the write in progress | save, asynchronous save, resume | a crash between any two steps | nothing visible is undurable |
| Resends (`resend.rs`, `BulkResends`) | pending map, targets, writer queue, tails | spill, coalesce, forward, take due tails | a slow link against fast merges | never backwards; a catch-up ends; nothing is lost |
| Learner (`protocol.py`, `diloco_sync.py`, `rl/bridge.py`) | held versions, pending pulls | apply a broadcast, answer a pull, reconnect | answers to several attempts of a step | answers from the right base |
| Finalization (`finalize_learners_after`, `finalization.py`) | expected, eligible, acknowledged, dropped; the client's cached cut | send the final cut, record an ACK, give up; install, acknowledge | reconnects, late joins and failing sends during the wait | an ACK means the cut is installed; nobody connected is overlooked; a bounded wait |
| Membership (`membership.rs`, `members.rs`) | live leases, fences, retired generations, epoch | admit, renew, expire, depart | expiry against queued work | a retired generation never comes back; no push below its fence |
| Peer recovery (`recovery.rs`) | pending recoveries, donors | begin, ask, ready, failed, gone, finish | the donor goes away | every recovery ends, replayed or degraded |
| Dispenser (`dispense.rs`, `task_dispense.py`) | streams, blocks, holders; the island's ready and owned rows | open, claim, report, expire, persist | resent and late requests, expired holders, restarts | a position is held once and trained at most once; both sides agree on who holds what |
| Sample relay (`sample_relay.rs`, `relay.py`, `relay_buffer.py`) | channels, producers' last sequence, consumer; the pump's batch | put, take, attach, index | resends, replaced consumers, restarts of head and trainer | no item lost before its ACK, none stored or trained twice |
| Iso worker pool (`iso_worker.rs`) | admissions, queue, outstanding, poison | admit, enqueue, finish, drain | drain against admission, a failing worker | a drain waits for all work; a poisoned pool answers nobody with success |
| Budget cutoff (`BudgetCutoff`) | deadline | request, linearize | a report against a decision just taken | no work starts after the cutoff |
| Downlink codec (`downlink.rs`, `downlink.py`) | anchors | publish, full refresh, resend | deltas against lost frames | syncer and learner hold the same anchor |
| RL reconfiguration (`engine/controller.py`, `journal.py`) | epochs file, journal, fork membership, watchdog | request, drain, release, start, publish, commit, rebuild, recover | a crash or a timeout between any two steps | a round is served by the committed cells; the answer agrees with what happened |
| RL engine, the rest (`yeto/rl/engine`) | sample index and shards, releases, ledgers, incarnations | append, merge shards, cut, release | several writers of one object store | an index position is written once; a sample is trained once |
| The rest | | | numerics, file formats, provisioning, display | out of reach or without protocol state; `PROJECT.json` lists each with its reason |

### 1.2 How the parts interact

A connection handler task reads frames, registers the learner and queues
events. One scheduler task owns the global state; in every pass of its loop it
commits ready rounds, launches new ones, completes or restarts the ones in
flight, and handles one event. Merges are computed by background tasks, a
checkpoint may be written by one, and every learner that cannot take its
broadcasts immediately gets a forwarder task. Learners that reconnect come with
a higher connection generation; a *member* is a learner and its generation.

### 1.3 The modules

| Module | Models |
|---|---|
| `Schedule` | the pure schedule: fragment of a step, last step, expected versions |
| `ShardedHead` | K shards of one logical head, each committing its own steps |
| `SequentialRounds` | what the scheduler promises: one loop that merges step after step, checkpoints and resumes |
| `FragmentRounds` | scheduler, registry, late carry, checkpoints and learners |
| `Resend` | the forwarder of one slow connection |
| `Finalization` | the end of a run: final cut, acknowledgements, absences, grace window |
| `Dispenser`, `Interleave` | the task dispenser as a state machine of operators; which stream fresh rows come from |
| `TaskDispense` | dispenser, island processes, connections and checkpoint composed |
| `SampleRelay` | sampler, relay, pump, sample index and training rounds |
| `ConfigSwitch` | what an RL island promises for a reconfiguration request |
| `Reconfiguration` | controller, journal, watchdog and engine fork of an RL island |
| `ShardedHead_proofs` | the ranges of the shards partition the fragments; the cut of every shard, the union of all |
| `Resend_proofs` | the order, targets, tails and length of resends |
| `FragmentRounds_proofs` | the arithmetic of the schedule; type correctness of the round protocol; ownership of fragments and votes; the committed cut, the refinement and durability |
| `Finalization_proofs` | acknowledgements and grace windows |
| `Dispenser_proofs` | counting and ordering of rows in queues and leases; every request keeps the dispenser's invariant |
| `TaskDispense_proofs` | the composed dispenser: rows accounted for, trained once, tracked, and true ENDs |
| `SampleRelay_invariant` | the inductive invariant of the sample path, and the steps of sampler, pump and trainer |
| `SampleRelay_proofs` | the head's steps and the batches a pump takes; order, keeping, cursor and single training |
| `MCShardedHead`, `MCRounds`, `MCResend`, `MCFinalization`, `MCTaskDispense`, `MCSampleRelay`, `MCReconfiguration` | instances for TLC |

`FragmentRounds` extends `Schedule`; its refinement mapping to
`SequentialRounds` takes `globalStep` for the loop's step. `FragmentRounds`
puts the frames of a catch-up in transit at once, in any order; `Resend`
models how they really leave, and shows that the order `FragmentRounds` relies
on for the tail of a catch-up (pulls replayed after the fragments) is kept.
`Finalization` starts where `FragmentRounds` ends: `Finish` hands the registry
and the queued events over. `TaskDispense` extends `Dispenser`, whose
`PickFresh` its instance takes from `Interleave`. `Reconfiguration` implements
`ConfigSwitch`.

## 2. The round protocol (`FragmentRounds`)

### 2.1 State

- `phase` is where `scheduler` stands: waiting for the first hello, initializing,
  training, ended, or failed by one of its own checks.
- `round[t]` holds the round of step `t` with its `stage`: `gather` (in
  `inflight`), `compute` (in `computing`), `ready`, or `idle`. It carries the
  attempt, the expected members, the pushes, the carried deltas, the base
  version and whether the fold is exact.
- `busy`, `nextT`, `nextCommitT`, `globalStep`, `versions` are the variables of
  the same name. `disk` is the checkpoint file, `publishing` the step whose
  asynchronous checkpoint is being written.
- `groups`, `current`, `closing` are the registry's; `hello` holds queued
  `Event::Hello`; `tails` what the resend of a learner still owes.
- `pulls`, `pushes`, `bcasts` are frames in transit. They are sets: frames of a
  learner travel on several data streams, so their order is not kept.
- `counted` is a history variable: the deltas that were merged.

A push is abstracted to who sent it, the step and attempt it answers, and the
version it was trained from. Tensors are left out.

### 2.2 Actions

| Action | Code |
|---|---|
| `Start` | the initialization loop, the initial checkpoint and the initial cut |
| `Launch` | filling the pipeline: members captured, late deltas attached, pulls sent |
| `HandlePush` | `Event::Push` and `route_push`: gather, attach or queue a late delta, or drop |
| `Gathered`, `Computed` | `RoundAction::Complete`, `prepare_round_compute` and its result |
| `Restart`, `RepullRoster` | `RoundAction::Restart`; a fixed roster repeats its pulls instead |
| `Commit`, `SettlePublish` | `apply_round_commit`, checkpoint, broadcast; the end of an asynchronous write |
| `HandleHello`, `FinishCatchUp` | `Event::Hello`, the catch-up and its tail, with rebinding and replay |
| `Unregister`, `HandleDisconnected` | the end of a connection task, and its event |
| `Connect`, `Deliver`, `Answer` | the learner: reconnect, apply a broadcast, push |
| `Break`, `Crash` | a connection fails; the syncer dies and resumes from `disk` |
| `Finish` | the end of the loop, before finalization |

A check that makes the code return an error sets `phase` to `"failed"`, so
`NeverFails` says that no such check is ever hit.

`Done` and `AttemptsBound` only stutter: training is over, or the model stops
where the syncer would start one more attempt than the bound allows. Deadlock
is checked in every run of this module.

### 2.3 The end of a run (`Finalization`)

The state of `finalize_learners_after` keeps its names: `expected`, `eligible`,
`acked` (the `acknowledged` map), `dropped`, `since` (`disconnected_since`);
`sends` are the send tasks, `awaited` is `first_sends`. `groups` and `current`
are the registry's, `live` its leases, `draining` the connections that are
unregistered and whose `Disconnected` is not queued yet. `island[l]` is the
learner's process: the generation it dialed last, its open connection, the
frames of the cut it cached (`got`) and how far it is. A configuration (`mode`)
says whether there is a grace window, leases, inline broadcasts, a fixed roster
and a cut of its manifest alone.

| Action | Code |
|---|---|
| `SendEnded` | the end of a send task, or of an inline send |
| `HandleFinalAck`, `HandleHello`, `HandleDisconnected` | the events, each with `absence.observe` |
| `DropExpired`, `Deadline`, `Finish` | the timer branch before and after the deadline; the end of the loop with its SHUTDOWN frames |
| `ReadAck`, `Unregister`, `Drained`, `Connect` | the connection task of a member |
| `Receive`, `Acknowledge`, `AckSent`, `ReceiveShutdown`, `Leave` | the client: cache a frame, install and acknowledge the cut, `sendall` done, SHUTDOWN, close |
| `Break`, `Kill` | a connection fails; a process dies and may be launched again |

What the model shows beside its properties:

- An acknowledgement can be dropped although its learner installed the cut.
  With inline broadcasts, a learner that cached the cut on its first connection
  acknowledges on the second and leaves while the scheduler still sends to it;
  the send fails, the generation never becomes eligible, and the queued ACK is
  dropped (server.rs 7055-7070, 7024). Without them, a learner whose hello is
  queued at the cut is sent the cut twice, and a failure of the second send
  withdraws its eligibility (6944) before its ACK is handled. A run without a
  grace window then times out. `protocol.py:2113-2115` says that leaving after
  `sendall` cannot "silently lose the acknowledgement". A connection that fails
  after `sendall` loses it as well.
- `disconnected_since` keeps learners that are no longer expected or were
  dropped before, so `next_deadline` stays in the past and the timer branch
  repeats without effect until the deadline.
- `dropped` is never cleared: a dropped island that joins again is sent the cut
  and is not waited for.
- SHUTDOWN goes to the connection that acknowledged only, so the case of the
  comment at `protocol.py:2126` does not occur.
- When everybody leaves a grace window the run ends well with no
  acknowledgement; when everybody's lease runs out it fails.

### 2.4 The task dispenser (`Dispenser`, `TaskDispense`)

`Dispenser` is the pure state machine of `dispense.rs` on the member table of
`members.rs`: the record `d`, and for each request an operator that gives the
next `d` and the answer. `Interleave` is the choice of fresh rows by earliest
deadline. `TaskDispense` adds the island's `TaskSource` (ready rows, owners,
the pending report, the one request in flight), the connections, the saving of
a checkpoint in its steps, and the restart of a syncer from it. A broken
connection loses its answer, while a request sent on it may be read
arbitrarily late. Clocks are left out: any request may find a member silent for
its lease. Time limits of `close`, the data declarations and the limits of 4096
holders are left out too.

### 2.5 The sample path (`SampleRelay`)

A group travels from a sampler's process (`sampler`) through the relay in the
head's memory (`relay`) and the pump thread of the trainer (`pump`) into the
index on disk (`disk`), and from there into a training round (`feed`), whose
cursor is recorded after the train call (`commit_round`). `wire` holds the PUT and TAKE
frames not yet handled, those of broken connections included. `past` is
history. There is one trainer process at a time.

Three things the code does that the properties have to allow for:

- `RelayPump.run` catches any exception of `step`. The batch in hand is then
  forgotten while `consumer.after` is past it, and the next cumulative
  acknowledgement deletes items that were never indexed;
  `relay_buffer.py:22-24` says the pump "acknowledges them only after the
  append". `WrittenIsKept` excuses these groups (`past.skipped`).
- A PUT answered FULL gives its sequence number back. A late copy of it, read
  from a broken connection, can then be stored under the number the next group
  takes, and that group is answered DUPLICATE and counted as written. It needs
  a sampler that is stopping (`gaveBack`); it is excused too.
- `LaneCursorLog.append` after a torn last line glues its record to the torn
  one, and committed rounds are read again at a later launch. `Logged` has it;
  a line is torn by a crash while it is written, the window in which
  `TrainedOnce` (and `buffer_feed.py`) allows a second training anyway.

### 2.6 Reconfiguration (`ConfigSwitch`, `Reconfiguration`)

`ctl` is the controller and the step of the transaction it is in, `log` the
journal as `_replay` reads it, `epochs` the file `epochs.json`, `call` the fork
operation it waits for, `fork` the cells with their membership mirror, and
`late` how far the deadlines have passed. A crash may fall between any two
steps; the fork then restarts in its startup shape or outlives the learner.
Requests change the number of rollout engines. A cell dies by itself only
outside a transaction; an in-flight fork call dies with the learner. A fork
call may fail, fail with an unreadable membership status, or succeed and leave
the status unreadable; the last keeps the `issued` record as the journal's
last word on the operation.

`RequiredSticks` is about what `_enter_recovery` journals. The refusals of a
changed layout or GPU pool (controller.py 656-664, 716-722) close one
incarnation only, by intent, and belong to the topology that is not modelled.

`AnswersAgree` is a refinement: the promise of `ConfigSwitch`, that a request
switches the configuration at most once and its answer agrees, is kept over
every crash. Two cases stand outside the properties. A fork that outlives the
learner keeps its cordons, since nothing in `open` lifts them (`NoneCordoned`
excludes `fork.outlived`). And a restart that cannot recover writes the
island's record only, so a request that was open gets no terminal record of its
own (controller.py 867, 883, 993, 999, 1049), against the docstring of
`_enter_recovery`; `RequestsEnd` takes the island's record as the end.

## 3. Runs

| Run | Question |
|---|---|
| `sharded_head` | 7 fragments on 3 shards, 17 steps (nothing divides anything): do shards at any relative speed stay on their cut and end where one head ends? |
| `resend` | 3 steps, queues of one frame: order, floors, targets and tails of a slow connection; a catch-up ends, and no version is lost by coalescing |
| `rounds_sweep` | 2 fragments, pipeline 2, 4 steps, asynchronous checkpoints, one crash: commits, cuts, durability, refinement |
| `rounds_strict` | strict learners, one lost connection and one crash: does training always end? |
| `rounds_quorum` | quorum rounds, two lost connections, a retry: votes, attempts, slots |
| `rounds_carry` | late deltas over three steps, the last one retried, which gives anchors back: counted once, merged within the lag |
| `finalization` | fixed, leased and grace-window memberships, inline and background sends, full and manifest-only cuts, in seven scenarios of one fault each: does an ACK mean an installed cut, is nobody overlooked, does it end? |
| `task_dispense` | expiry, relaunch, broken connections, closing, joins on another channel, cut and crash in pairs: rows accounted for, trained once, both sides in agreement |
| `sample_relay` | pairs of faults of sampler, link, head, pump and trainer: no group lost, doubled, reordered, skipped or left unread |
| `reconfiguration` | up to two requests with crashes, failing fork calls, deadlines and dying cells: what serves is what is committed, answers agree, requests end |

All of these pass. Two further runs show a comment that the code does not keep;
`PROJECT.json` quotes it.

| Run | What TLC finds |
|---|---|
| `carried_exact` | a restart can make the fold exact while carried deltas stay in the round; completing it then fails the syncer |
| `merged_not_carried` | a restart gives back the anchor of a delta an earlier round merged, and the same delta is carried again |

Two more disagreements of this kind have no run. `rebind_current_unanswered_rounds`
(server.rs:5446) changes the members of a running attempt when a reconnected
learner takes its slot over, where `docs/PROTOCOL.md:184-188` calls the captured
set immutable. And a restarted attempt (server.rs:4212) captures a learner that
is still being caught up, which a launch leaves out (server.rs:7255-7257).

### 3.1 Bounds

Two learners are enough for every quorum case: a quorum of one with a
straggler, and a quorum of all. They are interchangeable, and the safety runs
use that symmetry; `rounds_strict`, which checks termination, does not. Two fragments and a pipeline of
two make rounds overlap, four steps give every fragment a second version.

| Bound | Meaning |
|---|---|
| `MaxBreaks`, `MaxCrashes` | failures that happen; with two breaks the same learner can be lost, come back and be lost again |
| `MaxAttempts` | attempts of one round; two make a late answer to the first meet the second |
| `LateHello` | at how many starts of the syncer, from the first on, a hello may still be queued when training begins: the first in `rounds_sweep`, both in `rounds_strict` |
| `TotalSteps` | the length of the run; late carry needs three steps for a delta to wait over a commit |
| `QueueCap` | a writer queue of one frame makes every second broadcast spill |
| `RetriesLast`, `MaxInTransit`, `MaxPushes` | constraints of `rounds_carry` only: the last round alone is retried, at most three frames are under way, two of them pushes. A late push, the answer to the retry, and a broadcast still meet |
| `MaxGen`, `Restless` | connection generations of a learner in finalization; the learner that fails or leaves (the other only receives, acknowledges and waits) |
| `MaxIncarnation`, `Unsteady` | processes of an island of the dispenser; the island whose connection or process fails |
| `MaxRecovery`, `MaxPasses` | attempts and passes of a recovery; the code has three passes, the run one, which reaches the give-up sooner |
| `Scenarios` | which events may happen in a behaviour, and how often |

The newer models have many kinds of faults, and all of them at once are too
many states. `Scenarios` lists the sets that are explored together: each fault,
and the pairs that act on the same state (a broken connection and an expiry, a
crash and a cut, a restart of the head and a resend). A case that needs three
different faults is outside these runs. `reconfiguration` also has three failing
calls in one transaction, where a repeated call fails again. `task_dispense` has two streams of one
row, so that a claim of two takes from both; `sample_relay` has two processes
with three groups each, a channel of two items and rounds of two, so that a
channel fills, a round spans two takes and one group stays over.

`DrainTimeout` says whether a data reader may outlive the time the code gives
it to drain. The runs set it to `FALSE`: after such a timeout the code moves
the slot although a push may follow. The theorems hold for both values.

### 3.2 Fairness

Only the runs with temporal properties use it. The scheduler's loop runs every
branch in each pass, so each of its actions is weakly fair; timers fire, so is
`Restart`; background merges and checkpoint writes end; the connection task of a
broken connection is woken by its error; a learner reconnects (its client
redials, or its island is started again) and answers pulls it can answer. No
failure is forced, and nothing is strongly fair. In `Resend` the forwarder and
the writer are weakly fair as long as the connection is open.

In `Finalization` the sends, the loop and the deadline are weakly fair. A send
ends because its queue drains or its connection fails; this is an assumption on
the network, for the deadline is armed only after all first sends have ended.
No island has to answer. In `Reconfiguration` the learner's transaction and
recovery, the fork, and time are weakly fair; the watchdog is not, and no
request is forced. In `SampleRelay` the head answers a TAKE of an open
connection, and the trainer's two threads go on; samplers need not.

## 4. Proofs

All theorems hold for every number of learners, fragments, shards' ranges,
steps, attempts, breaks and crashes that satisfy the named assumptions
(`ScheduleAssumption`, `FragmentRoundsAssumption`, `ResendAssumption`,
`ShardAssumption`), which are the checks of `validate_config` and
`ShardSpec`; those on finalization, for every set of scenarios that satisfies
`FinalizationAssumption`; those on the dispenser, for every set of islands,
finite set of streams, weights, block sizes and scenarios
(`DispenserAssumption`, `TaskDispenseAssumption`) and for any choice of fresh rows
that stays within the streams' limits (`PickFreshAssumption`, which TLC checks of
`Interleave`); those on the sample path, for every number of processes and of
groups of a process, every queue size, prefetch and round size, and every set of
unfit groups and of scenarios (`RelayAssumption`).

| Theorem | Statement | Argument |
|---|---|---|
| `TypeCorrect` | `[]TypeOK` | `TypeInv` adds that the committed and launched steps are steps of this shard (`StepsNamed`); one lemma per action |
| `CommitsAlwaysFit` | `[]CommitsFit` | `RoundInv`: a busy fragment belongs to exactly one active round, whose base is the fragment's version, and steps from `nextCommitT` to `nextT` are the active ones |
| `AlwaysCommittedCut` | `[]CommittedCut` | `CutInv`: the state and the file are both on the round-robin cut, so a resume is too |
| `RefinesSequential` | `ImplementsSequential` | with both invariants every step is a merge, a save, a resume or a stutter of `SequentialRounds` |
| `OneVoteAlways` | `[]OneVotePerLearner` | `VoteInv`: one slot per learner, every push is of its slot's holder or of a learner whose slot it answered |
| `AttemptsAlwaysIsolated` | `[]AttemptIsolation` | `VoteInv`: a round holds answers to its own attempt only |
| `AlwaysDurableBeforeVisible` | `[]DurableBeforeVisible` | `DurableInv`: what is held or in transit is at most what is on disk, and the state is ahead of the disk only while a publication is pending, when nothing is sent |
| `TargetsAlwaysCovered` | `[]TargetsCovered` | targets are set and met together with the pending map |
| `AlwaysForwards` | `[]NeverBackwards` | `OrderInv`: what is queued or in flight is no newer than what is pending, and nothing is newer than the fragment; a connection that never spilled has nothing pending |
| `TailsAlwaysAfterOwed` | `TailAfterOwed` | `CatchUpInv`: while the connection is live, an owed version was given or is still a target, and whatever was popped or recorded as a floor was given |
| `OneSendPerTarget` | `[](tail # {} /\ ~CaughtUp => sends <= budget)` | `BoundInv`: frames sent, exact frames left and unmet targets together stay within the budget of the catch-up; the safety half of `CatchUpEnds` |
| `CutsAlwaysRoundRobin` | `[]CutIsRoundRobin` | `ShardInv`: every shard stands at a step of its own range, with its fragments at the versions of that step and its rounds counted |
| `UnionAlwaysUnsharded` | `[]UnionIsUnsharded` | the ranges partition the fragments; the steps merged by a shard are its own up to its last one, so the finished shards have merged every step |
| `AckedAlwaysFinal` | `[]AckedIsFinal` | `AckInv` follows an acknowledgement back: whoever is about to acknowledge, has an ACK under way or has one queued has installed the cut; an acknowledged learner never leaves `expected` |
| `NeverOverlooked` | `[]NoneOverlooked` | inductive with the types: a learner leaves `expected` only with no current connection, and a new connection queues its hello in the same step |
| `AlwaysAccounted` | `[]Accounted` | `Good`, kept by every operator of `Dispenser`; the counting argument is that rows only move between held, queued and settled, and that `PushFront` and a claim keep a queue's places `1..n` |
| `AlwaysTrainedOnce` | `[]TrainedOnce` | `DiskInv`, `SavingInv`: the record on disk goes with the model on disk and with any model saved before it, because the record is renamed first; so a restart never gives out a row its model was trained on |
| `AlwaysTracked` | `[]LiveIsTracked` | a holder leaves the member table only by being retired |
| `EndsAlwaysTrue` | `[]EndMeansDone` | `Onward`: a settled row stays settled while a syncer runs, so an END that is stored for a resend, on its way or noted by a process stays true |
| `IndexAlwaysInOrder` | `[]IndexInOrder` | `NumberInv`, `SourceInv`, `QueueInv`: a number stands for one group, a late frame has an older number for an older group, and nothing queued, in hand or indexed is behind what its process still sends |
| `WrittenAlwaysKept` | `[]WrittenIsKept` | `WrittenInv`, `PumpInv`, `TakeInv`: a group is kept as soon as its number is taken, and what a TAKE acknowledges, now or when a late frame is handled, is indexed or excused |
| `CursorNeverSkips` | `[]CursorSkipsNothing` | `FeedInv`: every entry the feed has passed is settled or kept for the open round, and a line of the cursor log, torn or whole, is at most a settled position |
| `AlwaysTrainedOnce` (`SampleRelay_proofs`) | `[]TrainedOnce` | `OnceInv`: without a death between train call and record, what was trained lies before the cursor, and an entry stands in the index once |

`NeverOverlooked` apart, none of these invariants is inductive by itself: `CommitsFit` says nothing of
who owns a fragment, so two rounds could share it; `CommittedCut` says nothing of
the file a crash resumes from; `DurableBeforeVisible` nothing of the state the
next broadcast is taken from; `AckedIsFinal` nothing of an acknowledgement that is
not handled yet; `NeverBackwards` nothing of the frames queued behind the one
sent; `TrainedOnce` nothing of the record a restart reads; `IndexInOrder` nothing
of the frames that come late. The dispenser's
invariant, `DispenseInv`, was checked by TLC on the instance of `task_dispense`
before it was proved, and so was the sample path's, `Inv`, on the instance of
`sample_relay`. The arithmetic of the schedule (the step after a commit, how one
merge changes the expected versions) opens `FragmentRounds_proofs` and
`Resend_proofs`. The facts about finite sets the sample path needs are collected in
`SetFacts`; its lemmas assume them, and `SetFactsHold` proves them.

Only model-checked: the liveness properties (`Terminates`, `CatchUpEnds`,
`EveryVersionArrives`, `FinalizationEnds`, `RequestsEnd`, `WrittenIsRead`), which
need fairness; `NeverFails`; the late carry properties; `SlotMovesAfterDrain`; what
the dispenser and an island process know of each other (`HoldingsAgree`,
`RefusedOnlyOrphans`, `CloseGivesBack`), which needs an invariant over every
request still under way; and everything about reconfiguration.

## 5. What is not modelled

- Of the rounds: dynamic membership (leases, capacity quorum, rejoin fences),
  learner budgets, inline broadcasts, and the tail of a peer recovery.
- Of finalization: recovering islands that are admitted during it, fatal events,
  acknowledgements of another step, renewal of leases (a lease may run out at any
  time), and the marker files.
- Of the sample path: several channels, samplers and trainers, groups that no
  round takes, byte limits, slots, boards, status requests, `RelayGone`, index
  shards and the object index, and a failing `fsync`.
- Of reconfiguration: edges that move trainers, pool changes, recommendations,
  the island topology, the driver's own engine recovery and `cancel_requested`. Error branches for a fork that contradicts itself
  (an unexpected epoch after a call that succeeded) are not reachable in the model.
- The components that `PROJECT.json` lists as `not_modelled`: peer recovery, the
  iso worker pool, the budget cutoff, the downlink codec and the subscribers could
  be modelled; the others are numerics, file formats, provisioning or display.

Time is a nondeterministic choice of when a deadline passes. The arithmetic of
merges is left out: the models know which deltas enter a merge, not their values.

## 6. Plan

Model, in this order: the membership of rounds with leases, fences and epochs,
and the peer recovery that needs it; the budget cutoff; the iso worker pool
(drain against admission, poison); the downlink anchors over lost and coalesced
frames; the object index with several writers.

Prove: `NeverFails` for a fixed roster; `CarriedOnce`; `HoldingsAgree`;
`SlotMovesAfterDrain`; `RequiredSticks`.
