--------------------------- MODULE FragmentRounds ---------------------------
(***************************************************************************)
(* The fragment-round protocol between the syncer's scheduler and its      *)
(* learners (syncer/src/server.rs, scheduler and the functions it calls):  *)
(* rounds are launched with a pull, gather pushes, are computed in the     *)
(* background, and commit strictly in step order, each commit persisted    *)
(* and broadcast; learners disconnect and come back under a new connection *)
(* generation; the syncer crashes and resumes from its checkpoint.         *)
(*                                                                         *)
(* Static membership, no learner budget, background resends.  Tensors are  *)
(* left out: a push is the delta of one learner connection from one anchor *)
(* (the fragment version it trained from).  Deadlines are nondeterministic.*)
(* The forwarder that sends a catch-up is module Resend; here its frames   *)
(* are in transit as soon as the catch-up starts.                          *)
(***************************************************************************)
EXTENDS Schedule, FiniteSets

CONSTANTS
    Learners,         \* logical learner ids
    Quorum,           \* --quorum
    Pipeline,         \* --pipeline
    TotalSteps,       \* --total-steps
    MaxBaseLag,       \* --max-base-lag, or NoLimit
    Grace,            \* --grace-ms > 0
    EqualWeights,     \* --learner-weight equal
    CheckpointEvery,  \* --checkpoint-every, 0 without a checkpoint path
    PolicySweep,      \* --policy-sweep-fragments is set
    AsyncCheckpoint,  \* --async-checkpoint
    StrictLearners,   \* strict RL learners (yeto/rl/bridge.py), else DiLoCo ones
    DrainTimeout,     \* a data reader may outlive DATA_READER_DRAIN
    LateHello,        \* bound: starts at which a HELLO may still be queued
    MaxBreaks,        \* bound: connections that fail
    MaxCrashes,       \* bound: crashes of the syncer
    MaxAttempts       \* bound: attempts of a round

None == -1

NoLimit == -1

\* validate_config: the options a syncer accepts together.
ValidConfig ==
    /\ Quorum \in 1 .. Cardinality(Learners)
    /\ AsyncCheckpoint => PolicySweep
    /\ PolicySweep =>
          /\ TotalSteps > 0 /\ TotalSteps % NumFragments = 0
          /\ Pipeline \in 1 .. NumFragments
          /\ MaxBaseLag = 0 /\ Quorum = Cardinality(Learners) /\ ~Grace
          /\ EqualWeights
          /\ \/ CheckpointEvery = 1
             \/ CheckpointEvery > 0 /\ CheckpointEvery % NumFragments = 0

ASSUME FragmentRoundsAssumption ==
    /\ IsFiniteSet(Learners)
    /\ Pipeline \in Nat
    /\ TotalSteps \in Nat
    /\ MaxBaseLag \in Nat \cup {NoLimit}
    /\ Grace \in BOOLEAN
    /\ EqualWeights \in BOOLEAN
    /\ CheckpointEvery \in Nat
    /\ PolicySweep \in BOOLEAN
    /\ AsyncCheckpoint \in BOOLEAN
    /\ StrictLearners \in BOOLEAN
    /\ DrainTimeout \in BOOLEAN
    /\ LateHello \in Nat
    /\ MaxBreaks \in Nat
    /\ MaxCrashes \in Nat
    /\ MaxAttempts \in Nat \ {0}
    /\ ValidConfig

VARIABLES
    phase,          \* "hello" (no state yet), "init", "train", "final" or "failed"
    globalStep,     \* st.global_step
    versions,       \* st.versions
    nextT,          \* next step to launch
    nextCommitT,    \* next step to commit
    round,          \* step -> its round: inflight, computing, ready, or idle
    busy,           \* busy_fragments
    publishing,     \* step whose async checkpoint is being written, or None
    disk,           \* the checkpoint file
    queued,         \* LateCarry.queued
    anchors,        \* LateCarry.anchors: member -> fragment -> version or None
    gathered,       \* LateCarry.gathered
    counted,        \* history: deltas that were merged, with late carry on
    groups,         \* Registry.groups
    current,        \* Registry.current: learner -> generation, 0 for none
    closing,        \* Registry.closing
    hello,          \* members whose Event::Hello is queued
    tails,          \* learner -> tails its current generation's resend owes
    gens,           \* learner -> last connection generation it used
    online,         \* learner -> generation it is connected with, 0 for none
    held,           \* learner -> fragment -> version it trains from, or None
    pulls,          \* learner -> pulls in transit to it or waiting there
    answered,       \* learner -> pulls a strict learner process answered
    pushes,         \* pushes in transit to the scheduler
    bcasts,         \* BCAST frames in transit
    breaks,         \* connections that failed so far
    crashes         \* crashes so far

stateVars    == <<phase, globalStep, versions, nextT, nextCommitT>>
roundVars    == <<round, busy, publishing, disk>>
carryVars    == <<queued, anchors, gathered, counted>>
registryVars == <<groups, current, closing, hello, tails>>
learnerVars  == <<gens, online, held, pulls, answered>>
linkVars     == <<pushes, bcasts>>
failureVars  == <<breaks, crashes>>

vars == <<stateVars, roundVars, carryVars, registryVars, learnerVars, linkVars,
          failureVars>>

LastStep == LastStepOf(TotalSteps)

Steps == 1 .. LastStep

Versions == 0 .. LastStep

\* A learner needs a new generation only after a failure.
MaxGen == 1 + MaxBreaks + MaxCrashes

Members == Learners \X (1 .. MaxGen)

Pulls == [t : Steps, attempt : 1 .. MaxAttempts]

Pushes == [m : Members, t : Steps, attempt : 1 .. MaxAttempts, base : Versions]

Bcasts == [m : Members, p : Owned, v : Versions]

Rounds ==
    [stage : {"idle", "gather", "compute", "ready"}, base : Versions,
     attempt : 0 .. MaxAttempts, expected : SUBSET Members,
     pushes : SUBSET Pushes, carried : SUBSET Pushes, exact : BOOLEAN]

Idle ==
    [stage |-> "idle", base |-> 0, attempt |-> 0, expected |-> {},
     pushes |-> {}, carried |-> {}, exact |-> FALSE]

ZeroVersions == [p \in Owned |-> 0]

NoAnchors == [m \in Members |-> [p \in Owned |-> None]]

TypeOK ==
    /\ phase \in {"hello", "init", "train", "final", "failed"}
    /\ globalStep \in Versions
    /\ versions \in [Owned -> Versions]
    /\ nextT \in Nat /\ nextCommitT \in Nat
    /\ round \in [Steps -> Rounds]
    /\ busy \subseteq Owned
    /\ publishing \in Steps \cup {None}
    /\ disk \in [step : Versions \cup {None}, versions : [Owned -> Versions]]
    /\ queued \subseteq Pushes
    /\ anchors \in [Members -> [Owned -> Versions \cup {None}]]
    /\ gathered \in [Members -> [Owned -> Versions \cup {None}]]
    /\ counted \subseteq (Pushes \X {"own", "carried"})
    /\ groups \subseteq Members
    /\ current \in [Learners -> 0 .. MaxGen]
    /\ closing \subseteq Members
    /\ hello \subseteq Members
    /\ tails \in [Learners -> SUBSET {"rejoin", "rebind"}]
    /\ gens \in [Learners -> 0 .. MaxGen]
    /\ online \in [Learners -> 0 .. MaxGen]
    /\ held \in [Learners -> [Owned -> Versions \cup {None}]]
    /\ pulls \in [Learners -> SUBSET Pulls]
    /\ answered \in [Learners -> SUBSET Pulls]
    /\ pushes \subseteq Pushes
    /\ bcasts \subseteq Bcasts
    /\ breaks \in 0 .. MaxBreaks
    /\ crashes \in 0 .. MaxCrashes

(***************************************************************************)
(* Configuration (scheduler, LateCarry::new, persist_before_broadcast).    *)
(***************************************************************************)

FixedRoster == MaxBaseLag = 0 /\ Quorum = Cardinality(Learners) /\ ~Grace

CarryOn == MaxBaseLag > 0 /\ ~FixedRoster

Depth ==
    LET wanted == IF Pipeline > 1 THEN Pipeline ELSE 1
    IN  IF wanted < End - First THEN wanted ELSE End - First

\* Mutant: a policy sweep persists only its own interval.
PersistSweepOnly(t) == PolicySweep /\ CheckpointEvery > 1 /\ t % CheckpointEvery = 0

\* Step t must be durable before its BCAST.
PersistBeforeBroadcast(t) ==
    \/ CheckpointEvery = 1
    \/ PolicySweep /\ CheckpointEvery > 0 /\ t % CheckpointEvery = 0

\* Step t is checkpointed after its BCAST.
PeriodicCheckpoint(t) ==
    ~PolicySweep /\ CheckpointEvery > 1 /\ RoundNumber(t) % CheckpointEvery = 0

(***************************************************************************)
(* The registry and the links.                                             *)
(***************************************************************************)

IsCurrent(m) == current[m[1]] = m[2]

CurrentGroups == {m \in groups : IsCurrent(m)}

\* A frame sent to member m now is not already lost.
Reaches(m) == online[m[1]] = m[2]

\* A learner being resent joins no new round (BulkResends::holds).
Holds(m) == tails[m[1]] # {}

\* The pulls after `pull` was sent to the members in `to`.
PullsSent(to, pull) ==
    [l \in Learners |->
        IF \E m \in to : m[1] = l /\ Reaches(m)
        THEN pulls[l] \cup {pull} ELSE pulls[l]]

\* Version v[p] of every fragment p in `frags` to the members in `to`.
Frames(to, frags, v) ==
    {[m |-> m, p |-> p, v |-> v[p]] : m \in {n \in to : Reaches(n)}, p \in frags}

\* broadcast_round: the last step is left to the final cut.
Broadcast(p, t) ==
    IF t < LastStep THEN Frames(CurrentGroups, {p}, [q \in {p} |-> t]) ELSE {}

(***************************************************************************)
(* Rounds.                                                                 *)
(***************************************************************************)

Inflight == {t \in Steps : round[t].stage = "gather"}

Active == {t \in Steps : round[t].stage # "idle"}

WithinLag(newer, base) == MaxBaseLag = NoLimit \/ newer - base <= MaxBaseLag

\* round_fold gives an exact fold, which takes no carried delta.
ExactFold(expected) == EqualWeights /\ Quorum >= Cardinality(expected)

\* Mutant: a delta queued for long is attached however old its base.
AttachableAnyLag(x, base, exact) == ~exact /\ x.base <= base

\* attach_carry admits delta x to a round with this base and fold.
Attachable(x, base, exact) ==
    ~exact /\ x.base <= base /\ base - x.base <= MaxBaseLag

AnsweredBy(t, l) == \E x \in round[t].pushes : x.m[1] = l

QuorumReached(t) == Cardinality(round[t].pushes) >= Quorum

Complete(t) ==
    /\ round[t].pushes # {}
    /\ \/ Cardinality(round[t].pushes) >= Cardinality(round[t].expected)
       \/ QuorumReached(t)

\* Mutant: a launch does not look at busy_fragments.
LaunchableBusy(t) ==
    /\ Cardinality(Active) < Depth
    /\ t <= LastStep

\* The launch conditions of the pipeline, the roster aside.
Launchable(t) ==
    /\ Cardinality(Active) < Depth
    /\ t <= LastStep
    /\ FragmentForStep(t) \notin busy

Launch ==
    LET t        == nextT
        p        == FragmentForStep(t)
        expected == {m \in CurrentGroups : ~Holds(m)}
        late     == {x \in queued : FragmentForStep(x.t) = p}
        exact    == ExactFold(expected)
    IN  /\ phase = "train"
        /\ Launchable(t)
        /\ expected # {}
        /\ FixedRoster => Cardinality(expected) >= Quorum
        /\ nextT' = StepAfter(t)
        /\ busy' = busy \cup {p}
        /\ round' = [round EXCEPT ![t] =
              [stage |-> "gather", base |-> versions[p], attempt |-> 1,
               expected |-> expected, pushes |-> {}, exact |-> exact,
               carried |-> {x \in late : Attachable(x, versions[p], exact)}]]
        /\ queued' = queued \ late
        /\ pulls' = PullsSent(expected, [t |-> t, attempt |-> 1])
        /\ UNCHANGED <<phase, globalStep, versions, nextCommitT, publishing,
                       disk, anchors, gathered, counted, registryVars,
                       gens, online, held, answered, linkVars, failureVars>>

\* RoundAction::Complete and prepare_round_compute, which refuses a base that
\* is no longer current and carried deltas under an exact fold.
Gathered(t) ==
    /\ phase = "train"
    /\ round[t].stage = "gather"
    /\ Complete(t)
    /\ IF /\ round[t].base = versions[FragmentForStep(t)]
          /\ round[t].carried = {} \/ ~round[t].exact
       THEN /\ round' = [round EXCEPT ![t].stage = "compute"]
            /\ UNCHANGED phase
       ELSE /\ phase' = "failed"
            /\ UNCHANGED round
    /\ UNCHANGED <<globalStep, versions, nextT, nextCommitT, busy, publishing,
                   disk, carryVars, registryVars, learnerVars, linkVars,
                   failureVars>>

\* The merge of round t is computed (SchedulerWake::Computed), which checks the
\* base once more; workers finish in any order.
Computed(t) ==
    /\ phase = "train"
    /\ round[t].stage = "compute"
    /\ IF round[t].base = versions[FragmentForStep(t)]
       THEN /\ round' = [round EXCEPT ![t].stage = "ready"]
            /\ UNCHANGED phase
       ELSE /\ phase' = "failed"
            /\ UNCHANGED round
    /\ UNCHANGED <<globalStep, versions, nextT, nextCommitT, busy, publishing,
                   disk, carryVars, registryVars, learnerVars, linkVars,
                   failureVars>>

\* The quorum deadline of round t expired (RoundAction::Restart).
TimedOut(t) ==
    /\ phase = "train"
    /\ round[t].stage = "gather"
    /\ ~Complete(t)

\* A fixed roster keeps the attempt: the pull goes again to every connected
\* learner that has not answered.
RepullRoster(t) ==
    LET r == round[t]
    IN  /\ FixedRoster
        /\ TimedOut(t)
        /\ Cardinality(CurrentGroups) >= Quorum
        /\ pulls' = PullsSent({m \in CurrentGroups : ~AnsweredBy(t, m[1])},
                              [t |-> t, attempt |-> r.attempt])
        /\ UNCHANGED <<stateVars, roundVars, carryVars, registryVars, gens,
                       online, held, answered, linkVars, failureVars>>

\* LateCarry::release_anchor for every push a restarted round drops.
Released(t) ==
    [m \in Members |-> [p \in Owned |->
        IF \E x \in round[t].pushes :
              x.m = m /\ FragmentForStep(t) = p /\ gathered[m][p] = x.base
        THEN gathered[m][p] - 1 ELSE gathered[m][p]]]

\* Round t under a new attempt: carried deltas stay, pushes do not.
NewAttempt(t) ==
    [round[t] EXCEPT !.expected = CurrentGroups,
                     !.base = versions[FragmentForStep(t)],
                     !.attempt = @ + 1,
                     !.pushes = {},
                     !.exact = ExactFold(CurrentGroups)]

Restart(t) ==
    /\ ~FixedRoster
    /\ TimedOut(t)
    /\ Cardinality(CurrentGroups) >= Quorum
    /\ round[t].attempt < MaxAttempts
    /\ round' = [round EXCEPT ![t] = NewAttempt(t)]
    /\ gathered' = IF CarryOn THEN Released(t) ELSE gathered
    /\ pulls' = PullsSent(CurrentGroups,
                          [t |-> t, attempt |-> round[t].attempt + 1])
    /\ UNCHANGED <<stateVars, busy, publishing, disk, queued, anchors,
                   counted, registryVars, gens, online, held, answered, linkVars,
                   failureVars>>

(***************************************************************************)
(* Commit, checkpoint and publication.                                     *)
(***************************************************************************)

\* Mutant: any computed round may commit.
CommitsNextAny(t) == round[t].stage = "ready"

\* take_next_commit: only the next step of the contiguous prefix commits.
CommitsNext(t) == t = nextCommitT /\ round[t].stage = "ready"

\* The checks of apply_round_commit and of the busy set, which bail.
CommitFits(t) ==
    LET p == FragmentForStep(t)
    IN  /\ t = StepAfter(globalStep)
        /\ versions[p] = round[t].base
        /\ p \in busy

\* Mutant: the checkpoint names the step to run next.
SnapshotNextStep(step, v) ==
    [step |-> IF step = None THEN None ELSE StepAfter(step), versions |-> v]

Snapshot(step, v) == [step |-> step, versions |-> v]

\* Mutant: a merge counts its fragment's version up.
ApplyIncrement(t) ==
    /\ versions' = [versions EXCEPT ![FragmentForStep(t)] = @ + 1]
    /\ globalStep' = t
    /\ UNCHANGED counted
    /\ round' = [round EXCEPT ![t] = Idle]
    /\ nextCommitT' = StepAfter(nextCommitT)

\* apply_round_commit.
Apply(t) ==
    /\ versions' = [versions EXCEPT ![FragmentForStep(t)] = t]
    /\ globalStep' = t
    /\ counted' = IF CarryOn
                  THEN counted \cup (round[t].pushes \X {"own"})
                               \cup (round[t].carried \X {"carried"})
                  ELSE counted
    /\ round' = [round EXCEPT ![t] = Idle]
    /\ nextCommitT' = StepAfter(nextCommitT)

\* commit_round, or its asynchronous form that leaves the fragment busy until
\* the checkpoint is written.  Only one such checkpoint is outstanding.
Commit(t) ==
    LET p == FragmentForStep(t)
        persist == PersistBeforeBroadcast(t)
    IN  /\ phase = "train"
        /\ CommitsNext(t)
        /\ publishing = None
        /\ IF CommitFits(t)
           THEN /\ Apply(t)
                /\ IF AsyncCheckpoint /\ persist
                   THEN /\ publishing' = t
                        /\ UNCHANGED <<busy, disk, bcasts>>
                   ELSE /\ disk' = IF persist \/ PeriodicCheckpoint(t)
                                   THEN Snapshot(t, versions') ELSE disk
                        /\ bcasts' = bcasts \cup Broadcast(p, t)
                        /\ busy' = busy \ {p}
                        /\ UNCHANGED publishing
                /\ UNCHANGED phase
           ELSE /\ phase' = "failed"
                /\ UNCHANGED <<globalStep, versions, nextCommitT, roundVars,
                               counted, bcasts>>
        /\ UNCHANGED <<nextT, queued, anchors, gathered, registryVars,
                       learnerVars, pushes, failureVars>>

\* finish_pending_publish.  The handlers that wait for it (settle) are guarded
\* by publishing = None.
SettlePublish ==
    LET p == FragmentForStep(publishing)
    IN  /\ phase = "train"
        /\ publishing # None
        /\ disk' = Snapshot(globalStep, versions)
        /\ bcasts' = bcasts \cup Broadcast(p, publishing)
        /\ phase' = IF p \in busy THEN phase ELSE "failed"
        /\ busy' = busy \ {p}
        /\ publishing' = None
        /\ UNCHANGED <<globalStep, versions, nextT, nextCommitT, round, carryVars,
                       registryVars, learnerVars, pushes, failureVars>>

\* The end of the round loop and its quiescence check; the final checkpoint.
Finish ==
    /\ phase = "train"
    /\ nextT > LastStep
    /\ Active = {}
    /\ publishing = None
    /\ phase' = IF /\ nextCommitT = StepAfter(LastStep)
                   /\ globalStep = LastStep
                   /\ busy = {}
                THEN "final" ELSE "failed"
    /\ disk' = IF CheckpointEvery > 1 THEN Snapshot(globalStep, versions) ELSE disk
    /\ tails' = [l \in Learners |-> {}]
    /\ UNCHANGED <<globalStep, versions, nextT, nextCommitT, round, busy,
                   publishing, carryVars, groups, current, closing,
                   hello, learnerVars, linkVars, failureVars>>

(***************************************************************************)
(* Pushes (Event::Push, route_push, LateCarry::carry).                     *)
(***************************************************************************)

\* Mutant: a push is matched by step only, whatever its attempt.
OpenAnyAttempt(x) == round[x.t].stage = "gather"

\* Some open round has the push's step and attempt.
Open(x) == round[x.t].stage = "gather" /\ round[x.t].attempt = x.attempt

\* Mutant: only the captured generation may answer, fixed roster or not.
ExpectedByMember(x) == x.m \in round[x.t].expected

\* The round captured the sender; a fixed roster captures logical learners.
Expected(x) ==
    IF FixedRoster THEN \E m \in round[x.t].expected : m[1] = x.m[1]
                   ELSE x.m \in round[x.t].expected

Duplicate(x) ==
    IF FixedRoster THEN AnsweredBy(x.t, x.m[1])
                   ELSE \E y \in round[x.t].pushes : y.m = x.m

\* route_push accepts x into its open round.
Accepts(x) ==
    /\ Open(x)
    /\ Expected(x)
    /\ x.base <= round[x.t].base
    /\ WithinLag(round[x.t].base, x.base)
    /\ ~Duplicate(x)

\* A stale base is a strict failure.
StaleFailure(x) ==
    /\ MaxBaseLag = 0
    /\ Open(x)
    /\ Expected(x)
    /\ x.base < round[x.t].base

\* Mutant: spent anchors are not looked at.
ReusesNoAnchor(x) == FALSE

\* LateCarry::reuses_anchor.
ReusesAnchor(x) == CarryOn /\ x.base <= anchors[x.m][FragmentForStep(x.t)]

\* LateCarry::carry does not reject x.
Carries(x) ==
    LET p == FragmentForStep(x.t)
    IN  /\ CarryOn /\ ~ReusesAnchor(x) /\ ~Open(x)
        /\ x.t < nextT
        /\ round[x.t].stage # "gather"
        /\ x.base <= versions[p]
        /\ x.base > gathered[x.m][p]
        /\ versions[p] - x.base <= MaxBaseLag

\* The open later round of the push's fragment.
LaterRounds(x) ==
    {t \in Inflight : FragmentForStep(t) = FragmentForStep(x.t) /\ t > x.t}

Attaches(x, t) == Carries(x) /\ Attachable(x, round[t].base, round[t].exact)

Raised(known, x) ==
    LET p == FragmentForStep(x.t)
    IN  [known EXCEPT ![x.m][p] = IF @ < x.base THEN x.base ELSE @]

\* Accepted by the round it answers.
Gather(x) ==
    /\ ~ReusesAnchor(x)
    /\ Accepts(x)
    /\ round' = [round EXCEPT ![x.t].pushes = @ \cup {x}]
    /\ gathered' = IF CarryOn THEN Raised(gathered, x) ELSE gathered
    /\ UNCHANGED <<phase, queued, anchors>>

\* Late: carried into the open later round of its fragment.
Attach(x) ==
    \E t \in LaterRounds(x) :
        /\ Attaches(x, t)
        /\ round' = [round EXCEPT ![t].carried = @ \cup {x}]
        /\ anchors' = Raised(anchors, x)
        /\ UNCHANGED <<phase, queued, gathered>>

\* Late: kept for the fragment's next round.
Queue(x) ==
    /\ Carries(x)
    /\ LaterRounds(x) = {}
    /\ queued' = queued \cup {x}
    /\ anchors' = Raised(anchors, x)
    /\ UNCHANGED <<phase, round, gathered>>

\* Rejected, which ends a strict run when the base is stale.
Reject(x) ==
    /\ ReusesAnchor(x) \/ ~Accepts(x)
    /\ ~Carries(x) \/ \E t \in LaterRounds(x) : ~Attaches(x, t)
    /\ phase' = IF StaleFailure(x) THEN "failed" ELSE phase
    /\ UNCHANGED <<round, queued, anchors, gathered>>

HandlePush(x) ==
    /\ x \in pushes
    /\ x.m \notin hello
    /\ pushes' = pushes \ {x}
    /\ \/ /\ phase = "train"
          /\ Gather(x) \/ Attach(x) \/ Queue(x) \/ Reject(x)
       \/ /\ phase = "init"
          /\ UNCHANGED <<phase, round, queued, anchors, gathered>>
    /\ UNCHANGED <<globalStep, versions, nextT, nextCommitT, busy, publishing,
                   disk, counted, registryVars, learnerVars, bcasts, failureVars>>

(***************************************************************************)
(* Start, connection events and catch-ups.                                 *)
(***************************************************************************)

\* Every expected learner is there: persist a fresh version zero, send the
\* initial (or resumed) cut, and begin the rounds.
Start ==
    /\ phase = "init"
    /\ Cardinality({l \in Learners : current[l] # 0}) = Cardinality(Learners)
    /\ crashes < LateHello \/ hello = {}
    /\ phase' = "train"
    /\ disk' = IF (CheckpointEvery = 1 \/ PolicySweep) /\ disk.step = None
               THEN Snapshot(globalStep, versions) ELSE disk
    /\ bcasts' = IF globalStep < LastStep
                 THEN bcasts \cup Frames(CurrentGroups, Owned, versions) ELSE bcasts
    /\ nextT' = StepAfter(globalStep)
    /\ nextCommitT' = StepAfter(globalStep)
    /\ UNCHANGED <<globalStep, versions, round, busy, publishing, carryVars,
                   registryVars, learnerVars, pushes, failureVars>>

\* settle_pending_publish has run: the versions are durable where they must be.
Settled == publishing = None

\* BulkResends::start.
CatchUp(m, tail) ==
    /\ tails' = [tails EXCEPT ![m[1]] = @ \cup {tail}]
    /\ bcasts' = IF globalStep < LastStep
                 THEN bcasts \cup Frames({m}, Owned, versions) ELSE bcasts

\* Event::Hello.  The first one creates the state, from the checkpoint if there
\* is one; during training it starts the catch-up of a current generation.
HandleHello(m) ==
    /\ m \in hello
    /\ hello' = hello \ {m}
    /\ \/ /\ phase = "hello"
          /\ phase' = "init"
          /\ globalStep' = IF disk.step = None THEN 0 ELSE disk.step
          /\ versions' = IF disk.step = None THEN ZeroVersions ELSE disk.versions
          /\ UNCHANGED <<tails, bcasts>>
       \/ /\ phase = "init"
          /\ UNCHANGED <<phase, globalStep, versions, tails, bcasts>>
       \/ /\ phase = "train" /\ IsCurrent(m)
          /\ Settled
          /\ CatchUp(m, "rejoin")
          /\ UNCHANGED <<phase, globalStep, versions>>
       \/ /\ phase = "train" /\ ~IsCurrent(m)
          /\ UNCHANGED <<phase, globalStep, versions, tails, bcasts>>
    /\ UNCHANGED <<nextT, nextCommitT, roundVars, carryVars, groups, current,
                   closing, learnerVars, pushes, failureVars>>

\* Mutant: Event::Disconnected does not wait for the data readers.
DrainedNever(m) == TRUE

\* Every event the connection queued before closing was handled.
Drained(m) ==
    /\ m \notin hello
    /\ DrainTimeout \/ \A x \in pushes : x.m # m

\* Event::Disconnected; the unanswered slots of m may move to its replacement.
HandleDisconnected(m) ==
    LET replacement == <<m[1], current[m[1]]>>
    IN  /\ phase \in {"init", "train"}
        /\ m \in closing
        /\ Drained(m)
        /\ closing' = closing \ {m}
        /\ IF phase = "train" /\ ~FixedRoster /\ replacement \in groups
           THEN Settled /\ CatchUp(replacement, "rebind")
           ELSE UNCHANGED <<tails, bcasts>>
        /\ UNCHANGED <<stateVars, roundVars, carryVars, groups, current, hello,
                       learnerVars, pushes, failureVars>>

\* Mutant: a slot moves although an older generation answered.
RebindableAnswered(t, m) ==
    /\ round[t].stage = "gather"
    /\ \E old \in round[t].expected :
          old[1] = m[1] /\ old # m /\ old \notin groups /\ old \notin closing

\* rebind_current_unanswered_rounds moves the learner's slot in round t to m.
Rebindable(t, m) ==
    /\ round[t].stage = "gather"
    /\ ~AnsweredBy(t, m[1])
    /\ \E old \in round[t].expected :
          old[1] = m[1] /\ old # m /\ old \notin groups /\ old \notin closing

Rebound(t, m) ==
    LET old == CHOOSE n \in round[t].expected : n[1] = m[1] /\ n # m
    IN  [round[t] EXCEPT !.expected = (@ \ {old}) \cup {m}]

\* fixed_roster_repulls replays the pull of round t to m.
Replayed(t, m) ==
    /\ round[t].stage = "gather"
    /\ ~AnsweredBy(t, m[1])
    /\ \E old \in round[t].expected : old[1] = m[1] /\ old # m

\* finish_catch_up: the learner's frames are handed over.
FinishCatchUp(l) ==
    LET m     == <<l, current[l]>>
        moved == {t \in Steps : Rebindable(t, m)}
        again == IF FixedRoster THEN {t \in Steps : Replayed(t, m)} ELSE moved
    IN  /\ phase = "train"
        /\ tails[l] # {}
        /\ tails' = [tails EXCEPT ![l] = {}]
        /\ round' = IF FixedRoster THEN round
                    ELSE [t \in Steps |->
                            IF t \in moved THEN Rebound(t, m) ELSE round[t]]
        /\ pulls' = IF Reaches(m)
                    THEN [pulls EXCEPT ![l] = @ \cup
                            {[t |-> t, attempt |-> round[t].attempt] : t \in again}]
                    ELSE pulls
        /\ UNCHANGED <<stateVars, busy, publishing, disk, carryVars,
                       groups, current, closing, hello, gens, online, held,
                       answered, linkVars, failureVars>>

(***************************************************************************)
(* Connections and learners.                                               *)
(***************************************************************************)

\* register_group_with: a new generation replaces the learner's current one.
\* A resend owed to the replaced generation is dropped.
Connect(l) ==
    LET g == gens[l] + 1
    IN  /\ phase \in {"hello", "init", "train"}
        /\ online[l] = 0
        /\ g <= MaxGen
        /\ gens' = [gens EXCEPT ![l] = g]
        /\ online' = [online EXCEPT ![l] = g]
        /\ groups' = groups \cup {<<l, g>>}
        /\ current' = [current EXCEPT ![l] = g]
        /\ hello' = hello \cup {<<l, g>>}
        /\ tails' = [tails EXCEPT ![l] = {}]
        /\ UNCHANGED <<stateVars, roundVars, carryVars, closing, held, pulls,
                       answered, linkVars, failureVars>>

\* What a learner still has after its connections broke.  A strict learner
\* process ends and a new one takes its place; a DiLoCo learner reconnects and
\* keeps its fragments and some of the pulls it had already taken.
AfterBreak(lost, kept) ==
    /\ held' = [l \in Learners |-> IF l \in lost /\ StrictLearners
                                   THEN [p \in Owned |-> None] ELSE held[l]]
    /\ pulls' = [l \in Learners |-> IF l \notin lost THEN pulls[l]
                                    ELSE IF StrictLearners THEN {}
                                    ELSE pulls[l] \cap kept]
    /\ answered' = [l \in Learners |-> IF l \in lost THEN {} ELSE answered[l]]

\* The learner's connection fails.  Frames to it are lost; so may be its pushes.
Break(l) ==
    LET m == <<l, online[l]>>
    IN  /\ phase \in {"init", "train"}
        /\ online[l] # 0
        /\ breaks < MaxBreaks
        /\ breaks' = breaks + 1
        /\ online' = [online EXCEPT ![l] = 0]
        /\ \E lost \in SUBSET {x \in pushes : x.m = m} : pushes' = pushes \ lost
        /\ bcasts' = {b \in bcasts : b.m # m}
        /\ \E kept \in SUBSET pulls[l] : AfterBreak({l}, kept)
        /\ UNCHANGED <<stateVars, roundVars, carryVars, registryVars, gens,
                       crashes>>

\* unregister: the syncer sees that connection m is closed.
Unregister(m) ==
    /\ m \in groups
    /\ ~Reaches(m)
    /\ groups' = groups \ {m}
    /\ closing' = closing \cup {m}
    /\ current' = IF IsCurrent(m) THEN [current EXCEPT ![m[1]] = 0] ELSE current
    /\ tails' = IF IsCurrent(m) THEN [tails EXCEPT ![m[1]] = {}] ELSE tails
    /\ UNCHANGED <<stateVars, roundVars, carryVars, hello, learnerVars, linkVars,
                   failureVars>>

\* A BCAST arrives; an older version than the one held is ignored.
Deliver(b) ==
    LET l == b.m[1]
    IN  /\ b \in bcasts
        /\ bcasts' = bcasts \ {b}
        /\ held' = [held EXCEPT ![l][b.p] = IF @ < b.v THEN b.v ELSE @]
        /\ UNCHANGED <<stateVars, roundVars, carryVars, registryVars, gens,
                       online, pulls, answered, pushes, failureVars>>

\* A learner answers a pull from the version it holds.  A strict learner
\* answers only from the version the step follows, and each pull once.
Ready(l, pull) ==
    LET p == FragmentForStep(pull.t)
    IN  /\ held[l][p] # None
        /\ StrictLearners => held[l][p] = ExpectedVersion(p, pull.t - 1)

Answer(l, pull) ==
    LET p == FragmentForStep(pull.t)
    IN  /\ online[l] # 0
        /\ pull \in pulls[l]
        /\ Ready(l, pull)
        /\ pulls' = [pulls EXCEPT ![l] = @ \ {pull}]
        /\ pushes' = IF pull \in answered[l] THEN pushes
                     ELSE pushes \cup
                            {[m |-> <<l, online[l]>>, t |-> pull.t,
                              attempt |-> pull.attempt, base |-> held[l][p]]}
        /\ answered' = IF StrictLearners THEN [answered EXCEPT ![l] = @ \cup {pull}]
                       ELSE answered
        /\ UNCHANGED <<stateVars, roundVars, carryVars, registryVars, gens,
                       online, held, bcasts, failureVars>>

(***************************************************************************)
(* Crash of the syncer process; it is started again with --resume.         *)
(***************************************************************************)

Crash ==
    /\ phase \in {"init", "train"}
    /\ disk.step # None
    /\ crashes < MaxCrashes
    /\ crashes' = crashes + 1
    /\ phase' = "hello"
    /\ globalStep' = 0
    /\ versions' = ZeroVersions
    /\ nextT' = StepAfter(0) /\ nextCommitT' = StepAfter(0)
    /\ round' = [t \in Steps |-> Idle]
    /\ busy' = {}
    /\ publishing' = None
    /\ queued' = {} /\ counted' = {}
    /\ anchors' = NoAnchors /\ gathered' = NoAnchors
    /\ groups' = {} /\ closing' = {} /\ hello' = {}
    /\ current' = [l \in Learners |-> 0]
    /\ tails' = [l \in Learners |-> {}]
    /\ online' = [l \in Learners |-> 0]
    /\ \E kept \in SUBSET UNION {pulls[l] : l \in Learners} :
          AfterBreak(Learners, kept)
    /\ pushes' = {} /\ bcasts' = {}
    /\ UNCHANGED <<disk, gens, breaks>>

(***************************************************************************)
(* The specification.                                                      *)
(***************************************************************************)

Init ==
    /\ phase = "hello"
    /\ globalStep = 0
    /\ versions = ZeroVersions
    /\ nextT = StepAfter(0) /\ nextCommitT = StepAfter(0)
    /\ round = [t \in Steps |-> Idle]
    /\ busy = {}
    /\ publishing = None
    /\ disk = Snapshot(None, ZeroVersions)
    /\ queued = {} /\ counted = {}
    /\ anchors = NoAnchors /\ gathered = NoAnchors
    /\ groups = {} /\ closing = {} /\ hello = {}
    /\ current = [l \in Learners |-> 0]
    /\ tails = [l \in Learners |-> {}]
    /\ gens = [l \in Learners |-> 0]
    /\ online = [l \in Learners |-> 0]
    /\ held = [l \in Learners |-> [p \in Owned |-> None]]
    /\ pulls = [l \in Learners |-> {}]
    /\ answered = [l \in Learners |-> {}]
    /\ pushes = {} /\ bcasts = {}
    /\ breaks = 0 /\ crashes = 0

\* The run is over (finalization is not part of this module).
Done == phase = "final" /\ UNCHANGED vars

\* The bound on attempts stops the model where the syncer would try again.
AttemptsBound ==
    /\ \E t \in Steps :
          ~FixedRoster /\ TimedOut(t) /\ round[t].attempt = MaxAttempts
    /\ UNCHANGED vars

Scheduler ==
    \/ Start
    \/ Launch
    \/ \E t \in Steps : Gathered(t) \/ Computed(t) \/ Commit(t)
    \/ \E t \in Steps : RepullRoster(t) \/ Restart(t)
    \/ SettlePublish
    \/ Finish
    \/ \E x \in pushes : HandlePush(x)
    \/ \E m \in hello : HandleHello(m)
    \/ \E m \in closing : HandleDisconnected(m)
    \/ \E l \in Learners : FinishCatchUp(l)

Learner ==
    \/ \E l \in Learners : Connect(l)
    \/ \E b \in bcasts : Deliver(b)
    \/ \E l \in Learners : \E pull \in pulls[l] : Answer(l, pull)

Failure ==
    \/ \E l \in Learners : Break(l)
    \/ Crash

Next ==
    \/ Scheduler
    \/ Learner
    \/ \E m \in groups : Unregister(m)
    \/ Failure
    \/ Done
    \/ AttemptsBound

Safety == Init /\ [][Next]_vars

\* Every pass of the scheduler's loop commits, launches, completes and handles
\* events; its deadlines fire; merges are computed; checkpoints are written;
\* a broken connection is noticed and the learner comes back; frames of a live
\* connection arrive and a learner answers the pulls it can.  Failures are not
\* forced.
Fairness ==
    /\ WF_vars(Start) /\ WF_vars(Launch)
    /\ WF_vars(SettlePublish) /\ WF_vars(Finish)
    /\ \A t \in Steps :
          WF_vars(Gathered(t)) /\ WF_vars(Computed(t)) /\ WF_vars(Commit(t))
    /\ \A t \in Steps : WF_vars(RepullRoster(t)) /\ WF_vars(Restart(t))
    /\ WF_vars(\E x \in pushes : HandlePush(x))
    /\ WF_vars(\E m \in hello : HandleHello(m))
    /\ WF_vars(\E m \in closing : HandleDisconnected(m))
    /\ \A l \in Learners : WF_vars(FinishCatchUp(l)) /\ WF_vars(Connect(l))
    /\ WF_vars(\E m \in groups : Unregister(m))
    /\ WF_vars(\E b \in bcasts : Deliver(b))
    /\ \A l \in Learners : WF_vars(\E pull \in pulls[l] : Answer(l, pull))

Spec == Safety /\ Fairness

(***************************************************************************)
(* Properties.                                                             *)
(***************************************************************************)

\* None of the scheduler's own checks ever fails: a commit is contiguous and
\* its fragment still has the round's base (apply_round_commit), a round's base
\* is current when it is computed and carried deltas meet no exact fold
\* (prepare_round_compute), a busy fragment is released once, a strict learner
\* never pushes a stale base, and the loop ends on a quiescent cut.
NeverFails == phase # "failed"

\* A round works on the current version of its fragment and owns the fragment
\* from launch to commit, so the round whose turn it is always passes the checks
\* of apply_round_commit, however far later rounds got meanwhile.
CommitsFit ==
    phase = "train" =>
        \A t \in Active :
            /\ round[t].base = versions[FragmentForStep(t)]
            /\ CommitsNext(t) => CommitFits(t)

\* However rounds overlap and finish, and wherever the syncer restarted from,
\* the committed versions are the round-robin cut at global_step.
CommittedCut == \A p \in Owned : versions[p] = ExpectedVersion(p, globalStep)

\* The state and the checkpoint as the abstract loop sees them.
Sequential ==
    INSTANCE SequentialRounds WITH up <- phase # "hello", step <- globalStep

\* The pipelined scheduler implements the sequential loop: merges apply one at
\* a time in schedule order, a checkpoint is a state the loop was in, and a
\* resume continues from it.
ImplementsSequential == Sequential!Spec

\* A logical learner has one slot and at most one accepted push in a round,
\* whatever generations it went through ("first valid PUSH per member wins").
OneVotePerLearner ==
    \A t \in Active :
        /\ \A m, n \in round[t].expected : m[1] = n[1] => m = n
        /\ \A x, y \in round[t].pushes : x.m[1] = y.m[1] => x = y

\* "A delayed response from a discarded attempt cannot enter its retry": a
\* round holds only answers to its own pull under its own attempt.
AttemptIsolation ==
    \A t \in Active : \A x \in round[t].pushes :
        x.t = t /\ x.attempt = round[t].attempt

\* rebind_current_unanswered_rounds moves a slot only after every push of the
\* captured generation was handled: no answer it sent is refused because its
\* slot moved to the replacement.
SlotMovesAfterDrain ==
    [][ \A t \in Steps :
          round[t].stage = "gather" /\ round'[t].attempt = round[t].attempt =>
            \A old \in round[t].expected \ round'[t].expected :
              ~\E x \in pushes : x.m = old /\ Open(x) /\ x.t = t ]_vars

\* With a checkpoint per round, a version is durable before any learner can see
\* it, so a syncer that crashes resumes at or past every learner: nobody trains
\* from a version that will be merged again.
DurableBeforeVisible ==
    CheckpointEvery = 1 =>
        /\ \A l \in Learners : \A p \in Owned :
              held[l][p] # None =>
                  disk.step # None /\ held[l][p] <= disk.versions[p]
        /\ \A b \in bcasts : disk.step # None /\ b.v <= disk.versions[b.p]

\* The late deltas that wait to be merged.
Late == queued \cup UNION {round[t].carried : t \in Active}

SameDelta(x, y) ==
    x.m = y.m /\ x.base = y.base /\ FragmentForStep(x.t) = FragmentForStep(y.t)

\* "A carried delta counts once": beside a late delta, and once it was merged,
\* no other delta of that connection from the same anchor stands to be merged.
CarriedOnce ==
    \A x \in Late \cup {c[1] : c \in {d \in counted : d[2] = "carried"}} :
        \A y \in Late \cup UNION {round[t].pushes : t \in Active} :
            SameDelta(x, y) => x = y

\* "A late push from an anchor whose delta was already merged is not carried"
\* (LateCarry).
MergedNotCarried ==
    \A x \in Late : ~\E c \in counted : c[2] = "own" /\ SameDelta(x, c[1])

\* "Only a streaming fold admits them" (prepare_round_compute): a round that
\* has carried deltas never has an exact fold, which could not merge them.
CarriedNeverExact == \A t \in Active : round[t].carried # {} => ~round[t].exact

\* Every delta of a commit is an answer to that step, or late to an earlier step
\* of the fragment, and trained from a version at most --max-base-lag behind the
\* one it is merged into, which is still current when the merge commits.
MergeWithinLag ==
    [][ globalStep' > globalStep /\ phase = "train" =>
          LET t == globalStep'
          IN  \A x \in round[t].pushes \cup round[t].carried :
                /\ x.base <= versions[FragmentForStep(t)]
                /\ WithinLag(versions[FragmentForStep(t)], x.base)
                /\ FragmentForStep(x.t) = FragmentForStep(t) ]_vars

\* A run whose learners keep coming back ends with every step committed.
Terminates == <>(phase = "final")

=============================================================================
