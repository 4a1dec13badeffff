--------------------------- MODULE Reconfiguration ---------------------------
(***************************************************************************)
(* The reconfiguration controller of an elastic RL island                  *)
(* (yeto/rl/engine/controller.py) with its journal (journal.py), the       *)
(* watchdog thread, and the engine fork that holds the rollout cells.      *)
(* Rollout-only edges: a request changes how many cells serve.  The        *)
(* journal is kept as what _replay computes from it.  A crash may fall     *)
(* between any two steps; the fork then restarts at its startup shape, or  *)
(* outlives the learner.                                                   *)
(***************************************************************************)
EXTENDS Integers, FiniteSets, TLC

CONSTANTS Cells,       \* the declared rollout cells, numbered in declared order
          Engines,     \* configuration -> the number of its rollout engines
          Startup,     \* initial_config
          Requests,
          MaxRecovery, \* max_recovery_attempts
          MaxPasses,   \* passes of one membership recovery (3 in the code)
          Scenarios    \* how often each event may happen in a behaviour

ASSUME EngineCounts ==
  /\ Cells \subseteq Nat /\ IsFiniteSet(Cells)
  /\ \A k \in DOMAIN Engines : Engines[k] \in 1..Cardinality(Cells)
  /\ Startup \in DOMAIN Engines
  /\ MaxRecovery \in Nat \ {0} /\ MaxPasses \in Nat \ {0}

VARIABLES epochs,   \* epochs.json: the durable configuration
          log,      \* the journal, as _replay reads it
          ctl,      \* the controller in the learner process, and where it is
          call,     \* the fork operation it waits for
          fork,     \* the engine fork: the cells and its membership mirror
          late,     \* 0 in time, 1 past the deadline, 2 past T_recovery too
          left      \* event -> how often it may still happen

vars == <<epochs, log, ctl, call, fork, late, left>>

None == "none"
Configs == DOMAIN Engines
NoOp == [op |-> None, cells |-> {}]
NoCall == [op |-> None, cells |-> {}, outcome |-> None]
NoIssue == [op |-> None, cells |-> {}, expected |-> 0]
Events == {"request", "crash", "fault", "die"}

Live == {"SUCCEEDED", "CANCELLED", "REBUILT_OLD"}
TERMINAL == Live \cup {"RECOVERY_REQUIRED"}
DESTRUCTIVE == {"TRANSFERRING", "INITIALIZING", "VERIFYING", "REBUILD_OLD"}
Phases == TERMINAL \cup DESTRUCTIVE
            \cup {"VALIDATING", "WAIT_SAFE", "QUIESCING", "COMMITTED", "RESUMING"}

Lowest(S, k) == {c \in S : Cardinality({d \in S : d < c}) < k}
Highest(S, k) == {c \in S : Cardinality({d \in S : d > c}) < k}

\* The fork at its startup shape: the initial configuration's cells, epoch 0.
StartedFork ==
  LET cells == Lowest(Cells, Engines[Startup])
  IN  [epoch |-> 0, running |-> cells, ready |-> cells, cordoned |-> {}, lost |-> {},
       incomplete |-> NoOp, lastOp |-> NoOp, outlived |-> FALSE]

\* A mutant: the recovery latch is not read back from the journal.
ReplayedUnlatched ==
  [at |-> "reconcile", tx |-> None, old |-> {}, removed |-> {}, added |-> {},
   started |-> FALSE, admission |-> TRUE, required |-> FALSE, confirm |-> FALSE,
   finalizing |-> FALSE, fired |-> FALSE, passes |-> 0, lastOp |-> log.lastOp,
   pending |-> log.pending,
   epoch |-> IF log.epoch > epochs.fork THEN log.epoch ELSE epochs.fork]

\* What the learner keeps in memory, as __init__ leaves it after _replay.
Replayed ==
  [at |-> "reconcile", tx |-> None, old |-> {}, removed |-> {}, added |-> {},
   started |-> FALSE, admission |-> TRUE, required |-> log.required, confirm |-> FALSE,
   finalizing |-> FALSE, fired |-> FALSE, passes |-> 0, lastOp |-> log.lastOp,
   pending |-> log.pending,
   epoch |-> IF log.epoch > epochs.fork THEN log.epoch ELSE epochs.fork]

Init ==
  /\ epochs = [config |-> Startup, epoch |-> 0, fork |-> 0,
               members |-> StartedFork.running, last |-> None]
  /\ log = [phases |-> [r \in Requests |-> {}], target |-> [r \in Requests |-> None],
            epoch |-> 0, lastOp |-> NoOp, pending |-> NoOp, issued |-> NoIssue,
            required |-> FALSE, unverified |-> 0]
  /\ fork = StartedFork
  /\ ctl = [at |-> "idle", tx |-> None, old |-> {}, removed |-> {}, added |-> {},
            started |-> FALSE, admission |-> TRUE, required |-> FALSE, confirm |-> FALSE,
            finalizing |-> FALSE, fired |-> FALSE, passes |-> 0, lastOp |-> NoOp,
            pending |-> NoOp, epoch |-> 0]
  /\ call = NoCall
  /\ late = 0
  /\ left \in Scenarios

-----------------------------------------------------------------------------
(* The journal and the transaction *)

Happens(e) == left[e] > 0 /\ left' = [left EXCEPT ![e] = @ - 1]
Quiet == UNCHANGED left

Ended(r) == log.phases[r] \cap TERMINAL # {}
Open == {r \in Requests : log.phases[r] # {} /\ ~Ended(r)}

Phase(l, r, ps) == IF r = None THEN l ELSE [l EXCEPT !.phases[r] = @ \cup ps]
Members == fork.running
At(c, where) == [c EXCEPT !.at = where]

\* The process ends: nothing of the controller's memory is left.
Gone(c) == [c EXCEPT !.at = "down", !.tx = None, !.old = {}, !.removed = {}, !.added = {},
             !.started = FALSE, !.admission = FALSE, !.confirm = FALSE, !.passes = 0,
             !.fired = FALSE, !.finalizing = FALSE, !.lastOp = NoOp, !.pending = NoOp,
             !.required = FALSE, !.epoch = 0]

\* The journal after _enter_recovery: the island's record, and the terminal
\* record of the request when the caller names one that has none.
Required(l, r) ==
  [l EXCEPT !.required = TRUE,
            !.phases = [q \in Requests |->
                          IF q = r /\ @[q] \cap TERMINAL = {} THEN @[q] \cup {"RECOVERY_REQUIRED"}
                          ELSE @[q]]]

\* RecoveryRequired reaches the driver and ends the learner.
EnterRecovery(r) ==
  /\ log' = Required(log, r)
  /\ ctl' = Gone(ctl)

Finish(c, phase) ==
  /\ log' = Phase(log, c.tx, {phase})
  /\ ctl' = [c EXCEPT !.at = "idle", !.tx = None, !.old = {}, !.removed = {}, !.added = {},
                      !.started = FALSE, !.fired = FALSE, !.admission = ~c.required]

\* The entry of _rebuild_old, from a failed step of the destructive part.
RebuildOld(c, l) ==
  IF c.required THEN /\ log' = l
                     /\ ctl' = Gone(c)
                ELSE /\ log' = Phase(l, c.tx, {"REBUILD_OLD"})
                     /\ ctl' = At(c, "retry rebuild")

\* _check_deadline.
Overdue(c) == late > 0 \/ c.fired
-----------------------------------------------------------------------------
(* The operator's commands, polled between rounds *)

Requestable(t) ==
  /\ ctl.at = "idle" /\ ctl.tx = None
  /\ ~ctl.finalizing /\ ~ctl.required
  /\ t # epochs.config

Request(r, t) ==
  /\ Requestable(t)
  /\ log.phases[r] = {} /\ Happens("request")
  /\ log' = [log EXCEPT !.phases[r] = {"VALIDATING"}, !.target[r] = t]
  /\ ctl' = [ctl EXCEPT !.tx = r]
  /\ late' = 0
  /\ UNCHANGED <<epochs, call, fork>>

Cancel ==
  /\ ctl.at = "idle" /\ ctl.tx # None
  /\ Finish(ctl, "CANCELLED")
  /\ UNCHANGED <<epochs, call, fork, late>> /\ Quiet

EnterFinalization ==
  /\ ctl.at = "idle" /\ ~ctl.finalizing
  /\ IF ctl.tx # None THEN Finish([ctl EXCEPT !.finalizing = TRUE], "CANCELLED")
                      ELSE ctl' = [ctl EXCEPT !.finalizing = TRUE] /\ UNCHANGED log
  /\ UNCHANGED <<epochs, call, fork, late>> /\ Quiet

-----------------------------------------------------------------------------
(* One fork operation: journalled as issued, applied, answered *)

Op(o, cells) == [op |-> o, cells |-> cells]

\* _fork_call up to the call.
Issue(c, l, o, cells, where) ==
  /\ ctl' = At(c, where)
  /\ log' = [l EXCEPT !.issued = [op |-> o, cells |-> cells, expected |-> c.epoch]]
  /\ call' = [op |-> o, cells |-> cells, outcome |-> "sent"]

\* A stop forgets everything about the cell; a started cell has no weights yet.
Applied(f, o, cells) ==
  IF o = "stop" THEN [f EXCEPT !.running = @ \ cells, !.ready = @ \ cells, !.cordoned = @ \ cells]
  ELSE [f EXCEPT !.running = @ \cup cells, !.lost = @ \ cells]

\* The operation as the fork completes it.
Completed(f, o, cells) ==
  [Applied(f, o, cells) EXCEPT !.epoch = @ + 1, !.lastOp = Op(o, cells), !.incomplete = NoOp]

\* A stop that failed half way is to be retried; a start whose rollback failed
\* is to be stopped.
HalfFailed(f, o, cells, some) ==
  [Applied(f, o, some) EXCEPT !.incomplete = Op("stop", cells)]

Repeated == fork.lastOp = Op(call.op, call.cells) /\ ctl.epoch = fork.epoch - 1
Refused == ~Repeated /\ \/ fork.incomplete # NoOp /\ fork.incomplete # Op(call.op, call.cells)
                        \/ fork.epoch # ctl.epoch

Faults ==
  {[fork |-> fork, outcome |-> o] : o \in {"raised", "unreadable"}}
    \cup {[fork |-> Completed(fork, call.op, call.cells), outcome |-> o] : o \in {"raised", "unreadable", "unheard"}}
    \cup {[fork |-> HalfFailed(fork, call.op, call.cells, S), outcome |-> "raised"] : S \in SUBSET call.cells}

\* The fork carries the operation out, refuses it, or fails in it; "unreadable"
\* is a failure after which membership_status fails too, "unheard" a success
\* after which it fails.
Apply ==
  /\ call.outcome = "sent"
  /\ \/ Repeated /\ call' = [call EXCEPT !.outcome = "ok"] /\ UNCHANGED fork /\ Quiet
     \/ Repeated /\ call' = [call EXCEPT !.outcome = "unheard"] /\ UNCHANGED fork /\ Happens("fault")
     \/ Refused /\ call' = [call EXCEPT !.outcome = "raised"] /\ UNCHANGED fork /\ Quiet
     \/ /\ ~Repeated /\ ~Refused
        /\ fork' = Completed(fork, call.op, call.cells)
        /\ call' = [call EXCEPT !.outcome = "ok"]
        /\ Quiet
     \/ /\ ~Repeated /\ ~Refused
        /\ \E x \in Faults : fork' = x.fork /\ call' = [call EXCEPT !.outcome = x.outcome]
        /\ Happens("fault")
  /\ UNCHANGED <<epochs, log, ctl, late>>

Raised == call.outcome \in {"raised", "unreadable", "unheard"}
Unfinished == call.outcome = "raised" /\ fork.incomplete # NoOp
\* Answered with success, or seen in the fork's status after the exception.
Done == \/ call.outcome = "ok"
        \/ call.outcome = "raised" /\ ~Unfinished /\ fork.epoch = ctl.epoch + 1
Inexplicable == call.outcome = "raised" /\ ~Unfinished /\ fork.epoch \notin {ctl.epoch, ctl.epoch + 1}

\* _fork_call after the call: what the controller remembers, what it journals.
\* An unheard success leaves the "issued" record the last one.
Told ==
  [ctl EXCEPT !.epoch = IF Done THEN @ + 1 ELSE @,
              !.lastOp = IF Done THEN Op(call.op, call.cells) ELSE @,
              !.pending = IF Unfinished THEN fork.incomplete
                          ELSE IF Raised THEN @ ELSE NoOp,
              !.required = @ \/ Inexplicable,
              !.admission = @ /\ ~Inexplicable]

Journalled ==
  LET l == [log EXCEPT !.epoch = IF Done THEN ctl.epoch + 1 ELSE @,
                       !.lastOp = IF Done THEN Op(call.op, call.cells) ELSE @,
                       !.pending = IF Unfinished THEN fork.incomplete ELSE IF Done THEN NoOp ELSE @,
                       !.issued = IF call.outcome = "unheard" THEN @ ELSE NoIssue]
  IN  IF Inexplicable THEN Required(l, ctl.tx) ELSE l

Answered(where) ==
  /\ ctl.at = where
  /\ call.outcome \in {"ok", "raised", "unreadable", "unheard"}
  /\ call' = NoCall
-----------------------------------------------------------------------------
(* A transaction at a safe point, up to the release *)

\* _execute begins: admission is fenced.  The cells with the highest numbers go.
Execute(c, l) ==
  LET shrink == Engines[epochs.config] - Engines[log.target[c.tx]]
  IN  /\ ctl' = [c EXCEPT !.at = "drain", !.old = Members, !.admission = FALSE,
                          !.removed = IF shrink > 0 THEN Highest(Members, shrink) ELSE {}]
      /\ log' = Phase(l, c.tx, {"QUIESCING"})

\* A mutant: a request past its deadline still waits.
SafePointPatient ==
  /\ ctl.at = "idle" /\ ctl.tx # None
  /\ LET waiting == Phase(log, ctl.tx, {"WAIT_SAFE"})
     IN  \/ late > 0 /\ log' = waiting /\ UNCHANGED ctl
         \/ late = 0 /\ Finish(ctl, "CANCELLED")
         \/ late = 0 /\ log' = waiting /\ UNCHANGED ctl
         \/ late = 0 /\ Members # epochs.members /\ log' = Required(waiting, ctl.tx) /\ ctl' = Gone(ctl)
         \/ late = 0 /\ Members = epochs.members /\ Execute(ctl, waiting)
  /\ UNCHANGED <<epochs, call, fork, late>> /\ Quiet

SafePoint ==
  /\ ctl.at = "idle" /\ ctl.tx # None
  /\ LET waiting == Phase(log, ctl.tx, {"WAIT_SAFE"})
     IN  \/ late > 0 /\ Finish(ctl, "CANCELLED")
         \* the pause decision, the blockers after T_safe_point, or the cut refuse
         \/ late = 0 /\ Finish(ctl, "CANCELLED")
         \* blocked: the next safe point decides
         \/ late = 0 /\ log' = waiting /\ UNCHANGED ctl
         \/ late = 0 /\ Members # epochs.members /\ log' = Required(waiting, ctl.tx) /\ ctl' = Gone(ctl)
         \/ late = 0 /\ Members = epochs.members /\ Execute(ctl, waiting)
  /\ UNCHANGED <<epochs, call, fork, late>> /\ Quiet

\* pool.drain cordons the cells that go before it waits for them.
Drain ==
  /\ ctl.at = "drain"
  /\ IF Overdue(ctl) THEN UNCHANGED fork
                     ELSE fork' = [fork EXCEPT !.cordoned = @ \cup ctl.removed]
  /\ ctl' = At(ctl, IF Overdue(ctl) THEN "undrain" ELSE "drained")
  /\ UNCHANGED <<epochs, log, call, late>> /\ Quiet

\* The wait ends: everything drained in time, or not.
Drained ==
  /\ ctl.at = "drained"
  /\ \/ ~Overdue(ctl) /\ ctl' = At(ctl, "release")
     \/ ctl' = At(ctl, "undrain")
  /\ UNCHANGED <<epochs, log, call, fork, late>> /\ Quiet

\* A mutant: the cancelled transaction leaves the cells cordoned.
CancelDrainCordoned ==
  /\ ctl.at = "undrain"
  /\ Finish(ctl, "CANCELLED")
  /\ UNCHANGED <<epochs, call, fork, late>> /\ Quiet

\* Nothing was released: cancelled once the cordoned cells serve again.
CancelDrain ==
  /\ ctl.at = "undrain"
  /\ \/ /\ fork' = [fork EXCEPT !.cordoned = @ \ ctl.removed]
        /\ Finish(ctl, "CANCELLED")
        /\ Quiet
     \/ /\ ctl.removed # {}
        /\ EnterRecovery(ctl.tx)
        /\ Happens("fault") /\ UNCHANGED fork
  /\ UNCHANGED <<epochs, call, late>>

-----------------------------------------------------------------------------
(* The destructive part: stop, start, publish, verify *)

Fails == RebuildOld(ctl, log)

Release ==
  /\ ctl.at = "release"
  /\ IF ctl.removed # {}
     THEN Issue(ctl, Phase(log, ctl.tx, {"TRANSFERRING"}), "stop", ctl.removed, "stop")
     ELSE ctl' = At(ctl, "initialize") /\ UNCHANGED <<log, call>>
  /\ UNCHANGED <<epochs, fork, late>> /\ Quiet

\* A failed stop goes through the retries of what is pending, if anything is.
StopAnswered ==
  /\ Answered("stop")
  /\ log' = Journalled
  /\ ctl' = At(Told, IF Raised THEN "retry release" ELSE "initialize")
  /\ UNCHANGED <<epochs, fork, late>> /\ Quiet

Released ==
  /\ ctl.at = "released"
  /\ IF Members \cap ctl.removed # {} THEN Fails
     ELSE ctl' = At(ctl, "initialize") /\ UNCHANGED log
  /\ UNCHANGED <<epochs, call, fork, late>> /\ Quiet

\* plan_add names the lowest cells that do not run.
Initialize ==
  /\ ctl.at = "initialize"
  /\ LET grow == Engines[log.target[ctl.tx]] - Engines[epochs.config]
         added == Lowest(Cells \ Members, grow)
         initializing == Phase(log, ctl.tx, {"INITIALIZING"})
         starting == [ctl EXCEPT !.added = added]
     IN  IF grow <= 0
         THEN /\ log' = Phase(log, ctl.tx, {"VERIFYING"})
              /\ ctl' = At(ctl, "verify") /\ UNCHANGED call
         ELSE IF Cardinality(added) # grow
         THEN RebuildOld(ctl, initializing) /\ UNCHANGED call
         ELSE IF Overdue(ctl)
         THEN RebuildOld(starting, initializing) /\ UNCHANGED call
         ELSE Issue(starting, initializing, "start", added, "start")
  /\ UNCHANGED <<epochs, fork, late>> /\ Quiet

\* A failed start counts as started when it is the last operation the controller knows.
StartAnswered ==
  /\ Answered("start")
  /\ LET c == [Told EXCEPT !.started = ~Raised \/ Told.lastOp = Op("start", ctl.added),
                           !.added = IF Raised /\ Told.lastOp # Op("start", @) /\ Told.pending = NoOp
                                     THEN {} ELSE @]
     IN  IF Raised \/ Overdue(ctl) THEN RebuildOld(c, Journalled)
         ELSE /\ log' = Phase(Journalled, ctl.tx, {"VERIFYING"})
              /\ ctl' = At(c, "publish")
  /\ UNCHANGED <<epochs, fork, late>> /\ Quiet

\* publish_members: the started cells get the weights and are admitted.
Publish ==
  /\ ctl.at = "publish"
  /\ \/ /\ ctl.added \subseteq Members /\ fork.epoch = ctl.epoch
        /\ fork' = [fork EXCEPT !.ready = @ \cup ctl.added]
        /\ ctl' = At(ctl, "verify") /\ UNCHANGED log /\ Quiet
     \/ ~(ctl.added \subseteq Members /\ fork.epoch = ctl.epoch) /\ Fails /\ UNCHANGED fork /\ Quiet
     \/ Happens("fault") /\ Fails /\ UNCHANGED fork
  /\ UNCHANGED <<epochs, call, late>>

Target == (ctl.old \ ctl.removed) \cup ctl.added

Verified == ~Overdue(ctl) /\ Members = Target /\ fork.epoch = ctl.epoch

Verify ==
  /\ ctl.at = "verify"
  /\ \/ Verified /\ ctl' = At(ctl, "commit") /\ UNCHANGED log /\ Quiet
     \/ ~Verified /\ Fails /\ Quiet
     \/ Happens("fault") /\ Fails
  /\ UNCHANGED <<epochs, call, fork, late>>
-----------------------------------------------------------------------------
(* The commit point and what follows it *)

Swapped ==
  [config |-> log.target[ctl.tx], epoch |-> epochs.epoch + 1, fork |-> ctl.epoch,
   members |-> Target, last |-> ctl.tx]

\* A mutant: the commit does not look whether the watchdog fired.
CommitRegardless ==
  /\ ctl.at = "commit"
  /\ \/ epochs' = Swapped /\ ctl' = At(ctl, "committed") /\ UNCHANGED log /\ Quiet
     \/ /\ Happens("fault")
        /\ epochs' \in {epochs, Swapped} /\ ctl' = At(ctl, "swap failed") /\ UNCHANGED log
  /\ UNCHANGED <<call, fork, late>>

\* Under the watchdog's lock; a swap that fails may be durable or not.
Commit ==
  /\ ctl.at = "commit"
  /\ \/ ctl.fired /\ Fails /\ UNCHANGED epochs /\ Quiet
     \/ ~ctl.fired /\ epochs' = Swapped /\ ctl' = At(ctl, "committed") /\ UNCHANGED log /\ Quiet
     \/ /\ ~ctl.fired /\ Happens("fault")
        /\ epochs' \in {epochs, Swapped} /\ ctl' = At(ctl, "swap failed") /\ UNCHANGED log
  /\ UNCHANGED <<call, fork, late>>

SwapFailed ==
  /\ ctl.at = "swap failed"
  /\ EnterRecovery(ctl.tx)
  /\ UNCHANGED <<epochs, call, fork, late>> /\ Quiet

Committed ==
  /\ ctl.at = "committed"
  /\ log' = Phase(log, ctl.tx, {"COMMITTED", "RESUMING"})
  /\ ctl' = At(ctl, "resume")
  /\ UNCHANGED <<epochs, call, fork, late>> /\ Quiet

\* The placement follows; committed, so a failure is never rolled back.
Resume ==
  /\ ctl.at = "resume"
  /\ \/ Finish(ctl, "SUCCEEDED") /\ Quiet
     \/ EnterRecovery(ctl.tx) /\ Happens("fault")
  /\ UNCHANGED <<epochs, call, fork, late>>

\* The watchdog: past the deadline, before the commit point.  It kills the
\* cells that are being started or verified; if it cannot kill all of them, the
\* island needs recovery.
Starting == {"start", "publish", "verify", "commit"}
Watched == {"drain", "drained", "undrain", "release", "stop", "retry release", "released", "initialize",
            "retry rebuild", "stray", "retry stray", "missing", "restart", "republish", "restored"}
             \cup Starting

Killed(f, cells) == [f EXCEPT !.running = @ \ cells, !.ready = @ \ cells]

Fire ==
  /\ late > 0 /\ ctl.at \in Watched /\ ~ctl.fired
  /\ \/ /\ ctl' = [ctl EXCEPT !.fired = TRUE]
        /\ fork' = IF ctl.at \in Starting THEN Killed(fork, ctl.added) ELSE fork
        /\ UNCHANGED log /\ Quiet
     \/ /\ ctl.at \in Starting /\ ctl.added # {}
        /\ ctl' = [ctl EXCEPT !.fired = TRUE, !.required = TRUE, !.admission = FALSE]
        /\ log' = Required(log, ctl.tx)
        /\ \E some \in (SUBSET ctl.added) \ {ctl.added} : fork' = Killed(fork, some)
        /\ Happens("fault")
  /\ UNCHANGED <<epochs, call, late>>
-----------------------------------------------------------------------------
(* Retries, and the rebuild of the old set *)

\* Where each loop of _retry_incomplete goes on, and its limit.
AfterRetry == ("retry release" :> "released" @@ "retry rebuild" :> "stray"
                 @@ "retry stray" :> "missing" @@ "retry recover" :> "compare")
RetryLimit == ("retry release" :> 1 @@ "retry rebuild" :> 2 @@ "retry stray" :> 2 @@ "retry recover" :> 1)

RebuildFailed == EnterRecovery(ctl.tx)
RecoveryFailed == EnterRecovery(None)

\* What a loop's exception ends in.
RetryFails ==
  CASE ctl.at = "retry release" -> Fails
    [] ctl.at \in {"retry rebuild", "retry stray"} -> RebuildFailed
    [] ctl.at = "retry recover" -> RecoveryFailed

Retry ==
  /\ ctl.at \in DOMAIN AfterRetry /\ call = NoCall
  /\ IF ctl.pending = NoOp
     THEN ctl' = At(ctl, AfterRetry[ctl.at]) /\ UNCHANGED <<log, call>>
     ELSE IF late >= RetryLimit[ctl.at] \/ ctl.required THEN RetryFails /\ UNCHANGED call
     ELSE Issue(ctl, log, ctl.pending.op, ctl.pending.cells, ctl.at)
  /\ UNCHANGED <<epochs, fork, late>> /\ Quiet

RetryAnswered ==
  /\ ctl.at \in DOMAIN AfterRetry
  /\ Answered(ctl.at)
  /\ log' = Journalled
  /\ ctl' = Told
  /\ UNCHANGED <<epochs, fork, late>> /\ Quiet

\* Cells the transaction started are stopped again.
StopStray ==
  /\ ctl.at = "stray" /\ call = NoCall
  /\ IF ctl.started THEN Issue(ctl, log, "stop", ctl.added, "stray")
     ELSE ctl' = At(ctl, "missing") /\ UNCHANGED <<log, call>>
  /\ UNCHANGED <<epochs, fork, late>> /\ Quiet

StrayAnswered ==
  /\ Answered("stray")
  /\ IF Raised THEN log' = Required(Journalled, ctl.tx) /\ ctl' = Gone(ctl)
     ELSE log' = Journalled /\ ctl' = [At(Told, "retry stray") EXCEPT !.started = FALSE]
  /\ UNCHANGED <<epochs, fork, late>> /\ Quiet

StartMissing ==
  /\ ctl.at = "missing"
  /\ IF ctl.old \subseteq Members THEN ctl' = At(ctl, "restored") /\ UNCHANGED <<log, call>>
     ELSE Issue(ctl, log, "start", ctl.old \ Members, "restart")
  /\ UNCHANGED <<epochs, fork, late>> /\ Quiet

MissingAnswered ==
  /\ Answered("restart")
  /\ IF Raised THEN log' = Required(Journalled, ctl.tx) /\ ctl' = Gone(ctl)
     ELSE log' = Journalled /\ ctl' = At(Told, "republish")
  /\ UNCHANGED <<epochs, fork, late>> /\ Quiet

\* The same policy goes to the restarted cells.
Republish ==
  /\ ctl.at = "republish"
  /\ \/ /\ fork' = [fork EXCEPT !.ready = @ \cup (ctl.old \cap Members)]
        /\ ctl' = At(ctl, "restored") /\ UNCHANGED log /\ Quiet
     \/ RebuildFailed /\ Happens("fault") /\ UNCHANGED fork
  /\ UNCHANGED <<epochs, call, late>>

\* A mutant: the rebuilt set is not compared with the old one.
RestoredUnchecked ==
  /\ ctl.at = "restored"
  /\ \/ /\ late < 2
        /\ fork' = [fork EXCEPT !.cordoned = @ \ ctl.removed]
        /\ epochs' = [epochs EXCEPT !.fork = ctl.epoch]
        /\ Finish(ctl, "REBUILT_OLD")
     \/ late = 2 /\ RebuildFailed /\ UNCHANGED <<epochs, fork>>
  /\ UNCHANGED <<call, late>> /\ Quiet

\* The cells that were to go serve again; the durable mirror follows the fork.
Restored ==
  /\ ctl.at = "restored"
  /\ \/ /\ Members = ctl.old /\ late < 2
        /\ fork' = [fork EXCEPT !.cordoned = @ \ ctl.removed]
        /\ epochs' = [epochs EXCEPT !.fork = ctl.epoch]
        /\ Finish(ctl, "REBUILT_OLD")
        /\ Quiet
     \/ /\ Members # ctl.old \/ late = 2
        /\ RebuildFailed /\ UNCHANGED <<epochs, fork>> /\ Quiet
     \/ /\ ctl.removed \cap Members # {}
        /\ RebuildFailed /\ Happens("fault") /\ UNCHANGED <<epochs, fork>>
  /\ UNCHANGED <<call, late>>

-----------------------------------------------------------------------------
(* Crash, restart and the recovery of the membership *)

Crash ==
  /\ ctl.at # "down"
  /\ Happens("crash")
  /\ ctl' = Gone(ctl)
  /\ call' = NoCall
  /\ UNCHANGED <<epochs, log, fork, late>>

Restart ==
  /\ ctl.at = "down"
  /\ ctl' = Replayed
  /\ fork' \in {StartedFork, [fork EXCEPT !.outlived = TRUE]}
  /\ late' = 0
  /\ UNCHANGED <<epochs, log, call>> /\ Quiet

LostAnswer == fork.epoch = ctl.epoch + 1 /\ log.issued # NoIssue /\ log.issued.expected = ctl.epoch

\* The fork's epoch against the journal's: equal, to be restored, one answer
\* behind, or beyond explanation.
Reconcile ==
  /\ ctl.at = "reconcile"
  /\ LET next == At(ctl, "settle")
         op == Op(log.issued.op, log.issued.cells)
     IN  \/ fork.epoch = ctl.epoch /\ ctl' = next /\ UNCHANGED <<log, fork>> /\ Quiet
         \/ /\ fork.epoch = 0 /\ ctl.epoch > 0
            /\ fork' = [fork EXCEPT !.epoch = ctl.epoch, !.incomplete = ctl.pending, !.lastOp = ctl.lastOp]
            /\ ctl' = next /\ UNCHANGED log /\ Quiet
         \/ /\ fork.epoch = 0 /\ ctl.epoch > 0 /\ Happens("fault")
            /\ log' = Required(log, None) /\ ctl' = [next EXCEPT !.required = TRUE, !.admission = FALSE]
            /\ UNCHANGED fork
         \/ /\ ~(fork.epoch = 0 /\ ctl.epoch > 0) /\ LostAnswer
            /\ log' = [log EXCEPT !.epoch = fork.epoch, !.lastOp = op, !.pending = NoOp, !.issued = NoIssue]
            /\ ctl' = [next EXCEPT !.epoch = fork.epoch, !.lastOp = op]
            /\ UNCHANGED fork /\ Quiet
         \/ /\ ~(fork.epoch = 0 /\ ctl.epoch > 0) /\ fork.epoch # ctl.epoch /\ ~LostAnswer
            /\ log' = Required(log, None) /\ ctl' = [next EXCEPT !.required = TRUE, !.admission = FALSE]
            /\ UNCHANGED fork /\ Quiet
  /\ UNCHANGED <<epochs, call, late>>

\* A mutant: the committed epoch is not asked about the request.
SettlementUninformed(r) ==
  IF log.phases[r] \cap DESTRUCTIVE = {} THEN {"CANCELLED"} ELSE {}

\* The end of a transaction the last learner left open; None when its old set
\* must be rebuilt first.
Settlement(r) ==
  IF epochs.last = r THEN {"SUCCEEDED"}
  ELSE IF log.phases[r] \cap DESTRUCTIVE = {} THEN {"CANCELLED"} ELSE {}

\* An island that needs recovery is refused by the driver.
Settle ==
  /\ ctl.at = "settle"
  /\ log' = [log EXCEPT !.phases = [r \in Requests |-> IF r \in Open THEN @[r] \cup Settlement(r) ELSE @[r]]]
  /\ ctl' = IF ctl.required THEN Gone(ctl) ELSE At(ctl, "members")
  /\ UNCHANGED <<epochs, call, fork, late>> /\ Quiet

RebuiltAfterRestart(l) ==
  [l EXCEPT !.phases = [r \in Requests |-> IF r \in Open THEN @[r] \cup {"REBUILT_OLD"} ELSE @[r]]]

\* The serving cells against the committed ones; a recovery is planned, unless
\* too many were never verified or the precondition fails.
CheckMembers ==
  /\ ctl.at = "members"
  /\ \/ /\ Members = epochs.members
        /\ log' = RebuiltAfterRestart(log)
        /\ ctl' = At(ctl, "first") /\ Quiet
     \/ /\ Members # epochs.members /\ log.unverified >= MaxRecovery
        /\ RecoveryFailed /\ Quiet
     \/ /\ Members # epochs.members /\ log.unverified < MaxRecovery
        /\ RecoveryFailed /\ Happens("fault")
     \/ /\ Members # epochs.members /\ log.unverified < MaxRecovery
        /\ log' = [log EXCEPT !.unverified = @ + 1]
        /\ ctl' = [At(ctl, "retry recover") EXCEPT !.admission = FALSE]
        /\ Quiet
  /\ UNCHANGED <<epochs, call, fork, late>>

\* One pass: stop what is too many, start what is missing.
Compare ==
  /\ ctl.at = "compare"
  /\ LET extra == Members \ epochs.members
         missing == epochs.members \ Members
         again == [ctl EXCEPT !.passes = @ + 1]
     IN  IF Members = epochs.members /\ late = 0
         THEN /\ epochs' = [epochs EXCEPT !.fork = ctl.epoch]
              /\ log' = RebuiltAfterRestart(log)
              /\ ctl' = [At(ctl, "first") EXCEPT !.confirm = TRUE]
              /\ UNCHANGED call
         ELSE /\ IF late > 0 \/ ctl.passes = MaxPasses THEN RecoveryFailed /\ UNCHANGED call
                 ELSE IF extra # {} THEN Issue(again, log, "stop", extra, "extra")
                 ELSE Issue(again, log, "start", missing, "lacking")
              /\ UNCHANGED epochs
  /\ UNCHANGED <<fork, late>> /\ Quiet

\* A plain failure ends the recovery; a half failed operation is retried in the next pass.
RecoveryAnswered ==
  /\ ctl.at \in {"extra", "lacking"}
  /\ Answered(ctl.at)
  /\ IF Raised /\ (Told.required \/ Told.pending = NoOp)
     THEN log' = Required(Journalled, None) /\ ctl' = Gone(ctl)
     ELSE /\ log' = Journalled
          /\ ctl' = At(Told, IF ctl.at = "extra" /\ ~Raised /\ ~(epochs.members \subseteq Members)
                             THEN "start missing" ELSE "retry recover")
  /\ UNCHANGED <<epochs, fork, late>> /\ Quiet

StartLacking ==
  /\ ctl.at = "start missing"
  /\ Issue(ctl, log, "start", epochs.members \ Members, "lacking")
  /\ UNCHANGED <<epochs, fork, late>> /\ Quiet

\* The driver's first full publication reaches every member.
FirstPublication ==
  /\ ctl.at = "first"
  /\ fork' = [fork EXCEPT !.ready = Members]
  /\ ctl' = At(ctl, IF ctl.confirm THEN "confirm" ELSE "idle")
  /\ UNCHANGED <<epochs, log, call, late>> /\ Quiet

ConfirmRecovery ==
  /\ ctl.at = "confirm"
  /\ LET holds == late = 0 /\ Members = epochs.members /\ fork.epoch = ctl.epoch /\ fork.incomplete = NoOp
     IN  \/ /\ holds
            /\ log' = [log EXCEPT !.unverified = 0]
            /\ ctl' = [At(ctl, "idle") EXCEPT !.confirm = FALSE, !.passes = 0, !.admission = TRUE]
            /\ Quiet
         \/ ~holds /\ RecoveryFailed /\ Quiet
         \/ holds /\ RecoveryFailed /\ Happens("fault")
  /\ UNCHANGED <<epochs, call, fork, late>>
-----------------------------------------------------------------------------
(* Time, and an engine that dies outside a transaction *)

Recovering == {"members", "retry recover", "compare", "extra", "start missing", "lacking", "first", "confirm"}

TimePasses ==
  /\ (ctl.tx # None /\ late < 2) \/ (ctl.at \in Recovering /\ late < 1)
  /\ late' = late + 1
  /\ UNCHANGED <<epochs, log, ctl, call, fork>> /\ Quiet

CellDies(c) ==
  /\ ctl.at \in {"idle", "reconcile"} /\ c \in fork.running
  /\ Happens("die")
  /\ fork' = [Killed(fork, {c}) EXCEPT !.lost = @ \cup {c}]
  /\ UNCHANGED <<epochs, log, ctl, call, late>>

\* A round without a request: the driver has nothing to offer the controller.
Round ==
  /\ ctl.at = "idle" /\ ctl.tx = None
  /\ UNCHANGED vars

Operator == \/ \E r \in Requests, t \in Configs : Request(r, t)
            \/ Cancel \/ EnterFinalization

Transaction ==
  \/ SafePoint \/ Drain \/ Drained \/ CancelDrain \/ Release \/ StopAnswered \/ Released
  \/ Initialize \/ StartAnswered \/ Publish \/ Verify \/ Commit \/ SwapFailed \/ Committed
  \/ Resume \/ Retry \/ RetryAnswered \/ StopStray \/ StrayAnswered \/ StartMissing \/ MissingAnswered
  \/ Republish \/ Restored

Recovery ==
  \/ Restart \/ Reconcile \/ Settle \/ CheckMembers \/ Compare \/ RecoveryAnswered \/ StartLacking
  \/ FirstPublication \/ ConfirmRecovery

Next == \/ Operator \/ Transaction \/ Recovery \/ Apply \/ Fire \/ TimePasses \/ Crash
        \/ Round \/ \E c \in Cells : CellDies(c)

\* The learner and the fork keep going, and time passes.
Fairness == WF_vars(Transaction) /\ WF_vars(Recovery) /\ WF_vars(Apply) /\ WF_vars(TimePasses)

Spec == Init /\ [][Next]_vars /\ Fairness

-----------------------------------------------------------------------------
(* Properties *)

\* The driver may start the generation of a round.
Generating == ctl.at = "idle" /\ ctl.admission

(* _finish and confirm_recovery: a round is generated only by the members  *)
(* the committed configuration names, each with the published weights; a   *)
(* member that died by itself since is the exception.                      *)
ServesCommitted ==
  Generating => /\ fork.running \cup (fork.lost \cap epochs.members) = epochs.members
                /\ fork.ready = fork.running

(* _execute, _rebuild_old: once a transaction is over, no member is left   *)
(* cordoned.  A fork that outlives the learner keeps its cordons, and      *)
(* nothing in open() lifts them.                                           *)
NoneCordoned ==
  Generating /\ ~fork.outlived => fork.cordoned \cap fork.running = {}

(* _enter_recovery and _replay: an island whose journal says that it needs *)
(* recovery stays so over every restart, and no round is generated on it.  *)
(* The refusals of a changed layout or GPU pool (record_topology and       *)
(* record_gpu_pool) close one incarnation and are not journalled, so that  *)
(* a restart may lift them; they are outside this module.                  *)
RequiredSticks ==
  /\ log.required => ~Generating
  /\ ctl.required => log.required

(* _execute's commit: what is committed was served by exactly those cells, *)
(* with the published weights and at the fork epoch committed with them;   *)
(* in particular by none the watchdog has killed.                          *)
CommitsWhatServes ==
  [][epochs'.epoch # epochs.epoch =>
       /\ epochs'.members = fork.running /\ fork.ready = fork.running
       /\ epochs'.fork = fork.epoch]_vars

(* request_status after any crash: a request ends with the answer that     *)
(* agrees with the durable configuration, and only one is open at a time.  *)
Answers == INSTANCE ConfigSwitch WITH
  Config <- Configs, NoConfig <- None,
  config <- epochs.config, epoch <- epochs.epoch, target <- log.target,
  switched <- {r \in Requests : epochs.last = r \/ "SUCCEEDED" \in log.phases[r]},
  answer <- [r \in Requests |->
               IF "SUCCEEDED" \in log.phases[r] THEN "yes"
               ELSE IF log.phases[r] \cap Live # {} THEN "no"
               ELSE IF "RECOVERY_REQUIRED" \in log.phases[r] THEN "unsure" ELSE "none"]

AnswersAgree == Answers!SwitchSpec

(* run_at_safe_point, the deadlines, open: every request comes to an end,  *)
(* or the island says it needs recovery.                                   *)
RequestsEnd ==
  \A r \in Requests : log.phases[r] # {} ~> Ended(r) \/ log.required

=============================================================================
