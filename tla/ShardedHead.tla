---------------------------- MODULE ShardedHead -----------------------------
(***************************************************************************)
(* One logical head split over ShardCount processes (syncer/src/shard.rs). *)
(* Every shard owns a contiguous fragment range and commits its own steps  *)
(* in order; shards exchange no message, so any interleaving is possible.  *)
(***************************************************************************)
EXTENDS Integers

CONSTANTS
    NumFragments,
    ShardCount,
    TotalSteps

ASSUME ShardAssumption ==
    /\ NumFragments \in Nat \ {0}
    /\ ShardCount \in 1 .. NumFragments
    /\ TotalSteps \in Nat

VARIABLES
    committed,  \* shard -> its last committed step (0: none)
    version,    \* fragment -> the step of its last merge
    rounds,     \* shard -> the rounds it has committed
    merged      \* history: the pairs <<shard, step>> committed

vars == <<committed, version, rounds, merged>>

Shards == 0 .. (ShardCount - 1)

AllFragments == 0 .. (NumFragments - 1)

RangeStart(i) == (i * NumFragments) \div ShardCount

\* Mutant: equal ranges, the remainder owned by nobody.
RangeEndEqual(i) == (i + 1) * (NumFragments \div ShardCount)

RangeEnd(i) == ((i + 1) * NumFragments) \div ShardCount

Plan(i) == INSTANCE Schedule WITH First <- RangeStart(i), End <- RangeEnd(i)

Whole == INSTANCE Schedule WITH First <- 0, End <- NumFragments

Init ==
    /\ committed = [i \in Shards |-> 0]
    /\ version = [p \in AllFragments |-> 0]
    /\ rounds = [i \in Shards |-> 0]
    /\ merged = {}

\* Shard i commits the next step of its schedule.
Commit(i) ==
    LET t == Plan(i)!StepAfter(committed[i])
    IN  /\ t <= Plan(i)!LastStepOf(TotalSteps)
        /\ committed' = [committed EXCEPT ![i] = t]
        /\ version' = [version EXCEPT ![Plan(i)!FragmentForStep(t)] = t]
        /\ rounds' = [rounds EXCEPT ![i] = @ + 1]
        /\ merged' = merged \cup {<<i, t>>}

Finished == \A i \in Shards : committed[i] = Plan(i)!LastStepOf(TotalSteps)

Done == Finished /\ UNCHANGED vars

Next == (\E i \in Shards : Commit(i)) \/ Done

Spec == Init /\ [][Next]_vars

(***************************************************************************)
(* Properties.                                                             *)
(***************************************************************************)

\* Each shard's fragments are always at the strict round-robin version of
\* the shard's own last step, whatever the other shards have done: the cut
\* check of a resumed checkpoint (expected_version) accepts every cut the
\* schedule (step_after) can produce, and round_number counts its rounds.
CutIsRoundRobin ==
    \A i \in Shards :
        /\ \A p \in RangeStart(i) .. (RangeEnd(i) - 1) :
              version[p] = Plan(i)!ExpectedVersion(p, committed[i])
        /\ committed[i] > 0 => Plan(i)!RoundNumber(committed[i]) = rounds[i]

\* No two shards commit the same step or write the same fragment (owned_range
\* and step_after of different plans never overlap), and when every shard has
\* committed its last step (last_step) the union of the shards is the unsharded
\* head at TotalSteps: every step was merged and every fragment has the version
\* one process would have given it.
UnionIsUnsharded ==
    /\ \A a, b \in merged :
          Whole!FragmentForStep(a[2]) = Whole!FragmentForStep(b[2]) => a[1] = b[1]
    /\ Finished =>
        /\ {a[2] : a \in merged} = 1 .. TotalSteps
        /\ \A p \in AllFragments : version[p] = Whole!ExpectedVersion(p, TotalSteps)

=============================================================================
