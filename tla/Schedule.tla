------------------------------ MODULE Schedule ------------------------------
(***************************************************************************)
(* The step schedule of one syncer process (syncer/src/shard.rs).  Global  *)
(* step t merges fragment (t-1) mod P; a shard runs the steps whose        *)
(* fragment lies in its owned range First .. End-1.  The unsharded head is *)
(* First = 0, End = P.                                                     *)
(***************************************************************************)
EXTENDS Integers

CONSTANTS
    NumFragments,   \* P, the fragments of the layout
    First,          \* first owned fragment
    End             \* one past the last owned fragment

ASSUME ScheduleAssumption ==
    /\ NumFragments \in Nat \ {0}
    /\ First \in Nat
    /\ End \in Nat
    /\ First < End
    /\ End <= NumFragments

Fragments == 0 .. (NumFragments - 1)

Owned == First .. (End - 1)

FragmentForStep(t) == (t - 1) % NumFragments

OwnsStep(t) == t >= 1 /\ FragmentForStep(t) \in Owned

\* The first step this shard runs after `step` (0: before the first).
StepAfter(step) ==
    LET position == step % NumFragments
    IN  IF position < First THEN step + 1 + (First - position)
        ELSE IF position < End THEN step + 1
        ELSE step + 1 + (NumFragments - position) + First

\* The last step this shard runs within `total` steps (0: none).
LastStepOf(total) ==
    LET sweep    == (total - 1) \div NumFragments
        position == (total - 1) % NumFragments
        capped   == IF position < End - 1 THEN position ELSE End - 1
    IN  IF total = 0 THEN 0
        ELSE IF position >= First THEN sweep * NumFragments + capped + 1
        ELSE IF sweep = 0 THEN 0
        ELSE (sweep - 1) * NumFragments + End

\* The 1-based count of this shard's rounds at its step t.
RoundNumber(t) ==
    ((t - 1) \div NumFragments) * (End - First) + (FragmentForStep(t) - First) + 1

\* Mutant: a fragment's version is stale by a sweep right after its merge.
ExpectedVersionLate(p, step) ==
    IF step <= p + 1 THEN 0
    ELSE p + 1 + ((step - (p + 2)) \div NumFragments) * NumFragments

\* The step of the last merge of fragment p in a contiguous cut at `step`.
ExpectedVersion(p, step) ==
    IF step < p + 1 THEN 0
    ELSE p + 1 + ((step - (p + 1)) \div NumFragments) * NumFragments

NextMergeOfFragment(t) == t + NumFragments

=============================================================================
