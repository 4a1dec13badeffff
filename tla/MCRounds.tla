------------------------------ MODULE MCRounds ------------------------------
(***************************************************************************)
(* Small instances of FragmentRounds: two learners, one or two fragments.  *)
(***************************************************************************)
EXTENDS FragmentRounds, TLC

CONSTANTS a, b      \* the learners

MCLearners == {a, b}

\* The learners are interchangeable.
LearnerSymmetry == Permutations(MCLearners)

\* MaxBaseLag for a run without --max-base-lag.
Unlimited == NoLimit

\* Bounds of the run on late carry: only its last round is retried, and at most
\* MaxInTransit frames are under way, MaxPushes of them pushes.
MaxInTransit == 3
MaxPushes == 2
RetriesLast == \A t \in DOMAIN round : round[t].attempt > 1 => t = LastStep
FewInTransit ==
    /\ Cardinality(pushes) <= MaxPushes
    /\ Cardinality(bcasts) + Cardinality(pushes) <= MaxInTransit

=============================================================================
