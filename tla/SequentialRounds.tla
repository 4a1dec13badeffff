-------------------------- MODULE SequentialRounds --------------------------
(***************************************************************************)
(* What the syncer promises about its outer steps: seen from its           *)
(* parameters and its checkpoint file, it is a loop that merges one step   *)
(* after another, each into the state left by the previous one, with a     *)
(* checkpoint that only ever holds a state the loop was in, and a restart  *)
(* that continues from it.  That rounds overlap, finish out of order, are  *)
(* retried and published later cannot be seen.                             *)
(***************************************************************************)
EXTENDS Schedule

CONSTANTS
    TotalSteps      \* --total-steps

VARIABLES
    up,             \* the process has its state
    step,           \* the last merged step
    versions,       \* fragment -> step of its last merge
    disk            \* the checkpoint

vars == <<up, step, versions, disk>>

None == -1

Zero == [p \in Owned |-> 0]

Saved(s, v) == [step |-> s, versions |-> v]

Init ==
    /\ up = FALSE
    /\ step = 0
    /\ versions = Zero
    /\ disk = Saved(None, Zero)

\* The next step is merged into its fragment, and perhaps checkpointed.
Merge ==
    LET t == StepAfter(step)
    IN  /\ up
        /\ t <= LastStepOf(TotalSteps)
        /\ step' = t
        /\ versions' = [versions EXCEPT ![FragmentForStep(t)] = t]
        /\ disk' \in {disk, Saved(t, versions')}
        /\ UNCHANGED up

Save ==
    /\ up
    /\ disk' = Saved(step, versions)
    /\ UNCHANGED <<up, step, versions>>

Crash ==
    /\ up
    /\ disk.step # None
    /\ up' = FALSE
    /\ step' = 0
    /\ versions' = Zero
    /\ UNCHANGED disk

Resume ==
    /\ ~up
    /\ up' = TRUE
    /\ step' = IF disk.step = None THEN 0 ELSE disk.step
    /\ versions' = IF disk.step = None THEN Zero ELSE disk.versions
    /\ UNCHANGED disk

Next == Merge \/ Save \/ Crash \/ Resume

Spec == Init /\ [][Next]_vars

=============================================================================
