--------------------------- MODULE MCTaskDispense ---------------------------
(***************************************************************************)
(* Two islands, two streams of weights 2 and 1; every fault once, and      *)
(* the pairs of faults that meet each other.                               *)
(***************************************************************************)
EXTENDS TaskDispense

CONSTANT Weight    \* stream -> its weight

Mix == INSTANCE Interleave

PickByDeadline(next, accept, need) == Mix!EarliestDeadline(next, accept, need)

MCRows == (1 :> 1 @@ 2 :> 1)
MCWeight == (1 :> 2 @@ 2 :> 1)
MCAccept == (1 :> {1, 2} @@ 2 :> {1, 2})
MCReports == (1 :> {"trained", "requeue"} @@ 2 :> {"trained", "release"})
\* At most the given events, once each; m and n numbered requests of one process.
Once(E, m, n) ==
    [events |-> [e \in Events |-> IF e \in E THEN 1 ELSE 0], requests |-> (1 :> m @@ 2 :> n)]
MCScenarios ==
    {Once(E, 2, 1) : E \in {
        {"cut", "give up"}, {"break", "expire"},
        {"close", "break"}, {"elsewhere", "relaunch"}}}
      \cup {Once(E, r[1], r[2]) : E \in {{"relaunch", "expire"}, {"cut", "crash"}},
                                  r \in {<<1, 1>>, <<2, 0>>}}
MCBlock == (1 :> 2 @@ 2 :> 1)

=============================================================================
