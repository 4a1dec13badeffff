--------------------------- MODULE MCSampleRelay ---------------------------
(***************************************************************************)
(* Two processes of one sampler with three groups each; every fault once,  *)
(* and the sets of faults that meet each other.                            *)
(***************************************************************************)
EXTENDS SampleRelay

Once(E) == [e \in Events |-> IF e \in E THEN 1 ELSE 0]
MCScenarios ==
  {Once(E) : E \in {{"break", "stop"}, {"break", "restart"}, {"break", "takeover"},
                    {"break", "fault"}, {"relaunch", "expire"}, {"crash", "drop"},
                    {"crash", "cut"}}}
MCUnfit == {<<2, 2>>}

=============================================================================
