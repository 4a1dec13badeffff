--------------------------- MODULE MCFinalization ---------------------------
(***************************************************************************)
(* Two learners and a cut of one fragment, in the cases of MCScenarios.    *)
(***************************************************************************)
EXTENDS Finalization

MCLearners == {1, 2}

Static == [grace |-> FALSE, lease |-> FALSE, inline |-> FALSE, fixed |-> FALSE,
           manifest |-> FALSE]

BothUp == <<"up", "up">>

Case(mode_, start, faults_) == [mode |-> mode_, start |-> start, faults |-> faults_]

MCScenarios == {
    Case([Static EXCEPT !.fixed = TRUE], BothUp, 1),
    Case([Static EXCEPT !.inline = TRUE, !.lease = TRUE, !.manifest = TRUE], BothUp, 1),
    Case([Static EXCEPT !.grace = TRUE], BothUp, 1),
    Case([Static EXCEPT !.grace = TRUE], <<"greeting", "up">>, 1),
    Case([Static EXCEPT !.grace = TRUE], <<"closing", "up">>, 1),
    Case([Static EXCEPT !.fixed = TRUE], <<"gone", "up">>, 1),
    Case([Static EXCEPT !.grace = TRUE, !.lease = TRUE, !.manifest = TRUE], BothUp, 1)}

=============================================================================
