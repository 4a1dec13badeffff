-------------------------- MODULE MCReconfiguration --------------------------
(***************************************************************************)
(* Three cells, configurations of one, two and three engines, the island   *)
(* started with two; two requests.                                         *)
(***************************************************************************)
EXTENDS Reconfiguration

MCEngines == ("small" :> 1 @@ "medium" :> 2 @@ "large" :> 3)
MCCells == 1..3

Scenario(requests, crashes, faults, deaths) ==
  ("request" :> requests @@ "crash" :> crashes @@ "fault" :> faults @@ "die" :> deaths)
MCScenarios ==
  {Scenario(2, 1, 1, 0), Scenario(1, 2, 1, 0), Scenario(1, 1, 2, 0), Scenario(1, 1, 1, 1), Scenario(1, 0, 3, 0)}

=============================================================================
