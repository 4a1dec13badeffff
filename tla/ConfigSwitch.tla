---------------------------- MODULE ConfigSwitch ----------------------------
(***************************************************************************)
(* What an island promises the operator who asks it to change its          *)
(* configuration: requests are taken one at a time, a request switches the *)
(* configuration at most once and in one step, and the answer it finally   *)
(* gets agrees with whether the switch happened.  "unsure" is the answer   *)
(* RECOVERY_REQUIRED: the operator is told to look.                        *)
(***************************************************************************)
EXTENDS Integers

CONSTANTS Requests, Config, NoConfig

VARIABLES config,      \* the configuration the island is committed to
          epoch,       \* how many switches have happened
          target,      \* request -> the configuration it asked for
          switched,    \* the requests that switched the configuration
          answer       \* request -> its final answer, or "none"

switchVars == <<config, epoch, target, switched, answer>>

SwitchInit ==
  /\ config \in Config
  /\ epoch = 0
  /\ target = [r \in Requests |-> NoConfig]
  /\ switched = {}
  /\ answer = [r \in Requests |-> "none"]

Asked == {r \in Requests : target[r] # NoConfig}
Waiting == {r \in Asked : answer[r] = "none"}

Ask(r, t) ==
  /\ r \notin Asked
  /\ Waiting = {}
  /\ target' = [target EXCEPT ![r] = t]
  /\ UNCHANGED <<config, epoch, switched, answer>>

Switch(r) ==
  /\ r \in Waiting \ switched
  /\ config' = target[r]
  /\ epoch' = epoch + 1
  /\ switched' = switched \cup {r}
  /\ UNCHANGED <<target, answer>>

Answer(r, a) ==
  /\ r \in Waiting
  /\ a = "yes" => r \in switched
  /\ a = "no" => r \notin switched
  /\ answer' = [answer EXCEPT ![r] = a]
  /\ UNCHANGED <<config, epoch, target, switched>>

SwitchNext ==
  \E r \in Requests :
    \/ \E t \in Config : Ask(r, t)
    \/ Switch(r)
    \/ \E a \in {"yes", "no", "unsure"} : Answer(r, a)

SwitchSpec == SwitchInit /\ [][SwitchNext]_switchVars
=============================================================================
