---------------------------- MODULE StagedRollout ----------------------------
(***************************************************************************)
(* What a staged rollout promises, without jobs, requests, commits or       *)
(* restarts: rings run in order and one at a time, each ring ends once, a   *)
(* ring may begin only after it was cleared while the rollout was running,  *)
(* and a rollout that has ended stays so, unless a pause comes late.        *)
(***************************************************************************)
EXTENDS Naturals

CONSTANTS NRings,
          LatePauses  \* may a pause that was accepted be written after the end?

Steps == 0 .. NRings - 1

VARIABLES phase,  \* what the operator sees of the rollout
          ring    \* what the operator sees of each ring

svars == <<phase, ring>>

Ended == {"passed", "failed"}

StagedInit ==
  /\ phase = "none"
  /\ ring = [s \in Steps |-> "waiting"]

Launch == phase = "none" /\ phase' = "running" /\ UNCHANGED ring

\* A ring is cleared to begin while the rollout is running ...
Clear(s) ==
  /\ phase = "running" /\ ring[s] = "waiting"
  /\ ring' = [ring EXCEPT ![s] = "cleared"]
  /\ UNCHANGED phase

\* ... it may lose its clearance ...
Withdraw ==
  /\ \E S \in (SUBSET {s \in Steps : ring[s] = "cleared"}) \ {{}} :
       ring' = [s \in Steps |-> IF s \in S THEN "waiting" ELSE ring[s]]
  /\ UNCHANGED phase

\* ... and begins only after every earlier ring has ended, and alone.
Begin(s) ==
  /\ ring[s] = "cleared"
  /\ \A r \in Steps : /\ r < s => ring[r] \in Ended
                      /\ ring[r] # "running"
  /\ ring' = [ring EXCEPT ![s] = "running"]
  /\ UNCHANGED phase

End(s) ==
  /\ ring[s] = "running"
  /\ \E r \in Ended : ring' = [ring EXCEPT ![s] = r]
  /\ UNCHANGED phase

Pause == phase = "running" /\ phase' = "paused" /\ UNCHANGED ring

\* A pause decided while the rollout was running may land after its end.
LatePause == LatePauses /\ phase \in {"complete", "aborted"} /\ phase' = "paused" /\ UNCHANGED ring

Resume == /\ phase = "paused" /\ phase' = "running"
          /\ \A s \in Steps : ring[s] # "running"
          /\ UNCHANGED ring

\* An abort decided while the rollout was active may land after its completion.
Abort == phase # "none" /\ phase' = "aborted" /\ UNCHANGED ring

\* The rollout is complete when its last ring passes, and only then.
Complete ==
  /\ phase = "running" /\ phase' = "complete"
  /\ ring[NRings - 1] = "running"
  /\ ring' = [ring EXCEPT ![NRings - 1] = "passed"]

\* A ring the process took down with it has failed, and so has the rollout.
Lose(s) ==
  /\ phase = "running" /\ phase' = "aborted"
  /\ ring[s] = "running"
  /\ ring' = [ring EXCEPT ![s] = "failed"]

StagedNext ==
  \/ Launch \/ Withdraw \/ Pause \/ LatePause \/ Resume \/ Abort \/ Complete
  \/ \E s \in Steps : Clear(s) \/ Begin(s) \/ End(s) \/ Lose(s)

StagedSpec == StagedInit /\ [][StagedNext]_svars
=============================================================================
