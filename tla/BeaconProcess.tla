---------------------------- MODULE BeaconProcess ----------------------------
(***************************************************************************)
(* The epoch-change process as the committee beacon's README draws it:     *)
(* wait for the epoch to end, then alternate commit and reveal phases,     *)
(* each failure starting a new commit phase with the next round, until a   *)
(* reveal phase succeeds and the epoch changes.                            *)
(***************************************************************************)
EXTENDS Naturals

VARIABLES epoch, stage, round

vars == <<epoch, stage, round>>

Init == epoch = 0 /\ stage = "none" /\ round = 0

Start ==
    /\ stage = "none"
    /\ stage' = "commit" /\ round' = 0
    /\ UNCHANGED epoch

\* Commit period timeout with insufficient participation.
RestartCommit ==
    /\ stage = "commit"
    /\ round' = round + 1
    /\ UNCHANGED <<epoch, stage>>

\* Commit period timeout with sufficient participation.
StartReveal ==
    /\ stage = "commit"
    /\ stage' = "reveal"
    /\ UNCHANGED <<epoch, round>>

\* Reveal period timeout.
FailReveal ==
    /\ stage = "reveal"
    /\ stage' = "commit" /\ round' = round + 1
    /\ UNCHANGED epoch

\* All commits revealed.
ChangeEpoch ==
    /\ stage = "reveal"
    /\ stage' = "none" /\ round' = 0
    /\ epoch' = epoch + 1

Next == Start \/ RestartCommit \/ StartReveal \/ FailReveal \/ ChangeEpoch

Spec == Init /\ [][Next]_vars
=============================================================================
