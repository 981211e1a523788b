---------------------------- MODULE MCMiningRace ----------------------------
(***************************************************************************)
(* A small node for TLC: forks and failed saves beside one mining request, *)
(* two requests with less of them, and a third one where nothing is mined. *)
(***************************************************************************)
EXTENDS MiningRace

Arrived == Cardinality({r \in Miner : request[r] # "new"})
Forking == "saved" \in DOMAIN peer

\* Bounds on what comes together.  They hold back what nothing forces to happen:
\* blocks, forks and failures, never the next step of a thread.
Affordable == /\ Arrived >= 2 => failures = 0 /\ (Forking => made <= 1)
              /\ Arrived >= 3 => made = 0

MCMiningSpec == MiningInit /\ [][MiningNext /\ Affordable']_miningVars /\ MiningFairness

=============================================================================
