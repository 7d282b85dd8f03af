------------------------------ MODULE MCMiner ------------------------------
(* The instance of Miner for TLC by itself: one version.                    *)
EXTENDS Miner
=============================================================================
