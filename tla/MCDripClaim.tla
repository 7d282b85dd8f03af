---------------------------- MODULE MCDripClaim ----------------------------
(* Instances of DripClaim for TLC.  MaxClock bounds the clock; the daily    *)
(* cap is out of the way (module Ledger checks it by itself).               *)
EXTENDS DripClaim, TLC

CONSTANTS MaxClock

MCAmount == [net \in Nets |-> 1]
MCDailyCap == [net \in Nets |-> 10]

ClockBound == clock <= MaxClock
ClaimSymmetry == Permutations(Claims)
ClaimAddrSymmetry == Permutations(Claims) \cup Permutations(Addrs)
=============================================================================
