------------------------------- MODULE MCSend -------------------------------
(* The instance for TLC of what a held claim is given time for: the pipeline  *)
(* of DripClaim, whose lease counts every send ahead at its worst, and one    *)
(* send by itself, whose worst it is.  A behaviour is one of the two with the *)
(* other at rest.  No symmetry of the sender is needed.                       *)
EXTENDS MCDripClaim, ZalletSend

VARIABLE part

LeaseInit == Init /\ ZalletInit /\ part \in {"pipeline", "send"}
LeaseNext ==
    /\ UNCHANGED part
    /\ \/ part = "pipeline" /\ Next /\ UNCHANGED zalletVars
       \/ part = "send" /\ ZalletNext /\ UNCHANGED vars

LeaseSpec == LeaseInit /\ [][LeaseNext]_<<vars, zalletVars, part>>
=============================================================================
