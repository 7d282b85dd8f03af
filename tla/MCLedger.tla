------------------------------ MODULE MCLedger ------------------------------
(* The instance of Ledger and Diagnosis for TLC.  A network in Tight has     *)
(* room for one drip a day, so that its cap is what refuses; on the others   *)
(* the cap is out of the way of the other limits.  The ledger by itself is   *)
(* followed over several windows, up to MaxClock; beside a refused handler   *)
(* only until the first leases have run out, up to AskClock, and no further  *)
(* than the answer; there it is the refused handler whose clock may lag, and *)
(* it asks on the network with room.                                         *)
EXTENDS Diagnosis, TLC

CONSTANTS MaxClock, AskClock, Tight

MCAmount == [net \in Nets |-> 1]
MCDailyCap == [net \in Nets |-> IF net \in Tight THEN 1 ELSE 2]

VARIABLE part

LimitsInit == DiagInit /\ part \in {"limits", "answers"}
LimitsNext ==
    /\ UNCHANGED part
    /\ \/ part = "limits" /\ Next /\ UNCHANGED askVars
       \/ part = "answers" /\ DiagNext
LimitsSpec == LimitsInit /\ [][LimitsNext]_<<diagVars, part>>

ClockBound == clock <= IF part = "limits" THEN MaxClock ELSE AskClock
UntilAnswered == told = Nothing
FreshRows == \A c \in Claims : row'[c] # row[c] /\ row[c] = NoRow => row'[c].at = clock
RoomyNet == ask' # Nothing => ask'.q.net \notin Tight
AskBound == part = "answers" => UntilAnswered /\ FreshRows /\ RoomyNet
RowSymmetry == Permutations(Claims) \cup Permutations(Addrs)
=============================================================================
