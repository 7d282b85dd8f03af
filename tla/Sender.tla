------------------------------- MODULE Sender -------------------------------
(* What the claim route is promised by a sender that can tell "no" from "I    *)
(* cannot say" (src/src/lib/zcash/send.ts, zalletsend.ts): a transaction is   *)
(* asked for once at the most, and the answer is definite only when it is     *)
(* true of what the wallet has done for good.  An unknown answer promises     *)
(* nothing: the wallet may still pay after it.  DripClaim builds on this      *)
(* (SenderReports); ZalletSend implements it.                                 *)
VARIABLES
    op,     \* the payment: not asked for, under way, paid, or dead
    told    \* how send() has settled

senderVars == <<op, told>>

SenderInit == op = "none" /\ told = "none"

\* What send() may settle with, given what the wallet has done.
Reports(state) ==
    {"unknown"} \union (IF state = "paid" THEN {"ok"} ELSE {})
                \union (IF state \in {"none", "dead"} THEN {"failed"} ELSE {})

Asks == op = "none" /\ told = "none" /\ op' = "inflight" /\ UNCHANGED told
Ends == op = "inflight" /\ op' \in {"paid", "dead"} /\ UNCHANGED told
Settles == told = "none" /\ told' \in Reports(op) /\ UNCHANGED op

SenderSpec == SenderInit /\ [][Asks \/ Ends \/ Settles]_senderVars
=============================================================================
