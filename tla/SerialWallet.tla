---------------------------- MODULE SerialWallet ----------------------------
(***************************************************************************)
(* What the send queue promises, and nothing of how it keeps the promise.  *)
(*                                                                         *)
(* Tasks arrive in an order and are served in that order.  At most one     *)
(* task holds the hot wallet; it is always the oldest one not yet served.  *)
(* No more than MaxPending tasks are ever inside (waiting or holding).     *)
(* src/src/lib/zcash/queue.ts implements this with a chain of promises     *)
(* (module SendQueue); the claim pipeline (module DripClaim) is written    *)
(* against the promise alone.                                              *)
(***************************************************************************)
EXTENDS Naturals, Sequences

CONSTANTS Tasks,        \* every call of run(), each an identity of its own
          MaxPending,   \* config.sendQueueMaxPending
          Nobody        \* the holder of a free wallet, not a task

VARIABLES arrivals,     \* the admitted tasks, oldest first
          served,       \* how many of them are finished with the wallet
          holder        \* the task holding the wallet, or Nobody

walletVars == <<arrivals, served, holder>>

Depth == Len(arrivals) - served

Arrived(t) == \E i \in DOMAIN arrivals : arrivals[i] = t

Init ==
    /\ arrivals = <<>>
    /\ served = 0
    /\ holder = Nobody

Arrive(t) ==
    /\ ~Arrived(t)
    /\ Depth < MaxPending
    /\ arrivals' = Append(arrivals, t)
    /\ UNCHANGED <<served, holder>>

Take(t) ==
    /\ holder = Nobody
    /\ served < Len(arrivals)
    /\ t = arrivals[served + 1]
    /\ holder' = t
    /\ UNCHANGED <<arrivals, served>>

Release(t) ==
    /\ t \in Tasks
    /\ holder = t
    /\ holder' = Nobody
    /\ served' = served + 1
    /\ UNCHANGED arrivals

Next == \E t \in Tasks : Arrive(t) \/ Take(t) \/ Release(t)

Spec == Init /\ [][Next]_walletVars
=============================================================================
