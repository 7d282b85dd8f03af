----------------------------- MODULE DripClaim -----------------------------
(***************************************************************************)
(* A claim from POST to payment: src/src/app/api/faucet/route.ts, with the *)
(* ledger (module Ledger), the send queue (module SerialWallet, which      *)
(* SendQueue implements), the wallet behind the senders, the clock, and    *)
(* the end of the process: a crash, or SIGTERM and drain().                *)
(*                                                                         *)
(* The wallet is another program.  An operation it accepted (op) pays or   *)
(* dies in its own time, whatever became of the handler that asked; the    *)
(* sender sees some of that.  What a sender may report is SenderReports.   *)
(*                                                                         *)
(* Each network has a queue and a wallet of its own (getSendQueue,         *)
(* getCtazSendQueue); an instance of this module is one network.           *)
(***************************************************************************)
EXTENDS Integers, Sequences, FiniteSets

CONSTANTS Claims,           \* POSTs; each names its row and its queued task too
          Steps,            \* reserve-refill steps that share the queue
          Addrs, Ips, Subnets, Nets,
          NoBucket, NoRow, NoRequest, Nobody,
          Cooldown, Day, Grace,
          MaxStale,         \* bound: seconds from the handler's start to its reserve
          Residence,        \* config.sendResidenceMs: how long a task can hold the queue
          LeaseMargin,      \* PENDING_LEASE_MARGIN_SECONDS
          MaxPending,       \* config.sendQueueMaxPending
          IpDailyMax, SubnetDailyMax, Amount, DailyCap,
          BlindNets,        \* networks whose sender reports every lost reply as a failure
          OpMax,            \* bound: how long the wallet works on an operation
          AsyncLedger,      \* the ledger is behind HTTP (DB_BACKEND=d1)
          MaxExits          \* bound: how often the process may end

\* Fault (see README, "Mutants"): a lease that covers one send and no queue.
LeaseOfOneSend == Residence + LeaseMargin

\* pendingLeaseSeconds(): a full queue and the send itself, and a margin.
PendingLeaseSeconds == (MaxPending + 1) * Residence + LeaseMargin

ASSUME DripClaimAssumption ==
    /\ IsFiniteSet(Claims)
    /\ Claims \cap Steps = {}
    /\ Nobody \notin Claims \cup Steps
    /\ \E net \in Nets : Nets = {net}
    /\ BlindNets \subseteq Nets
    /\ {MaxPending, Residence, OpMax, Cooldown, Day, IpDailyMax, SubnetDailyMax} \subseteq Nat \ {0}
    /\ {MaxStale, Grace, LeaseMargin, MaxExits} \subseteq Nat
    /\ {Amount, DailyCap} \subseteq [Nets -> Nat]
    /\ NoBucket \notin Ips \cup Subnets
    /\ AsyncLedger \in BOOLEAN
    /\ MaxStale < Residence + LeaseMargin
    /\ MaxStale <= Grace

VARIABLES clock, row, open, cut,          \* the ledger
          arrivals, served, holder,       \* the send queue
          stage,      \* where the handler of each claim is
          req,        \* what the claim asks for
          stamp,      \* `now`, read when the handler started
          began,      \* when a task took the wallet
          op,         \* the wallet's operation for a claim
          told,       \* what queue.run() settled with for the handler
          reply,      \* what the visitor was answered
          up,         \* the process runs
          draining,   \* __faucetDraining
          exits       \* how often the process has ended

L == INSTANCE Ledger WITH Lease <- PendingLeaseSeconds
W == INSTANCE SerialWallet WITH Tasks <- Claims \cup Steps

ASSUME AbsentAssumption == NoRow \notin L!Rows /\ NoRequest \notin L!Requests

ledgerVars == <<clock, row, open, cut>>
walletVars == <<arrivals, served, holder>>
claimVars == <<stage, req, stamp, told, reply>>
vars == <<ledgerVars, walletVars, claimVars, began, op, up, draining, exits>>

Stages == {"new", "gates", "reserved", "queued", "done"}
Ops == {"none", "inflight", "paid", "dead"}
Outcomes == {"ok", "failed", "unknown"}
Told == Outcomes \cup {"none", "busy", "deadline"}
Replies == {"none", "paid", "failed", "busy", "unknown", "blocked", "refused", "error",
            "drained", "drained early", "cut off", "crashed"}

TypeOK ==
    /\ L!TypeOK
    /\ arrivals \in Seq(Claims \cup Steps)
    /\ served \in 0..Len(arrivals)
    /\ holder \in Claims \cup Steps \cup {Nobody}
    /\ stage \in [Claims -> Stages]
    /\ req \in [Claims -> L!Requests \cup {NoRequest}]
    /\ stamp \in [Claims -> Nat]
    /\ began \in [Claims \cup Steps -> Nat]
    /\ op \in [Claims -> Ops]
    /\ told \in [Claims -> Told]
    /\ reply \in [Claims -> Replies]
    /\ {up, draining} \subseteq BOOLEAN
    /\ exits \in 0..MaxExits

Init ==
    /\ L!Init
    /\ W!Init
    /\ stage = [c \in Claims |-> "new"]
    /\ req = [c \in Claims |-> NoRequest]
    /\ stamp = [c \in Claims |-> 0]
    /\ began = [t \in Claims \cup Steps |-> 0]
    /\ op = [c \in Claims |-> "none"]
    /\ told = [c \in Claims |-> "none"]
    /\ reply = [c \in Claims |-> "none"]
    /\ up = TRUE
    /\ draining = FALSE
    /\ exits = 0

Answer(c, what) ==
    /\ stage' = [stage EXCEPT ![c] = "done"]
    /\ reply' = [reply EXCEPT ![c] = what]

-----------------------------------------------------------------------------
(* The handler up to the reservation.                                      *)

\* A POST arrives: `now` is read first, the draining flag once the body is in.
Arrive(c, q) ==
    /\ up
    /\ stage[c] = "new"
    /\ req' = [req EXCEPT ![c] = q]
    /\ stamp' = [stamp EXCEPT ![c] = clock]
    /\ IF draining
       THEN Answer(c, "refused")
       ELSE stage' = [stage EXCEPT ![c] = "gates"] /\ UNCHANGED reply
    /\ UNCHANGED <<ledgerVars, walletVars, began, op, told, up, draining, exits>>

\* Some gate in front of the reservation refuses: send health, the proof of
\* work, the balance, the chain view, the wallet's lag, cTAZ readiness; or the
\* proof is already burned (module Challenge).
GateRefuses(c) ==
    /\ stage[c] = "gates"
    /\ Answer(c, "refused")
    /\ UNCHANGED <<ledgerVars, walletVars, req, stamp, began, op, told, up, draining, exits>>

\* reserveClaim() inserts the row.
Reserve(c) ==
    /\ stage[c] = "gates"
    /\ L!Reserve(c, req[c], stamp[c])
    /\ stage' = [stage EXCEPT ![c] = "reserved"]
    /\ UNCHANGED <<walletVars, req, stamp, began, op, told, reply, up, draining, exits>>

\* reserveClaim() inserts nothing: a 429, or a 503 for the daily cap.
Blocked(c) ==
    /\ stage[c] = "gates"
    /\ ~L!Admissible(req[c], stamp[c])
    /\ L!Refuse(stamp[c])
    /\ Answer(c, "blocked")
    /\ UNCHANGED <<walletVars, req, stamp, began, op, told, up, draining, exits>>

\* The row went in and the answer of the remote ledger was lost: the handler
\* throws, and the row is nobody's.
ReserveLost(c) ==
    /\ AsyncLedger
    /\ stage[c] = "reserved"
    /\ L!Abandon({c})
    /\ Answer(c, "error")
    /\ UNCHANGED <<walletVars, req, stamp, began, op, told, up, draining, exits>>

-----------------------------------------------------------------------------
(* The queue and the wallet.                                               *)

\* queue.run(): join the line, or learn that it is full.
Enqueue(c) ==
    /\ stage[c] = "reserved"
    /\ stage' = [stage EXCEPT ![c] = "queued"]
    /\ \/ W!Arrive(c) /\ UNCHANGED told
       \/ /\ W!Depth >= MaxPending
          /\ told' = [told EXCEPT ![c] = "busy"]
          /\ UNCHANGED walletVars
    /\ UNCHANGED <<ledgerVars, req, stamp, began, op, reply, up, draining, exits>>

\* The reserve loop starts a refill step, only when the queue is empty.
EnqueueStep(s) ==
    /\ up
    /\ W!Depth = 0
    /\ W!Arrive(s)
    /\ UNCHANGED <<ledgerVars, claimVars, began, op, up, draining, exits>>

Take(t) ==
    /\ W!Take(t)
    /\ began' = [began EXCEPT ![t] = clock]
    /\ UNCHANGED <<ledgerVars, claimVars, op, up, draining, exits>>

FinishStep(s) ==
    /\ W!Release(s)
    /\ UNCHANGED <<ledgerVars, claimVars, began, op, up, draining, exits>>

\* The wallet takes the job.  Whether its answer arrives is another matter.
Submit(c) ==
    /\ holder = c
    /\ op[c] = "none"
    /\ op' = [op EXCEPT ![c] = "inflight"]
    /\ UNCHANGED <<ledgerVars, walletVars, claimVars, began, up, draining, exits>>

\* The wallet broadcasts, or gives the job up.
OpEnds(c) ==
    /\ op[c] = "inflight"
    /\ \E end \in {"paid", "dead"} : op' = [op EXCEPT ![c] = end]
    /\ UNCHANGED <<ledgerVars, walletVars, claimVars, began, up, draining, exits>>

\* What send() may settle with, given what the wallet did.  zalletsend.ts says
\* "failed" only of an operation that was never accepted or was seen dead, and
\* "unknown" whenever it could not tell.  crosslinksend.ts has no unknown: a
\* lost, busy or unreadable reply is a plain error whatever the node did.
SenderReports(net, state) ==
    IF net \in BlindNets
    THEN {"failed"} \cup (IF state = "paid" THEN {"ok"} ELSE {})
    ELSE {"unknown"} \cup (IF state = "paid" THEN {"ok"} ELSE {})
                     \cup (IF state \in {"none", "dead"} THEN {"failed"} ELSE {})

\* The task settles: its slot is free, and its caller is told unless the
\* deadline told it already.
Finish(c) ==
    /\ c \in Claims
    /\ W!Release(c)
    /\ \E outcome \in SenderReports(req[c].net, op[c]) :
          told' = [told EXCEPT ![c] = IF @ = "none" THEN outcome ELSE @]
    /\ UNCHANGED <<ledgerVars, stage, req, stamp, reply, began, op, up, draining, exits>>

\* The deadline answers the caller; the task goes on.
Deadline(c) ==
    /\ holder = c
    /\ told[c] = "none"
    /\ told' = [told EXCEPT ![c] = "deadline"]
    /\ UNCHANGED <<ledgerVars, walletVars, stage, req, stamp, reply, began, op, up, draining, exits>>

-----------------------------------------------------------------------------
(* The handler after the queue.                                            *)

\* Faults: an unknown outcome, or a deadline, is taken for a failure; an
\* unknown outcome for a success; the outcome is passed on untranslated.
StatusReleasingUnknown(what) == IF what \in {"ok", "deadline"} THEN "sent" ELSE "failed"
StatusReleasingDeadline(what) == IF what \in {"ok", "unknown"} THEN "sent" ELSE "failed"
ReplyHopeful(what) == IF what \in {"ok", "unknown"} THEN "paid" ELSE "failed"
ReplyUntranslated(what) == what

\* An outcome nobody observed is recorded as a payment.
StatusFor(what) == IF what \in {"ok", "unknown", "deadline"} THEN "sent" ELSE "failed"

ReplyFor(what) ==
    CASE what = "ok" -> "paid"
      [] what \in {"unknown", "deadline"} -> "unknown"
      [] what = "failed" -> "failed"
      [] what = "busy" -> "busy"

\* finalizeClaim() and the response.  A finalise that fails is only logged:
\* the row is left to its lease and the response is the same.
Conclude(c) ==
    /\ stage[c] = "queued"
    /\ told[c] # "none"
    /\ \/ L!Finalize(c, StatusFor(told[c]))
       \/ L!Abandon({c})
    /\ Answer(c, ReplyFor(told[c]))
    /\ UNCHANGED <<walletVars, req, stamp, began, op, told, up, draining, exits>>

-----------------------------------------------------------------------------
(* The end of the process, and the next one.                               *)

Handled == {c \in Claims : stage[c] \in {"gates", "reserved", "queued"}}

\* Every handler and the whole queue are gone; rows and wallet stay.
Die(how) ==
    /\ exits < MaxExits
    /\ exits' = exits + 1
    /\ up' = FALSE
    /\ IF open # {} THEN L!Abandon(open) ELSE UNCHANGED ledgerVars
    /\ arrivals' = <<>>
    /\ served' = 0
    /\ holder' = Nobody
    /\ stage' = [c \in Claims |-> IF c \in Handled THEN "done" ELSE stage[c]]
    /\ reply' = [c \in Claims |-> IF c \in Handled THEN how ELSE reply[c]]
    /\ UNCHANGED <<req, stamp, began, op, told, draining>>

Crash == up /\ Die("crashed")

\* The signal handler sets the flag and polls the depth of the queues.
Sigterm ==
    /\ up
    /\ ~draining
    /\ exits < MaxExits
    /\ draining' = TRUE
    /\ UNCHANGED <<ledgerVars, walletVars, claimVars, began, op, up, exits>>

\* Fault: the exit does not wait for a handler that was told to record it.
ReservationsQueued == \A c \in Claims : stage[c] # "reserved"

\* The poll is a timer: on the local ledger every continuation of a handler
\* that was told, or that just reserved, has run before it.  On the remote one
\* those continuations wait for a reply of their own, and the exit may be early.
ContinuationsRan ==
    \A c \in Claims : stage[c] # "reserved" /\ ~(stage[c] = "queued" /\ told[c] # "none")

ExitEmptied ==
    /\ up
    /\ draining
    /\ W!Depth = 0
    /\ \/ ContinuationsRan /\ Die("drained")
       \/ AsyncLedger /\ ~ContinuationsRan /\ Die("drained early")

ExitAtBound ==
    /\ up
    /\ draining
    /\ W!Depth > 0
    /\ Die("cut off")

Restart ==
    /\ ~up
    /\ up' = TRUE
    /\ draining' = FALSE
    /\ UNCHANGED <<ledgerVars, walletVars, claimVars, began, op, exits>>

Purge ==
    /\ L!Purge
    /\ UNCHANGED <<walletVars, claimVars, began, op, up, draining, exits>>

\* A second passes.  It is longer than a ledger write and than the hand-over
\* of the wallet, and it does not pass while a bound would be broken: a
\* handler reaches its reserve within MaxStale, a task leaves the queue within
\* Residence, the wallet ends an operation within OpMax.  Nothing here bounds
\* the age of a row.
Tick ==
    /\ \A c \in Claims :
          /\ stage[c] # "reserved"
          /\ stage[c] = "gates" => clock < stamp[c] + MaxStale
          /\ stage[c] = "queued" => told[c] = "none"
          /\ op[c] = "inflight" => clock < began[c] + OpMax
    /\ holder = Nobody => W!Depth = 0
    /\ holder # Nobody => clock < began[holder] + Residence
    /\ clock' = clock + 1
    /\ UNCHANGED <<row, open, cut, walletVars, claimVars, began, op, up, draining, exits>>

ClaimStep(c) ==
    \/ \E q \in L!Requests : Arrive(c, q)
    \/ GateRefuses(c) \/ Reserve(c) \/ Blocked(c) \/ ReserveLost(c) \/ Enqueue(c)
    \/ Take(c) \/ Submit(c) \/ OpEnds(c) \/ Finish(c) \/ Deadline(c) \/ Conclude(c)

Next ==
    \/ \E c \in Claims : ClaimStep(c)
    \/ \E s \in Steps : EnqueueStep(s) \/ Take(s) \/ FinishStep(s)
    \/ Crash \/ Sigterm \/ ExitEmptied \/ ExitAtBound \/ Restart
    \/ Purge \/ Tick

Spec == Init /\ [][Next]_vars

-----------------------------------------------------------------------------
(* Properties.                                                             *)

\* The lease covers the queue: every step of the pipeline is a step of the
\* ledger under its assumption that no row outlives its lease while a handler
\* holds it, however full the queue and however late the `now` (sql.ts).
ImplementsLedger == L!Spec

\* The wallet moved coins, or still may.
MayPay(c) == op[c] \in {"inflight", "paid"}

\* The claim's row records the payment, or its handler will see to it.
OnRecord(c) == c \in open \/ (row[c] # NoRow /\ row[c].status = "sent")

\* Two payments to one address on one network are a cooldown apart; when the
\* first one's record was lost (a crash, a failed finalise) they are still a
\* lease apart.
PaymentsApart ==
    \A c, d \in Claims :
        /\ c # d
        /\ op[c] = "paid"
        /\ op[d] = "paid"
        /\ req[c].addr = req[d].addr
        /\ req[c].net = req[d].net
        /\ stamp[c] <= stamp[d]
        => stamp[d] - stamp[c] >=
              IF OnRecord(c) \/ PendingLeaseSeconds >= Cooldown THEN Cooldown
                                                              ELSE PendingLeaseSeconds

\* A row is only released for a send that can no longer pay: "Nothing left the
\* wallet" is true when it is said and stays true.
ReleasedMeansUnpaid ==
    \A c \in Claims :
        (row[c] # NoRow /\ row[c].status = "failed")
            \/ reply[c] \in {"failed", "busy", "blocked", "refused"} => ~MayPay(c)

\* What the visitor is told of the money is true, of a payment as well.
RepliesAreTrue == ReleasedMeansUnpaid /\ \A c \in Claims : reply[c] = "paid" => op[c] = "paid"

\* A process that leaves because its queues are empty takes no payment with
\* it: no handler it kills had asked the wallet for anything.  What drain() is
\* for (drain.ts), on either ledger.
DrainLosesNothing ==
    \A c \in Claims : reply[c] \in {"drained", "drained early"} => ~MayPay(c)

\* The part of it the code keeps: nothing is lost once every handler that was
\* told has recorded what it was told, which the local ledger makes sure of.
DrainLosesNothingSettled ==
    \A c \in Claims : reply[c] = "drained" => ~MayPay(c)
=============================================================================
