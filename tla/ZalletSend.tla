----------------------------- MODULE ZalletSend -----------------------------
(* One send through zallet (src/src/lib/zcash/zalletsend.ts): the wallet is   *)
(* unlocked, z_sendmany asked for an operation, its status polled until it is *)
(* final, and its result collected.  Every call may be lost on the way in or  *)
(* on the way back, and the wallet may restart and forget its operations.     *)
(* Time is what has passed since send() began; a call takes as long as it     *)
(* likes up to its timeout, and a timer is not late (DEADLINE_MARGIN_MS of    *)
(* sendBudget.ts is for that).                                                *)
EXTENDS Naturals

CONSTANTS
    OpTimeout,      \* ZALLET_OP_TIMEOUT_MS
    RpcTimeout,     \* ZALLET_RPC_TIMEOUT_MS
    PollEvery       \* ZALLET_POLL_MS

\* The config has the two timeouts above zero and no order between the last
\* two.  The worst case of sendBudget.ts needs one: an exhausted pollStatus
\* sleeps once more than it allows for, and saves a call.
ASSUME ZalletSendAssumption ==
    /\ OpTimeout \in Nat /\ RpcTimeout \in Nat
    /\ PollEvery \in Nat \ {0}
    /\ PollEvery <= RpcTimeout

VARIABLES
    at,         \* where send() is
    tries,      \* failed attempts of this pollStatus()
    elapsed,    \* since send() began
    deadline,   \* of awaitOperation()
    wallet,     \* what the wallet has made of the request
    id,         \* whether it knows the operation by its id
    answer      \* how send() has settled

zalletVars == <<at, tries, elapsed, deadline, wallet, id, answer>>

PollRetries == 3

ZalletTypeOK ==
    /\ at \in {"unlocking", "submitting", "replying", "polling", "collecting", "settled"}
    /\ tries \in 0 .. PollRetries - 1
    /\ elapsed \in Nat /\ deadline \in Nat
    /\ wallet \in {"none", "asked", "declined", "running", "paid", "failed", "lost"}
    /\ id \in {"unknown", "known"}
    /\ answer \in {"none", "ok", "failed", "refused", "unknown"}

ZalletInit ==
    /\ at = "unlocking" /\ tries = 0
    /\ elapsed = 0 /\ deadline = 0
    /\ wallet = "none" /\ id = "unknown"
    /\ answer = "none"

\* Fault: the deadline is taken for the end of the loop, and no call but
\* z_sendmany for one that takes time.
WorstCaseUnwalked == OpTimeout + RpcTimeout

\* senderWorstCaseMs(): two calls in front, one behind, and the overrun of the
\* last pollStatus() past the deadline with its sleeps.
BackoffSleeps == (PollRetries * (PollRetries + 1)) \div 2
WorstCase == OpTimeout + (3 + PollRetries) * RpcTimeout + BackoffSleeps * PollEvery

-----------------------------------------------------------------------------
(* send().                                                                 *)

\* rpc(): a call goes on until its timeout at the most.
Call(rest) == \E d \in 0 .. RpcTimeout : elapsed' = elapsed + d + rest
Settle(outcome) == at' = "settled" /\ answer' = outcome

\* walletpassphrase, if there is one; a plain error if it fails.
Unlock ==
    /\ at = "unlocking"
    /\ \/ at' = "submitting" /\ UNCHANGED answer
       \/ Settle("failed")
    /\ Call(0)
    /\ UNCHANGED <<tries, deadline, wallet, id>>

\* z_sendmany is turned away before the wallet has it: no connection, a 4xx.
TurnedAway ==
    /\ at = "submitting"
    /\ Settle("failed")
    /\ Call(0)
    /\ UNCHANGED <<tries, deadline, wallet, id>>

Ask ==
    /\ at = "submitting"
    /\ at' = "replying"
    /\ wallet' = "asked"
    /\ UNCHANGED <<tries, elapsed, deadline, id, answer>>

Spawned == wallet \in {"running", "paid", "failed"}

\* Fault: a lost reply is a refusal (R-26).
ReplyLostMeansNo ==
    /\ at = "replying"
    /\ Settle("failed")
    /\ Call(0)
    /\ UNCHANGED <<tries, deadline, wallet, id>>

\* Timeout, reset, a 5xx or an unreadable body: no word on the operation.
ReplyLost ==
    /\ at = "replying"
    /\ Settle("unknown")
    /\ Call(0)
    /\ UNCHANGED <<tries, deadline, wallet, id>>

\* A JSON-RPC error, about the recipient or about anything else.
Refused ==
    /\ at = "replying" /\ wallet = "declined"
    /\ \E outcome \in {"refused", "failed"} : Settle(outcome)
    /\ Call(0)
    /\ UNCHANGED <<tries, deadline, wallet, id>>

\* The operation's id.
Accepted ==
    /\ at = "replying" /\ Spawned
    /\ at' = "polling"
    /\ Call(0)
    /\ deadline' = elapsed' + OpTimeout
    /\ UNCHANGED <<tries, wallet, id, answer>>

-----------------------------------------------------------------------------
(* awaitOperation().                                                       *)

\* A status that is final.
PollFinal ==
    /\ at = "polling" /\ id = "known" /\ wallet \in {"paid", "failed"}
    /\ at' = "collecting" /\ tries' = 0
    /\ Call(0)
    /\ UNCHANGED <<deadline, wallet, id, answer>>

\* One that is not, or none, as of a wallet that has restarted: the deadline is
\* looked at after the answer only.
PollPending ==
    /\ at = "polling" /\ ~(id = "known" /\ wallet \in {"paid", "failed"})
    /\ tries' = 0
    /\ \E d \in 0 .. RpcTimeout :
          IF elapsed + d > deadline
          THEN Settle("unknown") /\ elapsed' = elapsed + d
          ELSE elapsed' = elapsed + d + PollEvery /\ UNCHANGED <<at, answer>>
    /\ UNCHANGED <<deadline, wallet, id>>

\* pollStatus(): an attempt fails, and sleeps longer than the one before it.
PollFails ==
    /\ at = "polling"
    /\ Call((tries + 1) * PollEvery)
    /\ \/ tries + 1 < PollRetries /\ tries' = tries + 1 /\ UNCHANGED <<at, answer>>
       \/ tries + 1 = PollRetries /\ tries' = 0 /\ Settle("unknown")
    /\ UNCHANGED <<deadline, wallet, id>>

\* z_getoperationresult, which also clears it.  What cannot be read, what is
\* not there any more, and a success without its txid say nothing.
Collect ==
    /\ at = "collecting"
    /\ Call(0)
    /\ \/ Settle("unknown") /\ id' \in {id, "unknown"}
       \/ id = "known" /\ wallet = "paid" /\ Settle("ok") /\ id' = "unknown"
       \/ id = "known" /\ wallet = "failed" /\ Settle("failed") /\ id' = "unknown"
    /\ UNCHANGED <<tries, deadline, wallet>>

SendGoesOn ==
    \/ Unlock \/ TurnedAway \/ Ask \/ ReplyLost \/ Refused \/ Accepted
    \/ PollFinal \/ PollPending \/ PollFails \/ Collect

-----------------------------------------------------------------------------
(* The wallet, which goes on after send() has settled.                     *)

sendVars == <<at, tries, elapsed, deadline, answer>>

Decides ==
    /\ wallet = "asked"
    /\ \/ wallet' = "running" /\ id' = "known"
       \/ wallet' = "declined" /\ UNCHANGED id
    /\ UNCHANGED sendVars

OperationEnds ==
    /\ wallet = "running"
    /\ wallet' \in {"paid", "failed"}
    /\ UNCHANGED <<sendVars, id>>

\* What was not broadcast is gone, and so are the ids.
WalletRestarts ==
    /\ wallet \in {"asked", "running"} \/ id = "known"
    /\ wallet' = CASE wallet = "asked" -> "lost"
                   [] wallet = "running" -> "failed"
                   [] OTHER -> wallet
    /\ id' = "unknown"
    /\ UNCHANGED sendVars

Wallet == Decides \/ OperationEnds \/ WalletRestarts

ZalletNext == SendGoesOn \/ Wallet

ZalletSpec == ZalletInit /\ [][ZalletNext]_zalletVars

-----------------------------------------------------------------------------
(* Properties.                                                             *)

\* However calls are lost, whatever the wallet forgets and whenever it ends, the
\* route is told "ok" of a payment and "failed" of none, and of none that is
\* still to come.
Payment ==
    CASE wallet = "none" -> "none"
      [] wallet \in {"asked", "running"} -> "inflight"
      [] wallet = "paid" -> "paid"
      [] OTHER -> "dead"
AnswerClass == IF answer = "refused" THEN "failed" ELSE answer

S == INSTANCE Sender WITH op <- Payment, told <- AnswerClass
ImplementsSender == S!SenderSpec

\* send() settles within the worst case that the queue's deadline and the lease
\* of a pending claim are derived from.
WithinWorstCase == elapsed <= WorstCase
=============================================================================
