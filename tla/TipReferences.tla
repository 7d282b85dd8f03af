--------------------------- MODULE TipReferences ---------------------------
(* The outside view of the chain's tip (externalTip.ts) and the claim that   *)
(* asks for it before it pays (shieldGate.ts, walletLagGate.ts, the two      *)
(* gates of route.ts).  Two references, an aggregate and a direct endpoint,  *)
(* are asked in parallel, at most one attempt at a time and one a second;    *)
(* each keeps its last answer and its age.  Reads never wait: they serve     *)
(* what is remembered and start an attempt when the newest answer is old.    *)
(* Only a claim waits, by polling, for one whole attempt.                    *)
(*                                                                           *)
(* Time is counted in ticks; what is remembered is an age, and an age that   *)
(* no rule can tell from an older one is not counted any further.            *)
EXTENDS Naturals

CONSTANTS
    Claims,         \* POSTs on the TAZ faucet that reach the chain gates
    Hosh, Direct,   \* the two references
    Honest,         \* the references that answer with the network's own tip
    Limit,          \* [Sources -> Nat] how long a reference may take to answer
    MinAttemptGap,  \* between the starts of two attempts
    StaleAfter,     \* a reader starts an attempt once the newest answer is older
    MaxAge,         \* an older answer vouches for nothing
    LagBudget,      \* SHIELD_MAX_LAG_BLOCKS: node behind the reference
    WalletBudget,   \* WALLET_MAX_LAG_BLOCKS: wallet behind the node
    MaxTip,         \* bound: the network mines no block above this height
    Pending,        \* what a reference that was asked has said so far
    Nothing         \* null

Sources == {Hosh, Direct}

\* One attempt asks both at once: it lasts as long as the slower one may.
AttemptMax == IF Limit[Hosh] >= Limit[Direct] THEN Limit[Hosh] ELSE Limit[Direct]

\* Fault (see README, "Mutants"): a wait of one reference, without the gap.
WaitWithoutGap == Limit[Direct] + 1

\* ORACLE_WAIT_MS: the gap, the two limits in series, and a poll interval.
OracleWait == MinAttemptGap + (Limit[Hosh] + Limit[Direct]) + 1

ASSUME TipAssumption ==
    /\ Hosh # Direct
    /\ Honest \subseteq Sources
    /\ Limit \in [Sources -> Nat \ {0}]
    /\ MinAttemptGap \in Nat
    /\ StaleAfter \in Nat
    /\ MaxAge \in Nat /\ StaleAfter < MaxAge
    /\ LagBudget \in Nat
    /\ WalletBudget \in Nat
    /\ MaxTip \in Nat \ {0}
    /\ Pending # Nothing /\ Pending \notin Nat /\ Nothing \notin Nat
    /\ Nothing \notin [height : Nat, age : Nat] \union [node : Nat, wallet : Nat]

VARIABLES
    tip,            \* the network's height, what the references stand for
    ref,            \* [Sources -> last answer], with its age
    asking,         \* an attempt is under way (__faucetTipRefreshing)
    said,           \* [Sources -> what this attempt has heard so far]
    elapsed,        \* since the attempt began
    sinceAttempt,   \* since the last attempt began, counted up to the gap
    gate,           \* [Claims -> where the claim's chain gates stand]
    seen,           \* [Claims -> the two heights of its one node reading]
    waited,         \* [Claims -> how long it has been polling]
    polled,         \* the claims that have polled in this tick
    heard           \* the claims during whose wait an attempt has ended

refVars == <<ref, asking, said, elapsed, sinceAttempt>>
gateVars == <<gate, seen, waited, polled, heard>>
tipVars == <<tip, refVars, gateVars>>

Heights == 1 .. MaxTip
Entries == [height : Heights, age : 0 .. MaxAge + 1] \union {Nothing}
NodeReadings == [node : Heights, wallet : Heights] \union {Nothing}
Verdicts == {"served", "unsafe", "unverifiable", "wallet behind"}

TipTypeOK ==
    /\ tip \in Heights
    /\ ref \in [Sources -> Entries]
    /\ asking \in BOOLEAN
    /\ said \in [Sources -> Heights \union {Nothing, Pending}]
    /\ elapsed \in 0 .. AttemptMax
    /\ sinceAttempt \in 0 .. MinAttemptGap
    /\ gate \in [Claims -> {"idle", "waiting"} \union Verdicts]
    /\ seen \in [Claims -> NodeReadings]
    /\ waited \in [Claims -> 0 .. OracleWait]
    /\ polled \subseteq Claims
    /\ heard \subseteq Claims

TipInit ==
    /\ tip = 1
    /\ ref = [s \in Sources |-> Nothing]
    /\ asking = FALSE
    /\ said = [s \in Sources |-> Nothing]
    /\ elapsed = 0
    /\ sinceAttempt = MinAttemptGap
    /\ gate = [c \in Claims |-> "idle"]
    /\ seen = [c \in Claims |-> Nothing]
    /\ waited = [c \in Claims |-> 0]
    /\ polled = {}
    /\ heard = {}

-----------------------------------------------------------------------------
(* What is read, without waiting.                                          *)

\* getTipReferences(): the references young enough to vouch for anything.
Usable == {s \in Sources : ref[s] # Nothing /\ ref[s].age <= MaxAge}

\* Fault: the aggregate speaks whenever it is young enough.
AggregateFirst ==
    IF Usable = {} THEN Nothing
    ELSE IF Hosh \in Usable THEN ref[Hosh].height ELSE ref[Direct].height

\* referenceTip().height: the highest of them, so that a reference that lags
\* cannot vouch for a node that another one sees behind; null without one.
ReferenceTip ==
    IF Usable = {} THEN Nothing
    ELSE CHOOSE h \in {ref[s].height : s \in Usable} :
            \A s \in Usable : ref[s].height <= h

\* kickIfStale(): the newest answer is old, or there is none.
Old == \A s \in Sources : ref[s] # Nothing => ref[s].age > StaleAfter

\* chainFreshness(): null on either side is not a lag of nought.
ChainFreshness(node, outside) ==
    CASE node = Nothing \/ outside = Nothing -> "unverifiable"
      [] node # Nothing /\ outside # Nothing /\ outside > node + LagBudget -> "unsafe"
      [] OTHER -> "safe"

\* walletLagFreshness() on a reading with both heights.
WalletLagSafe(reading) == reading.node <= reading.wallet + WalletBudget

\* The two gates of the route on one and the same reading.
Judge(reading, outside) ==
    LET freshness == ChainFreshness(IF reading = Nothing THEN Nothing ELSE reading.node, outside)
    IN  IF freshness # "safe" THEN freshness
        ELSE IF WalletLagSafe(reading) THEN "served" ELSE "wallet behind"

-----------------------------------------------------------------------------
(* One attempt.                                                            *)

MayStart == ~asking /\ sinceAttempt >= MinAttemptGap

\* refresh() up to its await: guarded by the flag and by the gap.
Refresh ==
    /\ asking' = TRUE
    /\ sinceAttempt' = 0
    /\ elapsed' = 0
    /\ said' = [s \in Sources |-> Pending]
    /\ UNCHANGED ref

\* A read that may start an attempt and returns at once either way.
RefreshIf(wanted) ==
    IF wanted /\ MayStart THEN Refresh ELSE UNCHANGED refVars

\* The pages, the readiness route, the warm-up at boot and the watchdog read.
SomebodyReads ==
    /\ Old /\ MayStart
    /\ Refresh
    /\ UNCHANGED <<tip, gateVars>>

\* A reference answers: an honest one what the network's tip is, any other
\* one a height the network has passed.
ReferenceAnswers(s) ==
    /\ asking /\ said[s] = Pending
    /\ \E h \in Heights :
          /\ IF s \in Honest THEN h = tip ELSE h <= tip
          /\ said' = [said EXCEPT ![s] = h]
    /\ UNCHANGED <<tip, ref, asking, elapsed, sinceAttempt, gateVars>>

\* A refusal, an answer without a height, or the abort at the limit.
Fails(s) ==
    /\ asking /\ said[s] = Pending
    /\ said' = [said EXCEPT ![s] = Nothing]
    /\ UNCHANGED <<tip, ref, asking, elapsed, sinceAttempt, gateVars>>

\* The end of refresh(): each reference keeps its own answer and its own age;
\* one that failed keeps its last one.  The flag goes down either way.
Kept(s) == IF said[s] = Nothing THEN ref[s] ELSE [height |-> said[s], age |-> 0]
Lands ==
    /\ asking
    /\ \A s \in Sources : said[s] # Pending
    /\ ref' = [s \in Sources |-> Kept(s)]
    /\ asking' = FALSE
    /\ said' = [s \in Sources |-> Nothing]
    /\ elapsed' = 0
    /\ heard' = heard \union {c \in Claims : gate[c] = "waiting"}
    /\ UNCHANGED <<tip, sinceAttempt, gate, seen, waited, polled>>

-----------------------------------------------------------------------------
(* A claim at its gates.                                                   *)

\* readChainFreshnessAsking() is entered with the one node reading of the
\* route.  Without a reading there is nothing to wait for.
EnterGates(c) ==
    /\ gate[c] = "idle"
    /\ \E reading \in NodeReadings :
          /\ reading # Nothing => reading.node <= tip /\ reading.wallet <= reading.node
          /\ seen' = [seen EXCEPT ![c] = reading]
          /\ gate' = [gate EXCEPT ![c] = IF reading = Nothing THEN "unverifiable" ELSE "waiting"]
    /\ RefreshIf(Old)
    /\ UNCHANGED <<tip, waited, polled, heard>>

\* The poll finds a height, or the wait is over: the gates judge what there is.
Conclude(c) ==
    /\ gate[c] = "waiting" /\ c \notin polled
    /\ ReferenceTip # Nothing \/ waited[c] >= OracleWait
    /\ gate' = [gate EXCEPT ![c] = Judge(seen[c], ReferenceTip)]
    /\ RefreshIf(Old)
    /\ UNCHANGED <<tip, seen, waited, polled, heard>>

\* The poll finds none: warmExternalTip(), which may start an attempt, and on.
PollAgain(c) ==
    /\ gate[c] = "waiting" /\ c \notin polled
    /\ ReferenceTip = Nothing /\ waited[c] < OracleWait
    /\ RefreshIf(TRUE)
    /\ polled' = polled \union {c}
    /\ UNCHANGED <<tip, gate, seen, waited, heard>>

\* Time passes once every timer that is due has run: the aborts, the landing
\* that follows the last answer, the polls.  The network may mine a block.
AgedEntry(entry) ==
    IF entry = Nothing \/ entry.age > MaxAge THEN entry
    ELSE [entry EXCEPT !.age = @ + 1]

NothingDue ==
    /\ asking => \E s \in Sources : said[s] = Pending
    /\ asking => \A s \in Sources : said[s] = Pending => elapsed < Limit[s]
    /\ \A c \in Claims : gate[c] = "waiting" => c \in polled

TimePasses ==
    /\ NothingDue
    /\ tip' \in {tip, tip + 1} \intersect Heights
    /\ ref' = [s \in Sources |-> AgedEntry(ref[s])]
    /\ elapsed' = IF asking THEN elapsed + 1 ELSE elapsed
    /\ sinceAttempt' = IF sinceAttempt < MinAttemptGap THEN sinceAttempt + 1 ELSE sinceAttempt
    /\ waited' = [c \in Claims |-> IF gate[c] = "waiting" THEN waited[c] + 1 ELSE waited[c]]
    /\ polled' = {}
    /\ UNCHANGED <<asking, said, gate, seen, heard>>

Claim(c) == EnterGates(c) \/ Conclude(c) \/ PollAgain(c)
Attempt == Lands \/ \E s \in Sources : ReferenceAnswers(s) \/ Fails(s)

TipNext == TimePasses \/ SomebodyReads \/ Attempt \/ \E c \in Claims : Claim(c)

TipSpec == TipInit /\ [][TipNext]_tipVars

-----------------------------------------------------------------------------
(* Properties.                                                             *)

\* "We cannot verify" means the references would not tell, never that nobody
\* got round to asking (readChainFreshnessAsking): an attempt came back during
\* the wait of every claim refused so.
AskedInFull ==
    \A c \in Claims :
        gate[c] = "unverifiable" /\ seen[c] # Nothing => c \in heard

\* What a claim served by both gates is built on: its wallet's height, from
\* which the expiry is stamped, is within the two budgets of the network, up to
\* the blocks mined while the answer of an honest reference grew old.  A block
\* a tick at the most.
ServedNearTheTip ==
    [][\A c \in Claims :
          /\ gate[c] = "waiting" /\ gate'[c] = "served"
          /\ \E s \in Honest : s \in Usable
          => tip <= seen[c].wallet + WalletBudget + LagBudget + MaxAge + AttemptMax]_tipVars

=============================================================================
